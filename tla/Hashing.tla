------------------------------- MODULE Hashing -------------------------------
(***************************************************************************)
(* A caller that hashes a message piece by piece through the functions of  *)
(* cryptography/sha2.c, sha3.c and hmac.c: Init, any number of updates,    *)
(* Final.  The message is a prefix of one long sequence of bytes.          *)
(***************************************************************************)
EXTENDS Sha2, Sha3

-----------------------------------------------------------------------------
(* The reference, from what the standards say of the digest of a message:    *)
(* FIPS 180-4 pads the whole message, cuts it into blocks and expands every  *)
(* block into a schedule; FIPS 202 does the same with words at coordinates;  *)
(* RFC 2104 makes a code from two hashes.  The constants of the rounds and   *)
(* the logical functions are those of Sha2.                                  *)

ZeroBytes(n) == [i \in 1..n |-> {}]

(* The big-endian words of a block.                                          *)
BlockOf(h, bytes, b) ==
    LET size == BytesOfWord(h)
    IN  [j \in 1..16 |-> BytesWord([k \in 1..size |-> bytes[b * BlockLength(h) + j * size + 1 - k]])]

PaddedMessage(h, bytes) ==
    LET length == BytesOfWord(h)
        size == BlockLength(h)
        zeros == CHOOSE n \in 0..size - 1 : (Len(bytes) + 1 + n + 2 * length) % size = 0
    IN  bytes \o <<{7}>> \o ZeroBytes(zeros + length) \o
        Reverse(WordBytes(WordOf(8 * Len(bytes)), length))

(* W[0], ..., one word a round.                                              *)
Schedule(h, block) ==
    LET upTo[t \in 16..h.rounds] ==
          IF t = 16 THEN block
          ELSE LET w == upTo[t - 1]
                   next == IF h = sha1
                           THEN Rotl[32, 1, Xor3(w[t - 3], w[t - 8], XorW[w[t - 14], w[t - 16]])]
                           ELSE Plus(h, <<sigma1(h, w[t - 2]), w[t - 7], sigma0(h, w[t - 15]), w[t - 16]>>)
               IN  Append(w, next)
    IN  upTo[h.rounds]

Compression[h \in Hashes, H \in Seq(Word), block \in Seq(Word)] ==
    LET W == Schedule(h, block)
        round[v \in Seq(Word), t \in Nat] ==
          IF h = sha1
          THEN LET T == Plus(h, <<Rotl[32, 5, v[1]], v[5], K(h, t), W[t + 1],
                                  CASE t < 20 -> Ch(v[2], v[3], v[4])
                                    [] t \in 40..59 -> Maj(v[2], v[3], v[4])
                                    [] OTHER -> Xor3(v[2], v[3], v[4])>>)
               IN  <<T, v[1], Rotl[32, 30, v[2]], v[3], v[4]>>
          ELSE LET T1 == Plus(h, <<v[8], Sigma1(h, v[5]), Ch(v[5], v[6], v[7]), K(h, t), W[t + 1]>>)
                   T2 == Plus(h, <<Sigma0(h, v[1]), Maj(v[1], v[2], v[3])>>)
               IN  <<Plus(h, <<T1, T2>>), v[1], v[2], v[3], Plus(h, <<v[4], T1>>), v[5], v[6], v[7]>>
        upTo[t \in 0..h.rounds] == IF t = 0 THEN H ELSE round[upTo[t - 1], t - 1]
        last == upTo[h.rounds]
    IN  [i \in DOMAIN H |-> Plus(h, <<H[i], last[i]>>)]

(* The hash value behind the first blocks.                                   *)
StateBehind(h, bytes, blocks) ==
    LET upTo[n \in 0..blocks] ==
          IF n = 0 THEN InitialState(h) ELSE Compression[h, upTo[n - 1], BlockOf(h, bytes, n - 1)]
    IN  upTo[blocks]

Sha2Digest(h, bytes) ==
    LET state[padded \in Seq(Byte)] == StateBehind(h, padded, Len(padded) \div BlockLength(h))
        output[H \in Seq(Word)] ==
          FlattenSeq([i \in DOMAIN H |-> Reverse(WordBytes(H[i], BytesOfWord(h)))])
    IN  output[state[PaddedMessage(h, bytes)]]

HmacDigest(h, key, bytes) ==
    LET digest[message \in Seq(Byte)] == Sha2Digest(h, message)
        block[short \in Seq(Byte)] == short \o ZeroBytes(BlockLength(h) - Len(short))
        code[K0 \in Seq(Byte)] == digest[Pad[K0, opad] \o digest[Pad[K0, ipad] \o bytes]]
    IN  code[block[IF Len(key) > BlockLength(h) THEN digest[key] ELSE key]]

-----------------------------------------------------------------------------
(* FIPS 202: A[x, y], the lane at x and y.                                   *)

Coordinates == (0..4) \X (0..4)
LaneArray == [Coordinates -> Word]

(* The walk of rho: from (1, 0), (x, y) is followed by (y, 2x + 3y).         *)
RhoOffsets ==
    LET walk[t \in 0..23] ==
          IF t = 0 THEN <<1, 0>> ELSE LET p == walk[t - 1] IN <<p[2], (2 * p[1] + 3 * p[2]) % 5>>
    IN  [p \in Coordinates |->
           IF p = <<0, 0>> THEN 0
           ELSE LET t == CHOOSE i \in 0..23 : walk[i] = p IN (((t + 1) * (t + 2)) \div 2) % 64]

(* The bits of the linear feedback register, which make the constants.       *)
Feedback ==
    LET register[t \in 0..254] ==
          IF t = 0 THEN {0}
          ELSE LET R == {k + 1 : k \in register[t - 1]}
               IN  IF 8 \in R THEN XorByte(R \ {8}, {0, 4, 5, 6}) ELSE R
    IN  [t \in 0..254 |-> 0 \in register[t]]

RoundConstants ==
    LET bits == Feedback IN [i \in 0..23 |-> {2^j - 1 : j \in {m \in 0..6 : bits[(m + 7 * i) % 255]}}]

KeccakRound[A \in LaneArray, constant \in Word] ==
    LET parity == [x \in 0..4 |-> Xor3(A[x, 0], A[x, 1], Xor3(A[x, 2], A[x, 3], A[x, 4]))]
        theta[C \in [0..4 -> Word]] ==
          [p \in Coordinates |-> Xor3(A[p], C[(p[1] + 4) % 5], Rotl[64, 1, C[(p[1] + 1) % 5]])]
        rho[B \in LaneArray] == [p \in Coordinates |-> Rotl[64, RhoOffsets[p], B[p]]]
        pi[B \in LaneArray] == [p \in Coordinates |-> B[(p[1] + 3 * p[2]) % 5, p[1]]]
        chi[B \in LaneArray] ==
          [p \in Coordinates |-> XorW[B[p], B[(p[1] + 2) % 5, p[2]] \ B[(p[1] + 1) % 5, p[2]]]]
    IN  [chi[pi[rho[theta[parity]]]] EXCEPT ![<<0, 0>>] = XorW[@, constant]]

KeccakP[A \in LaneArray] ==
    LET constants == RoundConstants
        upTo[n \in 0..24] == IF n = 0 THEN A ELSE KeccakRound[upTo[n - 1], constants[n - 1]]
    IN  upTo[24]

(* The sponge behind the first blocks of rate bytes.                         *)
Sponge(rate, bytes, blocks) ==
    LET lane(n, p) ==
          LET at == 8 * (p[1] + 5 * p[2])
          IN  IF at < rate THEN BytesWord(SubSeq(bytes, n * rate + at + 1, n * rate + at + 8)) ELSE {}
        upTo[n \in 0..blocks] ==
          IF n = 0 THEN [p \in Coordinates |-> {}]
          ELSE LET S == upTo[n - 1] IN KeccakP[[p \in Coordinates |-> XorW[S[p], lane(n - 1, p)]]]
    IN  upTo[blocks]

(* Domain is 01 for SHA-3 and nothing for Keccak, behind it 10...01.         *)
KeccakDigest(bits, mark, bytes) ==
    LET rate  == (1600 - 2 * bits) \div 8
        blank == bytes \o ZeroBytes(rate - (Len(bytes) % rate))
        padded == [i \in DOMAIN blank |-> blank[i] \cup (IF i = Len(bytes) + 1 THEN mark ELSE {})
                                                   \cup (IF i = Len(blank) THEN {7} ELSE {})]
        sponge[message \in Seq(Byte)] == Sponge(rate, message, Len(message) \div rate)
        output[S \in LaneArray] ==
          FlattenSeq([n \in 1..bits \div 64 |-> WordBytes(S[(n - 1) % 5, (n - 1) \div 5], 8)])
    IN  output[sponge[padded]]

-----------------------------------------------------------------------------
(* The caller.                                                               *)

CONSTANTS
  Kinds,         \* what is computed: records of a family and its parameters
  Pattern(_),    \* the bytes of the message
  Pieces(_),     \* the lengths of the pieces, by kind
  Addresses,     \* of a piece, modulo eight
  MaxUpdates     \* bound on the pieces

HashingAssumption ==
  /\ \A kind \in Kinds :
       \/ kind.family = "sha2" /\ kind.hash \in Hashes
       \/ kind.family = "hmac" /\ kind.hash \in Hashes /\ kind.key \in Seq(Byte)
       \/ kind.family = "sha3" /\ kind.bits \in {256, 512} /\ kind.mark \in {{0}, {1, 2}}
  /\ \A n \in 1..300 : Pattern(n) \in Byte
  /\ Addresses \subseteq 0..7
  /\ MaxUpdates \in Nat

ASSUME HashingAssumption

VARIABLES
  kind,
  ctx,       \* what Init and the updates made of the context
  length,    \* of the message so far
  updates,
  digest     \* what Final gave, or nothing yet

vars == <<kind, ctx, length, updates, digest>>

Part(from, to) == [i \in 1..to - from |-> Pattern(from + i)]
Message == Part(0, length)

Begun(k) ==
    CASE k.family = "sha2" -> Init2(k.hash)
      [] k.family = "sha3" -> keccak_Init(k.bits)
      [] k.family = "hmac" -> hmac_Init(k.hash, k.key)

Init ==
  /\ kind \in Kinds
  /\ ctx = Begun(kind)
  /\ length = 0 /\ updates = 0
  /\ digest = <<>>

Piece(n) ==
  /\ digest = <<>>
  /\ updates < MaxUpdates
  /\ updates' = updates + 1
  /\ length' = length + n
  /\ UNCHANGED <<kind, digest>>

UpdateSha2(n) ==
  /\ kind.family = "sha2"
  /\ Piece(n)
  /\ ctx' = Update[kind.hash, ctx, Part(length, length + n)]

UpdateHmac(n) ==
  /\ kind.family = "hmac"
  /\ Piece(n)
  /\ ctx' = hmac_Update(kind.hash, ctx, Part(length, length + n))

UpdateSha3(n, address) ==
  /\ kind.family = "sha3"
  /\ Piece(n)
  /\ ctx' = sha3_Update[ctx, Part(length, length + n), address]

(* The context is cleared: its owner may only begin again.                   *)
Finish(result) ==
  /\ digest = <<>>
  /\ digest' = result
  /\ UNCHANGED <<kind, ctx, length, updates>>

FinalSha2 == kind.family = "sha2" /\ Finish(Final[kind.hash, ctx])

FinalHmac == kind.family = "hmac" /\ Finish(hmac_Final(kind.hash, ctx))

FinalSha3 ==
  /\ kind.family = "sha3"
  /\ Finish(IF kind.mark = {0} THEN keccak_Final(ctx) ELSE sha3_Final(ctx))

Next ==
  \/ \E n \in Pieces(kind) :
       UpdateSha2(n) \/ UpdateHmac(n) \/ \E address \in Addresses : UpdateSha3(n, address)
  \/ FinalSha2 \/ FinalHmac \/ FinalSha3

Spec == Init /\ [][Next]_vars

-----------------------------------------------------------------------------

(* A context of sha2.c that was given some bytes: the whole blocks of them   *)
(* are in the state and the rest is in the buffer.                           *)
Holds[h \in Hashes, context \in Context, bytes \in Seq(Byte)] ==
  LET whole == Len(bytes) \div BlockLength(h)
      begin == whole * BlockLength(h)
  IN  /\ context.bitcount = 8 * Len(bytes)
      /\ context.state = StateBehind(h, bytes, whole)
      /\ \A i \in 1..Len(bytes) - begin : context.buffer[i] = bytes[begin + i]

HoldsKeyAnd[message \in Seq(Byte), block \in Seq(Byte)] ==
  /\ Holds[kind.hash, ctx.ctx, Pad[block, ipad] \o message]
  /\ hmac_prepare(kind.hash, kind.key)
       = [ipad_digest |-> StateBehind(kind.hash, Pad[block, ipad], 1),
          opad_digest |-> StateBehind(kind.hash, Pad[block, opad], 1)]

(* The same of sha3.c.                                                       *)
HoldsInSponge[message \in Seq(Byte), rate \in Nat] ==
  LET Behind[S \in LaneArray] == \A p \in Coordinates : ctx.hash[p[1] + 5 * p[2]] = S[p]
  IN  /\ ctx.rest = length % rate
      /\ Behind[Sponge(rate, message, length \div rate)]
      /\ \A i \in 1..ctx.rest : ctx.message[i] = message[length - ctx.rest + i]

(* However a message is cut into pieces, at and around the ends of blocks,   *)
(* from addresses that are aligned or not: its whole blocks, and nothing     *)
(* else, are in the hash, and what is left over waits in the buffer.  For a  *)
(* code, the block of the key comes first, and what hmac_prepare gives for   *)
(* that key are the states behind its two pads.                              *)
AbsorbsTheMessage ==
  CASE kind.family = "sha2" -> Holds[kind.hash, ctx, Message]
    [] kind.family = "hmac" -> HoldsKeyAnd[Message, KeyBlock(kind.hash, kind.key)]
    [] kind.family = "sha3" -> HoldsInSponge[Message, (1600 - 2 * kind.bits) \div 8]

DigestOf[message \in Seq(Byte)] ==
  CASE kind.family = "sha2" -> Sha2Digest(kind.hash, message)
    [] kind.family = "hmac" -> HmacDigest(kind.hash, kind.key, message)
    [] kind.family = "sha3" -> KeccakDigest(kind.bits, kind.mark, message)

(* The digest is that of the standard, for a message that ends anywhere in a *)
(* block: the padding takes a block more exactly when it must.               *)
DigestIsTheStandards == digest # <<>> => digest = DigestOf[Message]
=============================================================================
