-------------------------------- MODULE Sha3 --------------------------------
(***************************************************************************)
(* cryptography/sha3.c on a little-endian machine: Keccak with the padding *)
(* of either standard.  A context holds the twenty-five words of the hash, *)
(* the bytes of its message buffer, how many of them are in use (rest) and *)
(* how many make a block.  The mark SHA3_FINALIZED never leaves a function:*)
(* what sets it in rest clears the whole context before it returns.        *)
(***************************************************************************)
EXTENDS Words

Lanes == 0..24
Hash  == [Lanes -> Word]

keccak_round_constants ==
    <<{0}, {1, 7, 15}, {1, 3, 7, 15, 63}, {15, 31, 63}, {0, 1, 3, 7, 15},
      {0, 31}, {0, 7, 15, 31, 63}, {0, 3, 15, 63}, {1, 3, 7}, {3, 7},
      {0, 3, 15, 31}, {1, 3, 31}, {0, 1, 3, 7, 15, 31}, {0, 1, 3, 7, 63},
      {0, 3, 7, 15, 63}, {0, 1, 15, 63}, {1, 15, 63}, {7, 63}, {1, 3, 15},
      {1, 3, 31, 63}, {0, 7, 15, 31, 63}, {7, 15, 63}, {0, 31},
      {3, 15, 31, 63}>>

keccak_theta(A) ==
    LET C == [x \in 0..4 |-> XorW[XorW[XorW[A[x], A[x + 5]], XorW[A[x + 10], A[x + 15]]], A[x + 20]]]
        D == [x \in 0..4 |-> XorW[Rotl[64, 1, C[(x + 1) % 5]], C[(x + 4) % 5]]]
    IN  [i \in Lanes |-> XorW[A[i], D[i % 5]]]

rho_offsets == <<1, 62, 28, 27, 36, 44, 6, 55, 20, 3, 10, 43,
                 25, 39, 41, 45, 15, 21, 8, 18, 2, 61, 56, 14>>

keccak_rho(A) == [i \in Lanes |-> IF i = 0 THEN A[0] ELSE Rotl[64, rho_offsets[i], A[i]]]

(* Each of these words takes its successor's place, in place, the first one's*)
(* old value going to the last; word 0 stays.                                *)
pi_cycle == <<1, 6, 9, 22, 14, 20, 2, 12, 13, 19, 23, 15,
              4, 24, 21, 8, 16, 5, 3, 18, 17, 11, 7, 10>>

keccak_pi(A) ==
    LET assigned[n \in 0..23] ==
          IF n = 0 THEN A
          ELSE LET before == assigned[n - 1] IN [before EXCEPT ![pi_cycle[n]] = before[pi_cycle[n + 1]]]
    IN  [assigned[23] EXCEPT ![10] = A[1]]

(* Within each five words, the first two as they were before.                *)
keccak_chi(A) ==
    [i \in Lanes |-> LET row == 5 * (i \div 5)
                         next(k) == A[row + ((i + k) % 5)]
                     IN  XorW[A[i], next(2) \ next(1)]]

NumberOfRounds == 24

sha3_permutation[state \in Hash] ==
    LET theta[A \in Hash] == keccak_theta(A)
        rho[A \in Hash]   == keccak_rho(A)
        pi[A \in Hash]    == keccak_pi(A)
        chi[A \in Hash]   == keccak_chi(A)
        iota[n \in 0..NumberOfRounds - 1, A \in Hash] == [A EXCEPT ![0] = XorW[@, keccak_round_constants[n + 1]]]
        round[n \in 0..NumberOfRounds - 1, A \in Hash] == iota[n, chi[pi[rho[theta[A]]]]]
        upTo[n \in 0..NumberOfRounds] == IF n = 0 THEN state ELSE round[n - 1, upTo[n - 1]]
    IN  upTo[NumberOfRounds]

-----------------------------------------------------------------------------
(* Blocks: their words, the lowest byte first, join the first of the hash,   *)
(* as many as the block sizes of the family have.                            *)

BlockWords(block_size) ==
    IF block_size > 136 THEN 18
    ELSE IF block_size > 104 THEN 17
    ELSE IF block_size > 72 THEN 13
    ELSE 9

sha3_process_block[hash \in Hash, block \in Seq(Byte), block_size \in Nat] ==
    LET word(i) == BytesWord(SubSeq(block, 8 * i + 1, 8 * i + 8))
    IN  sha3_permutation[[i \in Lanes |-> IF i < BlockWords(block_size) THEN XorW[hash[i], word(i)]
                                          ELSE hash[i]]]

-----------------------------------------------------------------------------
(* Contexts.                                                                 *)

Sha3Context == [hash : Hash, message : Seq(Byte), rest : Nat, block_size : Nat]

keccak_Init(bits) ==
    [hash |-> [i \in Lanes |-> {}], message |-> [i \in 1..192 |-> {}],
     rest |-> 0, block_size |-> (1600 - bits * 2) \div 8]

Overlaid(message, at, data) ==
    [i \in DOMAIN message |-> IF i - at \in DOMAIN data THEN data[i - at] ELSE message[i]]

(* A whole block is used where it lies if its address is a multiple of       *)
(* eight, and copied into the buffer otherwise.                              *)
sha3_Update[ctx \in Sha3Context, msg \in Seq(Byte), address \in Nat] ==
    LET size    == Len(msg)
        block   == ctx.block_size
        left    == IF ctx.rest > 0 THEN block - ctx.rest ELSE 0
        rest    == (ctx.rest + size) % block
        head    == Overlaid(ctx.message, ctx.rest, SubSeq(msg, 1, IF size < left THEN size ELSE left))
        begun   == IF ctx.rest = 0 THEN ctx
                   ELSE [ctx EXCEPT !.message = head, !.hash = sha3_process_block[@, head, block]]
        aligned == (address + left) % 8 = 0
        take[c \in Sha3Context, at \in Nat] ==
          LET whole == SubSeq(msg, at + 1, at + block)
          IN  [c EXCEPT !.message = IF aligned THEN @ ELSE Overlaid(@, 0, whole),
                        !.hash = sha3_process_block[@, whole, block]]
        blocks  == (size - left) \div block
        upTo[n \in 0..blocks] == IF n = 0 THEN begun ELSE take[upTo[n - 1], left + (n - 1) * block]
    IN  IF size < left THEN [ctx EXCEPT !.message = head, !.rest = rest]
        ELSE [upTo[blocks] EXCEPT !.message = Overlaid(@, 0, SubSeq(msg, left + blocks * block + 1, size)),
                                  !.rest = rest]

(* The last block: a mark behind the message, zeros, and a one at the end.   *)
Padded(ctx, mark) ==
    [i \in DOMAIN ctx.message |->
       (IF i - 1 \in ctx.rest..ctx.block_size - 1 THEN {} ELSE ctx.message[i])
         \cup (IF i = ctx.rest + 1 THEN mark ELSE {}) \cup (IF i = ctx.block_size THEN {7} ELSE {})]

DigestLength(ctx) == 100 - ctx.block_size \div 2

FinalWith[ctx \in Sha3Context, mark \in Byte] ==
    LET hash == sha3_process_block[ctx.hash, Padded(ctx, mark), ctx.block_size]
    IN  [i \in 1..DigestLength(ctx) |-> WordBytes(hash[(i - 1) \div 8], 8)[((i - 1) % 8) + 1]]

sha3_Final(ctx)   == FinalWith[ctx, {1, 2}]
keccak_Final(ctx) == FinalWith[ctx, {0}]

keccak_256(data) == keccak_Final(sha3_Update[keccak_Init(256), data, 0])
=============================================================================
