------------------------- MODULE SignedTransaction -------------------------
(* From the properties of a transaction to the bytes that are sent: Chain    *)
(* asks its node for the chain id, EthereumTransactionFactory hashes the     *)
(* unsigned form, EthereumSigner::Sign attaches the signature, Serialize     *)
(* writes the result.  A node undoes all of it, and has only the bytes to    *)
(* find the sender and the chain by.                                         *)
(*                                                                           *)
(* keccak-256 is injective here: the bytes stand for their hash.  ECDSA is   *)
(* an oracle: a key may sign a digest with any two numbers, and whoever      *)
(* recovers from these numbers and this digest finds the key.                *)
EXTENDS Rlp

(* A megabyte of call data.                                                  *)
MaxData == 16 * Span(2)

CONSTANTS Keys,        \* private keys
          Properties,  \* EthereumTransactionProperties but for the chain id
          Chains,      \* ids of the chains whose nodes may get the bytes
          OwnChains,   \* those the device may be on
          Halves,      \* r and s as ecdsa_sign_digest writes them
          LongMax      \* the greatest long

(* Words and numbers are those of C++; r and s have up to 32 bytes, amounts  *)
(* up to 256 bits, and the data fit into the memory of a device.             *)
ASSUME TransactionAssumption ==
    /\ UintWidth <= 4 /\ SizeWidth >= MaxLengthBytes /\ LongMax \in Nat
    /\ Chains \subseteq Nat /\ OwnChains \subseteq Nat
    /\ \A h \in Halves : h \in Seq(Byte) /\ Len(h) <= 32
    /\ \A p \in Properties :
          /\ p.nonce \in 0..Span(UintWidth) - 1
          /\ p.gasLimit \in 0..Span(UintWidth) - 1
          /\ \A words \in {p.gasPrice, p.value} :
                words \in Seq(0..Span(2) - 1) /\ Len(words) <= 16
          /\ p.address \in Seq(Byte) /\ Len(p.address) = 20
          /\ p.data \in Seq(Byte) /\ Len(p.data) <= MaxData

VARIABLES pc,         \* what is done
          chain,      \* the chain of the device's node
          id,         \* Chain::id, which becomes properties.chainId
          tx,         \* the other properties
          key,        \* the private key
          digest,     \* the hash of the unsigned form
          pby,        \* the recovery id that came with the signature
          signature,  \* EthereumSignature
          raw         \* serializedTransaction

vars == <<pc, chain, id, tx, key, digest, pby, signature, raw>>

(* EthereumSignature(uint32_t): an unsigned transaction has its chain id     *)
(* where the recovery value will be, and empty r and s.                      *)
Unsigned(chainId) == [v |-> chainId, r |-> <<>>, s |-> <<>>]

NoSignature == Unsigned(0)

(* BigNumber::Bytes: two bytes for each word.                                *)
Bytes(words) ==
    [i \in 1..2 * Len(words) |->
        IF i % 2 = 1 THEN words[(i + 1) \div 2] \div 256
                     ELSE words[i \div 2] % 256]

\* A broken twin of the next definition.
SerializeTruncated(p, sig) ==
    EncodeVector([i \in 1..9 |-> EncodeBytes(truncate(
        << uint_to_bytes(p.nonce), Bytes(p.gasPrice),
           uint_to_bytes(p.gasLimit), p.address, Bytes(p.value),
           p.data, uint_to_bytes(sig.v), sig.r, sig.s >>[i]))])

(* EthereumTransaction::Serialize and the constructors of EncodableItem that *)
(* it calls.                                                                 *)
Serialize(p, sig) ==
    EncodeVector([i \in 1..9 |-> EncodeBytes(
        << uint_to_bytes(p.nonce), truncate(Bytes(p.gasPrice)),
           uint_to_bytes(p.gasLimit), p.address, truncate(Bytes(p.value)),
           p.data, uint_to_bytes(sig.v), sig.r, sig.s >>[i])])

-----------------------------------------------------------------------------
Init ==
    /\ pc = "new"
    /\ chain \in OwnChains /\ id = 0
    /\ tx \in Properties
    /\ key \in Keys
    /\ digest = <<>> /\ pby = 0 /\ signature = NoSignature /\ raw = <<>>

\* A broken twin of the next definition.
IdInAByte(c) == c % 256

(* strtol stops at the greatest long, and its result is cut to a uint32_t.   *)
IdOf(c) == AsUint(IF c > LongMax THEN LongMax ELSE c)

(* LoadChainId.                                                              *)
LoadChainId ==
    /\ pc = "new"
    /\ id' = IdOf(chain)
    /\ pc' = "unsigned"
    /\ UNCHANGED <<chain, tx, key, digest, pby, signature, raw>>

(* The unsigned transaction is serialised and hashed.                        *)
Hash ==
    /\ pc = "unsigned"
    /\ digest' = Serialize(tx, Unsigned(id))
    /\ pc' = "hashed"
    /\ UNCHANGED <<chain, id, tx, key, pby, signature, raw>>

\* A broken twin of the next definition.
WideRecoveryValue(recid, chainId) == recid + chainId * 2 + 35

(* v of a Legacy transaction, the only standard a constructor sets.          *)
RecoveryValue(recid, chainId) == AsUint(recid + chainId * 2 + 35)

(* GenerateSignature splits and truncates what ecdsa_sign_digest wrote.      *)
Sign ==
    /\ pc = "hashed"
    /\ pby' \in {0, 1}
    /\ \E r, s \in Halves :
          signature' = [v |-> RecoveryValue(pby', id),
                        r |-> truncate(r), s |-> truncate(s)]
    /\ pc' = "signed"
    /\ UNCHANGED <<chain, id, tx, key, digest, raw>>

(* GenerateSerializedData.                                                   *)
Send ==
    /\ pc = "signed"
    /\ raw' = Serialize(tx, signature)
    /\ pc' = "sent"
    /\ UNCHANGED <<chain, id, tx, key, digest, pby, signature>>

Next == LoadChainId \/ Hash \/ Sign \/ Send

Spec == Init /\ [][Next]_vars

-----------------------------------------------------------------------------
(* The node of a chain.                                                      *)

IsInteger(b) == b = <<>> \/ b[1] # 0

(* The nine fields, if the bytes are a transaction.                          *)
Transactions ==
    {f \in StringLists(raw) :
        /\ Len(f) = 9
        /\ \A i \in {1, 2, 3, 5, 7, 8, 9} : IsInteger(f[i])
        /\ Len(f[4]) \in {0, 20}}

(* Who the node takes for the sender: the digest it rebuilds must be the one *)
(* that was signed, and so must the recovery id and the numbers.             *)
Recovered(f, tail, recid) ==
    IF /\ StringLists(digest) = {SubSeq(f, 1, 6) \o tail}
       /\ pby = recid
       /\ Number(f[8]) = Number(signature.r)
       /\ Number(f[9]) = Number(signature.s)
    THEN key ELSE "stranger"

Meaning(f) == [nonce   |-> Number(f[1]), gasPrice |-> Number(f[2]),
               gasLimit |-> Number(f[3]), address |-> f[4],
               value   |-> Number(f[5]), data |-> f[6]]

(* What the node of chain c makes of raw: nothing, or a sender and what he   *)
(* wants done.  27 and 28 are for transactions without a chain.              *)
Verdict(c) ==
    {[sender |-> IF Number(f[7]) \in {27, 28}
                 THEN Recovered(f, <<>>, Number(f[7]) - 27)
                 ELSE Recovered(f, <<uint_to_bytes(c), <<>>, <<>>>>,
                                (Number(f[7]) - 35) % 2),
      meaning |-> Meaning(f)] :
        f \in {g \in Transactions :
                  \/ Number(g[7]) \in {27, 28}
                  \/ (Number(g[7]) - 35) \div 2 = c}}

-----------------------------------------------------------------------------
Word16(words) == Digits(Span(2), words)

(* What the caller asked for; the single byte 0 as data counts as no data.   *)
Wanted(data) ==
    [nonce |-> tx.nonce, gasPrice |-> Word16(tx.gasPrice),
     gasLimit |-> tx.gasLimit, address |-> tx.address,
     value |-> Word16(tx.value), data |-> data]

(* The recovery value of the device's chain fits in a uint32_t, and its id   *)
(* in a long.                                                                *)
FitsUint == chain * 2 + 36 < Span(UintWidth) /\ chain <= LongMax

(* Nothing that is kept or sent is wider than its C++ type.                  *)
TypeOK ==
    /\ pc \in {"new", "unsigned", "hashed", "signed", "sent"}
    /\ id \in 0..Span(UintWidth) - 1
    /\ signature.v \in 0..Span(UintWidth) - 1
    /\ \A b \in {digest, signature.r, signature.s, raw} :
          \A i \in 1..Len(b) : b[i] \in Byte

(* The node of the device's chain gets the sender and every value right,     *)
(* whatever leading zeros amounts, address, r and s have.                    *)
AcceptedAsMeant ==
    pc = "sent" /\ FitsUint =>
        Verdict(chain) =
            {[sender  |-> key,
              meaning |-> Wanted(IF tx.data = <<0>> THEN <<>> ELSE tx.data)]}

(* What the device sends on one chain is nowhere else taken for a            *)
(* transaction of the sender: both the signed digest and v carry the chain.  *)
NoReplay ==
    pc = "sent" /\ FitsUint =>
        \A c \in Chains \ {chain} :
            \A verdict \in Verdict(c) : verdict.sender # key
=============================================================================
