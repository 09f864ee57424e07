-------------------------------- MODULE Rlp --------------------------------
(* The wire form of transactions: how RlpEncoder writes it, and how a node   *)
(* reads it.                                                                 *)
EXTENDS Bytes, SequencesExt

RLP_LENGTH_THRESHOLD   == 55
RLP_OFFSET_ARRAY_SHORT == 192
RLP_OFFSET_ARRAY_LONG  == 247
RLP_OFFSET_ITEM_SHORT  == 128
RLP_OFFSET_ITEM_LONG   == 183

(* generateHeader: the bytes of the length, the lowest first, behind a byte  *)
(* that counts them.                                                         *)
generateHeader(length) ==
    LET count == CHOOSE n \in 1..SizeWidth :
                    /\ length \div Span(n - 1) < 256
                    /\ n > 1 => length \div Span(n - 1) > 0
    IN  <<RLP_OFFSET_ITEM_LONG + count>> \o Reverse(BigEndian(length, count))

reverseHeader(header) == <<header[1]>> \o Reverse(Tail(header))

EncodeBytes(bytes) ==
    IF bytes = <<0>>
    THEN <<RLP_OFFSET_ITEM_SHORT>>
    ELSE IF Len(bytes) = 1 /\ bytes[1] < RLP_OFFSET_ITEM_SHORT
    THEN bytes
    ELSE IF Len(bytes) <= RLP_LENGTH_THRESHOLD
    THEN <<RLP_OFFSET_ITEM_SHORT + Len(bytes)>> \o bytes
    ELSE reverseHeader(generateHeader(Len(bytes))) \o bytes

\* A broken twin of the next definition.
EncodeVectorInShort(itemBytes) ==
    LET encoded == FlattenSeq(itemBytes)
        length  == size_to_bytes(Len(encoded))
    IN  IF Len(encoded) <= RLP_LENGTH_THRESHOLD + 1
        THEN <<RLP_OFFSET_ARRAY_SHORT + Len(encoded)>> \o encoded
        ELSE <<RLP_OFFSET_ARRAY_LONG + Len(length)>> \o length \o encoded

(* EncodeVector, given what Encode returned for each of the items.           *)
EncodeVector(itemBytes) ==
    LET encoded == FlattenSeq(itemBytes)
        length  == size_to_bytes(Len(encoded))
    IN  IF Len(encoded) <= RLP_LENGTH_THRESHOLD
        THEN <<RLP_OFFSET_ARRAY_SHORT + Len(encoded)>> \o encoded
        ELSE <<RLP_OFFSET_ARRAY_LONG + Len(length)>> \o length \o encoded

-----------------------------------------------------------------------------
(* External: how an Ethereum node reads RLP, written from the format and not *)
(* from the encoder.  It refuses whatever has a shorter form.                *)

(* No item has more than this many bytes of length.                          *)
MaxLengthBytes == 3

(* The length of the header, and of the content behind it.                   *)
ShortHeader(kind, size) == [kind |-> kind, skip |-> 1, size |-> size]

LongHeader(kind, b, n) ==
    [kind |-> kind, skip |-> 1 + n,
     size |-> IF n <= MaxLengthBytes /\ 1 + n <= Len(b)
              THEN Number(SubSeq(b, 2, 1 + n)) ELSE Len(b)]

HeaderFrom(first, b) ==
    CASE first < 128        -> [kind |-> "string", skip |-> 0, size |-> 1]
      [] first \in 128..183 -> ShortHeader("string", first - 128)
      [] first \in 184..191 -> LongHeader("string", b, first - 183)
      [] first \in 192..247 -> ShortHeader("list", first - 192)
      [] first \in 248..255 -> LongHeader("list", b, first - 247)

Header(b) == HeaderFrom(b[1], b)

Canonical(b, h) ==
    /\ h.skip + h.size <= Len(b)
    /\ h.skip > 1 => h.size > 55 /\ b[2] # 0
    /\ h.kind = "string" /\ h.skip = 1 /\ h.size = 1 => b[2] >= 128

(* A string or a list, with what is behind its header.                       *)
Piece == [kind : {"string", "list"}, content : Seq(Byte)]

(* The sequences of pieces that b may be read as: one, or none.              *)
Pieces[b \in Seq(Byte)] ==
    IF b = <<>> THEN {<<>>}
    ELSE LET h     == Header(b)
             end   == h.skip + h.size
             first == [kind |-> h.kind, content |-> SubSeq(b, h.skip + 1, end)]
         IN  IF Canonical(b, h)
             THEN {<<first>> \o p : p \in Pieces[SubSeq(b, end + 1, Len(b))]}
             ELSE {}

(* The strings in b, if b is one list of strings.                            *)
StringLists(b) ==
    {[i \in DOMAIN p |-> p[i].content] :
        p \in {q \in UNION {Pieces[l[1].content] :
                            l \in {m \in Pieces[b] : Len(m) = 1 /\ m[1].kind = "list"}} :
                  \A i \in DOMAIN q : q[i].kind = "string"}}
=============================================================================
