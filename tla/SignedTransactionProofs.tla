---------------------- MODULE SignedTransactionProofs -----------------------
(* What a device signs and sends, any node of its chain takes for what was   *)
(* asked, and a node of any other chain for nothing of the sender's.         *)
(*                                                                           *)
(* First the encoding.  What RlpEncoder writes is what a node reads, for     *)
(* byte arrays of any length that three bytes can tell: the node that        *)
(* accepts only the shortest form finds one list, and in it the strings that *)
(* went in. The reader is recursive.  It is unfolded once, into its first    *)
(* piece and what it makes of the bytes behind that; a header in front of a  *)
(* content is shown to be such a first piece; and the strings of a list      *)
(* follow one by one, by induction on their number.                          *)
(*                                                                           *)
(* Then the pipeline.  The variables are functions of the first ones and of  *)
(* the signature, as far as the work has come: that is the inductive         *)
(* invariant.  The nine fields come back, integers in their shortest form    *)
(* keep their value, and so does the chain in the recovery value as long as  *)
(* it fits in a uint32_t.                                                    *)
EXTENDS SignedTransaction, BytesProofs

(* The encoding.                                                             *)

(* What the reader makes of b, when f is what it makes of shorter bytes.     *)
FirstPiece(b) ==
  [kind |-> Header(b).kind,
   content |-> SubSeq(b, Header(b).skip + 1, Header(b).skip + Header(b).size)]

Remaining(b) == SubSeq(b, Header(b).skip + Header(b).size + 1, Len(b))

Reading(f, b) ==
  IF b = <<>> THEN {<<>>}
  ELSE IF Canonical(b, Header(b))
       THEN {<<FirstPiece(b)>> \o p : p \in f[Remaining(b)]}
       ELSE {}

(* The first byte tells the forms of a header apart.                         *)
LEMMA HeaderIs ==
  ASSUME NEW b, NEW c \in 0..255
  PROVE  /\ c < 128 => HeaderFrom(c, b) = [kind |-> "string", skip |-> 0, size |-> 1]
         /\ c \in 128..183 => HeaderFrom(c, b) = ShortHeader("string", c - 128)
         /\ c \in 184..191 => HeaderFrom(c, b) = LongHeader("string", b, c - 183)
         /\ c \in 192..247 => HeaderFrom(c, b) = ShortHeader("list", c - 192)
         /\ c \in 248..255 => HeaderFrom(c, b) = LongHeader("list", b, c - 247)
BY DEF HeaderFrom

(* A header says whether it is a list's, and covers at least a byte.         *)
IsHeader(h) ==
  /\ h.kind \in {"string", "list"}
  /\ h.skip \in Nat
  /\ h.size \in Nat
  /\ h.skip + h.size >= 1

(* A header with the length in bytes of its own.                             *)
LEMMA LongHeaderType ==
  ASSUME NEW b \in Seq(Byte), NEW n \in Nat, NEW l \in {"string", "list"}
  PROVE  IsHeader(LongHeader(l, b, n))
<1>1. CASE n <= MaxLengthBytes /\ 1 + n <= Len(b)
  <2>1. SubSeq(b, 2, 1 + n) \in Seq(Byte)
    <3>1. \A i \in 2..1 + n : b[i] \in Byte
      BY <1>1, ByteSequence
    <3> QED BY <3>1, SubSeqProperties
  <2>2. Number(SubSeq(b, 2, 1 + n)) \in Nat
    <3> DEFINE t == SubSeq(b, 2, 1 + n)
    <3> HIDE DEF t
    <3>1. Number(t) \in 0..Span(Len(t)) - 1 /\ Span(Len(t)) \in Nat
      BY <2>1, NumberBounds, SpanStep, ByteSequence DEF t
    <3> QED BY <3>1 DEF t
  <2> QED BY <1>1, <2>2 DEF LongHeader, IsHeader
<1>2. CASE ~ (n <= MaxLengthBytes /\ 1 + n <= Len(b))
  BY <1>2, ByteSequence DEF LongHeader, IsHeader
<1> QED BY <1>1, <1>2

(* Whatever the first byte is, it starts a header.                           *)
LEMMA HeaderCases ==
  ASSUME NEW b, NEW c \in 0..255,
         \A n \in Nat, l \in {"string", "list"} : IsHeader(LongHeader(l, b, n))
  PROVE  IsHeader(HeaderFrom(c, b))
<1>1. CASE c < 128
  <2>1. IsHeader([kind |-> "string", skip |-> 0, size |-> 1])
    BY DEF IsHeader
  <2> QED BY <1>1, <2>1, HeaderIs
<1>2. CASE c \in 128..183
  <2>1. IsHeader(ShortHeader("string", c - 128))
    BY <1>2 DEF ShortHeader, IsHeader
  <2>2. HeaderFrom(c, b) = ShortHeader("string", c - 128)
    BY <1>2, HeaderIs
  <2> QED BY <2>1, <2>2
<1>3. CASE c \in 184..191
  BY <1>3, c - 183 \in Nat, HeaderIs
<1>4. CASE c \in 192..247
  <2>1. IsHeader(ShortHeader("list", c - 192))
    BY <1>4 DEF ShortHeader, IsHeader
  <2>2. HeaderFrom(c, b) = ShortHeader("list", c - 192)
    BY <1>4, HeaderIs
  <2> QED BY <2>1, <2>2
<1>5. CASE c \in 248..255
  BY <1>5, c - 247 \in Nat, HeaderIs
<1> QED BY <1>1, <1>2, <1>3, <1>4, <1>5

(* Every header is one.                                                      *)
LEMMA HeaderType ==
  ASSUME NEW b \in Seq(Byte), b # <<>>
  PROVE  IsHeader(Header(b))
<1>1. b[1] \in 0..255
  BY EmptySeq, ByteSequence
<1>2. \A n \in Nat, l \in {"string", "list"} : IsHeader(LongHeader(l, b, n))
  BY LongHeaderType
<1> QED BY <1>1, <1>2, HeaderCases, Zenon DEF Header

(* A piece takes at least a byte, and leaves the bytes behind it.            *)
LEMMA PieceType ==
  ASSUME NEW b \in Seq(Byte), b # <<>>, Canonical(b, Header(b))
  PROVE  /\ FirstPiece(b) \in Piece
         /\ Remaining(b) \in Seq(Byte)
         /\ Len(Remaining(b)) < Len(b)
<1> DEFINE skip == Header(b).skip
           end == Header(b).skip + Header(b).size
<1>1. Header(b).kind \in {"string", "list"} /\ skip \in Nat /\ end \in Nat /\ skip <= end /\ end >= 1
  BY HeaderType DEF IsHeader
<1>2. end <= Len(b) /\ Len(b) \in Nat /\ \A i \in 1..Len(b) : b[i] \in Byte
  BY ByteSequence DEF Canonical
<1> HIDE DEF skip, end
<1>3. SubSeq(b, skip + 1, end) \in Seq(Byte)
  <2>1. \A i \in skip + 1..end : b[i] \in Byte
    BY <1>1, <1>2
  <2> QED BY <1>1, <2>1, SubSeqProperties
<1>4. SubSeq(b, end + 1, Len(b)) \in Seq(Byte) /\ Len(SubSeq(b, end + 1, Len(b))) < Len(b)
  <2>1. \A i \in end + 1..Len(b) : b[i] \in Byte
    BY <1>1, <1>2
  <2>2. /\ SubSeq(b, end + 1, Len(b)) \in Seq(Byte)
        /\ Len(SubSeq(b, end + 1, Len(b)))
             = IF end + 1 <= Len(b) THEN Len(b) - (end + 1) + 1 ELSE 0
    BY <1>1, <1>2, <2>1, SubSeqProperties
  <2> QED BY <1>1, <1>2, <2>2
<1>5. FirstPiece(b) = [kind |-> Header(b).kind, content |-> SubSeq(b, skip + 1, end)]
  BY DEF FirstPiece, skip, end
<1>6. FirstPiece(b) \in Piece
  BY <1>1, <1>3, <1>5 DEF Piece
<1> QED BY <1>4, <1>6 DEF Remaining, end

(* The reader reads every byte array.                                        *)
LEMMA PiecesUnfold ==
  /\ Pieces \in [Seq(Byte) -> SUBSET Seq(Piece)]
  /\ \A b \in Seq(Byte) : Pieces[b] = Reading(Pieces, b)
<1> DEFINE S == Seq(Byte)
           V == SUBSET Seq(Piece)
           rank == [b \in S |-> Len(b)]
           Step == [a \in [S -> V] \X S |-> Reading(a[1], a[2])]
<1>1. V # {} /\ rank \in [S -> Nat] /\ \A b \in S : rank[b] = Len(b)
  <2>1. \A b \in S : Len(b) \in Nat
    BY ByteSequence
  <2> QED BY <2>1
<1>2. ASSUME NEW g \in [S -> V], NEW b \in S PROVE Reading(g, b) \in V
  <2>1. CASE b = <<>>
    BY <2>1 DEF Reading
  <2>2. CASE b # <<>> /\ Canonical(b, Header(b))
    <3>1. Remaining(b) \in S /\ FirstPiece(b) \in Piece
      BY <2>2, PieceType
    <3>2. ASSUME NEW p \in g[Remaining(b)] PROVE <<FirstPiece(b)>> \o p \in Seq(Piece)
      <4>1. p \in Seq(Piece)
        BY <3>1, <3>2
      <4>2. <<FirstPiece(b)>> \in Seq(Piece)
        BY <3>1
      <4> QED BY <4>1, <4>2, ConcatProperties
    <3> QED BY <2>2, <3>2 DEF Reading
  <2>3. CASE b # <<>> /\ ~ Canonical(b, Header(b))
    BY <2>3 DEF Reading
  <2> QED BY <2>1, <2>2, <2>3
<1>3. Step \in [[S -> V] \X S -> V] /\ \A g \in [S -> V], b \in S : Step[<<g, b>>] = Reading(g, b)
  <2> HIDE DEF S, V
  <2>1. ASSUME NEW a \in [S -> V] \X S PROVE Reading(a[1], a[2]) \in V
    BY <1>2
  <2> QED BY <2>1
<1> HIDE DEF Step, rank, V
<1>4. Descends(S, V, rank, Step)
  <2> SUFFICES ASSUME NEW g \in [S -> V], NEW h \in [S -> V], NEW b \in S,
                      \A y \in S : rank[y] < rank[b] => g[y] = h[y]
               PROVE  Step[<<g, b>>] = Step[<<h, b>>]
    <3> HIDE DEF S
    <3> QED BY DEF Descends
  <2>1. CASE b # <<>> /\ Canonical(b, Header(b))
    <3>1. Remaining(b) \in S /\ Len(Remaining(b)) < Len(b)
      BY <2>1, PieceType
    <3>2. g[Remaining(b)] = h[Remaining(b)]
      BY <1>1, <3>1
    <3>3. Reading(g, b) = Reading(h, b)
      BY <3>2 DEF Reading
    <3> QED BY <1>3, <3>3
  <2>2. CASE ~ (b # <<>> /\ Canonical(b, Header(b)))
    <3>1. Reading(g, b) = Reading(h, b)
      BY <2>2 DEF Reading
    <3> QED BY <1>3, <3>1
  <2> QED BY <2>1, <2>2
<1> HIDE DEF S
<1>5. PICK f \in [S -> V] : Solves(f, S, Step)
  BY <1>1, <1>3, <1>4, Recursion
<1> DEFINE Fix(g) == g = [b \in S |-> Reading(g, b)]
<1>6. Fix(f)
  <2>1. \A b \in S : f[b] = Reading(f, b)
    BY <1>3, <1>5 DEF Solves
  <2> QED BY <2>1
<1>7. Pieces = CHOOSE g : Fix(g)
  BY DEF Pieces, S, Reading, FirstPiece, Remaining
<1>8. Fix(Pieces)
  <2> HIDE DEF Fix
  <2> QED BY <1>6, <1>7
<1>9. \A b \in S : Pieces[b] = Reading(Pieces, b)
  <2>1. Pieces = [b \in S |-> Reading(Pieces, b)]
    BY <1>8
  <2> HIDE DEF Fix
  <2> DEFINE P == Pieces
  <2>2. P = [b \in S |-> Reading(P, b)]
    BY <2>1
  <2> HIDE DEF P
  <2>3. \A b \in S : P[b] = Reading(P, b)
    BY <2>2
  <2> QED BY <2>3 DEF P
<1>10. Pieces \in [S -> V]
  <2> DEFINE T == {n \in Nat : \A b \in S : Len(b) < n => Pieces[b] \in V}
  <2>1. 0 \in T
    BY ByteSequence DEF S
  <2>2. ASSUME NEW n \in Nat, n \in T PROVE n + 1 \in T
    <3> SUFFICES ASSUME NEW b \in S, Len(b) < n + 1 PROVE Pieces[b] \in V
      OBVIOUS
    <3>1. CASE b = <<>>
      <4>1. Pieces[b] = {<<>>} /\ <<>> \in Seq(Piece)
        BY <3>1, <1>9, EmptySeq DEF Reading
      <4> QED BY <4>1 DEF V
    <3>2. CASE b # <<>> /\ Canonical(b, Header(b))
      <4>1. Remaining(b) \in S /\ Len(Remaining(b)) < Len(b) /\ FirstPiece(b) \in Piece
        BY <3>2, PieceType DEF S
      <4>2. Len(b) \in Nat /\ Len(Remaining(b)) \in Nat
        BY <4>1, ByteSequence DEF S
      <4>3. Pieces[Remaining(b)] \in V
        BY <2>2, <4>1, <4>2
      <4>4. ASSUME NEW p \in Pieces[Remaining(b)] PROVE <<FirstPiece(b)>> \o p \in Seq(Piece)
        <5>1. p \in Seq(Piece)
          BY <4>3 DEF V
        <5>2. <<FirstPiece(b)>> \in Seq(Piece)
          BY <4>1
        <5> QED BY <5>1, <5>2, ConcatProperties
      <4>5. Reading(Pieces, b) \in V
        BY <3>2, <4>4 DEF Reading, V
      <4> QED BY <4>5, <1>9
    <3>3. CASE b # <<>> /\ ~ Canonical(b, Header(b))
      BY <3>3, <1>9 DEF Reading, V
    <3> QED BY <3>1, <3>2, <3>3
  <2>3. Nat \subseteq T
    <3> HIDE DEF T
    <3> QED BY <2>1, <2>2, NatInduct
  <2>4. ASSUME NEW b \in S PROVE Pieces[b] \in V
    <3>1. Len(b) \in Nat /\ Len(b) + 1 \in Nat /\ Len(b) < Len(b) + 1
      BY ByteSequence DEF S
    <3> QED BY <2>3, <3>1
  <2>5. Pieces = [b \in S |-> Pieces[b]]
    BY <1>8
  <2> HIDE DEF T, Fix
  <2> QED BY <2>4, <2>5
<1> QED BY <1>9, <1>10 DEF S, V

(* What starts behind the first n bytes is cut out there.                    *)
LEMMA CutOut ==
  ASSUME NEW b \in Seq(Byte), NEW t \in Seq(Byte), NEW n \in Nat,
         n + Len(t) <= Len(b), \A i \in 1..Len(t) : b[n + i] = t[i]
  PROVE  SubSeq(b, n + 1, n + Len(t)) = t
<1> DEFINE s == SubSeq(b, n + 1, n + Len(t))
<1>1. Len(t) \in Nat /\ Len(b) \in Nat
  OBVIOUS
<1>2. \A i \in n + 1..n + Len(t) : b[i] \in Byte
  BY <1>1, ByteSequence
<1>3. /\ s \in Seq(Byte)
      /\ Len(s) = IF n + 1 <= n + Len(t) THEN n + Len(t) - (n + 1) + 1 ELSE 0
      /\ \A i \in 1..n + Len(t) - (n + 1) + 1 : s[i] = b[n + 1 + i - 1]
  BY <1>1, <1>2, SubSeqProperties
<1> HIDE DEF s
<1>4. Len(s) = Len(t)
  BY <1>1, <1>3
<1>5. ASSUME NEW i \in 1..Len(t) PROVE s[i] = t[i]
  <2>1. n + 1 + i - 1 = n + i
    BY <1>1
  <2>2. i \in 1..n + Len(t) - (n + 1) + 1
    BY <1>1
  <2>3. s[i] = b[n + 1 + i - 1]
    BY <1>3, <2>2
  <2> QED BY <2>1, <2>3
<1>6. s = t
  BY <1>3, <1>4, <1>5, SeqEqual
<1> QED BY <1>6 DEF s

(* Two byte arrays behind each other.                                        *)
LEMMA TwoParts ==
  ASSUME NEW x \in Seq(Byte), NEW y \in Seq(Byte)
  PROVE  /\ x \o y \in Seq(Byte)
         /\ Len(x \o y) = Len(x) + Len(y)
         /\ \A i \in 1..Len(x) : (x \o y)[i] = x[i]
         /\ \A i \in 1..Len(y) : (x \o y)[Len(x) + i] = y[i]
<1> DEFINE b == x \o y
<1>1. Len(x) \in Nat /\ Len(y) \in Nat
  OBVIOUS
<1>2. /\ b \in Seq(Byte) /\ Len(b) = Len(x) + Len(y)
      /\ \A i \in 1..Len(x) + Len(y) : b[i] = IF i <= Len(x) THEN x[i] ELSE y[i - Len(x)]
  BY ConcatProperties
<1> HIDE DEF b
<1>3. \A i \in 1..Len(x) : b[i] = x[i]
  BY <1>1, <1>2
<1>4. ASSUME NEW i \in 1..Len(y) PROVE b[Len(x) + i] = y[i]
  <2>1. Len(x) + i \in 1..Len(x) + Len(y) /\ ~(Len(x) + i <= Len(x)) /\ (Len(x) + i) - Len(x) = i
    BY <1>1
  <2>2. b[Len(x) + i] = y[(Len(x) + i) - Len(x)]
    BY <1>2, <2>1
  <2> QED BY <2>1, <2>2
<1> QED BY <1>2, <1>3, <1>4 DEF b

(* b is x, y and z behind each other, and y and z can be cut out again.      *)
Parted(b, x, y, z) ==
  /\ b \in Seq(Byte)
  /\ Len(b) = Len(x) + Len(y) + Len(z)
  /\ SubSeq(b, Len(x) + 1, Len(x) + Len(y)) = y
  /\ SubSeq(b, Len(x) + Len(y) + 1, Len(b)) = z
  /\ \A i \in 1..Len(x) : b[i] = x[i]
  /\ \A i \in 1..Len(y) : b[Len(x) + i] = y[i]

(* Three byte arrays behind each other are.                                  *)
LEMMA ThreeParts ==
  ASSUME NEW x \in Seq(Byte), NEW y \in Seq(Byte), NEW z \in Seq(Byte)
  PROVE  Parted(x \o y \o z, x, y, z)
<1> DEFINE xy == x \o y
           b == x \o y \o z
<1>1. Len(x) \in Nat /\ Len(y) \in Nat /\ Len(z) \in Nat
  OBVIOUS
<1>2. /\ xy \in Seq(Byte) /\ Len(xy) = Len(x) + Len(y)
      /\ \A i \in 1..Len(x) : xy[i] = x[i]
      /\ \A i \in 1..Len(y) : xy[Len(x) + i] = y[i]
  BY TwoParts
<1> HIDE DEF xy
<1>3. xy \in Seq(Byte)
  BY <1>2
<1>4. /\ xy \o z \in Seq(Byte) /\ Len(xy \o z) = Len(xy) + Len(z)
      /\ \A i \in 1..Len(xy) : (xy \o z)[i] = xy[i]
      /\ \A i \in 1..Len(z) : (xy \o z)[Len(xy) + i] = z[i]
  BY <1>3, TwoParts
<1>5. b = xy \o z
  BY DEF xy
<1> HIDE DEF b
<1>6. b \in Seq(Byte) /\ Len(b) = Len(x) + Len(y) + Len(z)
  BY <1>2, <1>4, <1>5
<1>7. ASSUME NEW i \in 1..Len(x) PROVE b[i] = x[i]
  <2>1. i \in 1..Len(xy)
    BY <1>1, <1>2
  <2> QED BY <2>1, <1>2, <1>4, <1>5
<1>8. ASSUME NEW i \in 1..Len(y) PROVE b[Len(x) + i] = y[i]
  <2>1. Len(x) + i \in 1..Len(xy)
    BY <1>1, <1>2
  <2> QED BY <2>1, <1>2, <1>4, <1>5
<1>9. \A i \in 1..Len(z) : b[(Len(x) + Len(y)) + i] = z[i]
  BY <1>2, <1>4, <1>5
<1>10. SubSeq(b, Len(x) + 1, Len(x) + Len(y)) = y
  BY <1>1, <1>6, <1>8, CutOut
<1>11. SubSeq(b, Len(x) + Len(y) + 1, Len(b)) = z
  <2> DEFINE n == Len(x) + Len(y)
  <2>1. n \in Nat /\ n + Len(z) = Len(b) /\ \A i \in 1..Len(z) : b[n + i] = z[i]
    BY <1>1, <1>6, <1>9
  <2>2. Len(b) \in Nat
    BY <1>6
  <2> HIDE DEF n
  <2>3. SubSeq(b, n + 1, n + Len(z)) = z
    BY <1>6, <2>1, <2>2, CutOut
  <2> QED BY <2>1, <2>3 DEF n
<1> QED BY <1>6, <1>7, <1>8, <1>10, <1>11 DEF b, Parted

(* Whatever is made of rest, b is one piece more.                            *)
StartsWith(b, k, content, rest) ==
  Pieces[b] = {<<[kind |-> k, content |-> content]>> \o p : p \in Pieces[rest]}

(* The header that is read at the start of b ends with head, and announces   *)
(* the content.                                                              *)
Announces(b, k, head, content) ==
  LET h == [kind |-> k, skip |-> Len(head), size |-> Len(content)]
  IN  b # <<>> /\ Header(b) = h /\ Canonical(b, h)

(* A header and what it announces are the first piece.                       *)
LEMMA PieceInFront ==
  ASSUME NEW head \in Seq(Byte), NEW content \in Seq(Byte), NEW rest \in Seq(Byte),
         NEW k \in {"string", "list"}, Announces(head \o content \o rest, k, head, content)
  PROVE  StartsWith(head \o content \o rest, k, content, rest)
<1> DEFINE b == head \o content \o rest
           h == [kind |-> k, skip |-> Len(head), size |-> Len(content)]
<1>1. b # <<>> /\ Header(b) = h /\ Canonical(b, h)
  BY DEF Announces
<1>2. Parted(b, head, content, rest)
  BY ThreeParts
<1>3. h.kind = k /\ h.skip = Len(head) /\ h.size = Len(content)
  OBVIOUS
<1> HIDE DEF b, h
<1>4. FirstPiece(b) = [kind |-> k, content |-> content] /\ Remaining(b) = rest
  BY <1>1, <1>2, <1>3 DEF FirstPiece, Remaining, Parted
<1>5. Pieces[b] = Reading(Pieces, b)
  BY <1>2, PiecesUnfold DEF Parted
<1>6. Reading(Pieces, b) = {<<[kind |-> k, content |-> content]>> \o p : p \in Pieces[rest]}
  BY <1>1, <1>4 DEF Reading
<1> QED BY <1>5, <1>6 DEF b, StartsWith

(* Reversing twice changes nothing.                                          *)
LEMMA ReverseTwice ==
  ASSUME NEW t \in Seq(Byte)
  PROVE  Reverse(t) \in Seq(Byte) /\ Reverse(Reverse(t)) = t
<1>1. Len(t) \in Nat /\ \A i \in 1..Len(t) : t[i] \in Byte
  BY ByteSequence
<1> DEFINE r == Reverse(t)
<1>2. r = [i \in 1..Len(t) |-> t[(Len(t) - i) + 1]]
  BY DEF Reverse
<1>3. \A i \in 1..Len(t) : (Len(t) - i) + 1 \in 1..Len(t)
  BY <1>1
<1> HIDE DEF r
<1>4. r \in Seq(Byte) /\ Len(r) = Len(t) /\ \A i \in 1..Len(t) : r[i] = t[(Len(t) - i) + 1]
  BY <1>1, <1>2, <1>3
<1> DEFINE s == Reverse(r)
<1>5. s = [i \in 1..Len(r) |-> r[(Len(r) - i) + 1]]
  BY DEF Reverse
<1> HIDE DEF s
<1>6. ASSUME NEW i \in 1..Len(t) PROVE s[i] = t[i]
  <2>1. s[i] = r[(Len(t) - i) + 1]
    BY <1>4, <1>5
  <2>2. (Len(t) - i) + 1 \in 1..Len(t) /\ (Len(t) - ((Len(t) - i) + 1)) + 1 = i
    BY <1>1
  <2>3. r[(Len(t) - i) + 1] = t[(Len(t) - ((Len(t) - i) + 1)) + 1]
    BY <1>4, <2>2
  <2> QED BY <2>1, <2>2, <2>3
<1>7. s = t
  <2>1. DOMAIN t = 1..Len(t) /\ t = [i \in 1..Len(t) |-> t[i]]
    BY <1>1
  <2>2. s = [i \in 1..Len(t) |-> s[i]]
    BY <1>4, <1>5
  <2> QED BY <1>6, <2>1, <2>2
<1> QED BY <1>4, <1>7 DEF r, s

(* When a quotient has at most, or at least, one byte.                       *)
LEMMA QuotientBounds ==
  ASSUME NEW a \in Nat, NEW d \in Nat \ {0}
  PROVE  /\ a \div d < 256 <=> a < 256 * d
         /\ a \div d > 0 <=> d <= a
<1> DEFINE q == a \div d
           r == a % d
<1>1. q \in Nat /\ r \in 0..d - 1 /\ a = d * q + r
  BY DivMod
<1> HIDE DEF q, r
<1>2. q <= 255 => d * q <= d * 255
  BY <1>1, ProductOrder
<1>3. 256 <= q => d * 256 <= d * q
  BY <1>1, ProductOrder
<1>4. 1 <= q => d * 1 <= d * q
  BY <1>1, ProductOrder
<1>5. q = 0 => d * q = 0
  OBVIOUS
<1>6. d * q \in Nat
  BY <1>1
<1>7. q < 256 <=> a < 256 * d
  BY <1>1, <1>2, <1>3, <1>6
<1>8. q > 0 <=> d <= a
  BY <1>1, <1>4, <1>5, <1>6
<1> QED BY <1>7, <1>8 DEF q

(* A length in as few bytes as it needs, the highest first, and how many     *)
(* they are.                                                                 *)
LengthBytes(length, t) ==
  /\ t \in Seq(Byte)
  /\ 1 <= Len(t) /\ Len(t) <= MaxLengthBytes
  /\ Number(t) = length
  /\ t[1] # 0

(* generateHeader finds them, and reverseHeader turns them round.            *)
LEMMA GeneratedHeader ==
  ASSUME NEW length \in Nat \ {0}, length < Span(MaxLengthBytes),
         SizeWidth >= MaxLengthBytes
  PROVE  \E t : /\ LengthBytes(length, t)
                /\ reverseHeader(generateHeader(length))
                     = <<RLP_OFFSET_ITEM_LONG + Len(t)>> \o t
<1> DEFINE Fits(n) == /\ length \div Span(n - 1) < 256
                      /\ n > 1 => length \div Span(n - 1) > 0
<1>1. \A n \in Nat \ {0} : Fits(n) <=> length < Span(n) /\ (n > 1 => Span(n - 1) <= length)
  <2> TAKE n \in Nat \ {0}
  <2>1. n - 1 \in Nat /\ (n - 1) + 1 = n
    OBVIOUS
  <2>2. Span(n - 1) \in Nat \ {0} /\ Span(n) = 256 * Span(n - 1)
    BY <2>1, SpanStep
  <2> QED BY <2>2, QuotientBounds
<1>2. \E n \in 1..SizeWidth : Fits(n)
  <2> DEFINE T == {n \in Nat \ {0} : length < Span(n)}
  <2>1. T \in SUBSET Nat /\ T # {} /\ 3 \in T
    BY DEF MaxLengthBytes
  <2>2. PICK n \in T : \A m \in T : n <= m
    <3> HIDE DEF T
    <3> QED BY <2>1, NatLeast
  <2>3. n \in 1..SizeWidth
    BY <2>1, <2>2, WidthAssumption DEF MaxLengthBytes
  <2>4. n > 1 => Span(n - 1) <= length
    <3> SUFFICES ASSUME n > 1, ~(Span(n - 1) <= length) PROVE FALSE
      OBVIOUS
    <3>1. n - 1 \in Nat \ {0} /\ ~(n <= n - 1)
      OBVIOUS
    <3>2. Span(n - 1) \in Nat
      BY <3>1, SpanStep
    <3>3. n - 1 \in T
      BY <3>1, <3>2
    <3> QED BY <2>2, <3>1, <3>3
  <2> HIDE DEF Fits
  <2> QED BY <1>1, <2>2, <2>3, <2>4
<1> DEFINE count == CHOOSE n \in 1..SizeWidth : Fits(n)
           t == BigEndian(length, count)
<1>3. count \in 1..SizeWidth /\ Fits(count)
  <2> HIDE DEF Fits
  <2> QED BY <1>2
<1>4. generateHeader(length) = <<RLP_OFFSET_ITEM_LONG + count>> \o Reverse(t)
  BY DEF generateHeader
<1> HIDE DEF count, t, Fits
<1>5. count \in Nat \ {0} /\ length < Span(count) /\ (count > 1 => Span(count - 1) <= length)
  BY <1>1, <1>3
<1>6. count \in 1..MaxLengthBytes
  <2> SUFFICES ASSUME 3 <= count - 1 PROVE FALSE
    BY <1>5 DEF MaxLengthBytes
  <2>1. Span(3) <= Span(count - 1)
    BY <1>5, SpanOrder
  <2>2. Span(3) \in Nat /\ Span(count - 1) \in Nat
    BY <1>5, SpanStep
  <2> QED BY <1>5, <2>1, <2>2 DEF MaxLengthBytes
<1>7. t \in Seq(Byte) /\ Len(t) = count /\ Number(t) = length
  BY <1>5, BigEndianProperties DEF t
<1>8. t[1] # 0
  <2>1. t[1] = (length \div Span(count - 1)) % 256
    BY <1>5 DEF t, BigEndian
  <2>2. count - 1 \in Nat /\ Span(count - 1) \in Nat \ {0} /\ Span(count) = 256 * Span(count - 1)
    BY <1>5, SpanStep, (count - 1) + 1 = count
  <2>3. Span(count - 1) <= length
    <3>1. CASE count = 1
      BY <3>1, SpanStep
    <3>2. CASE count # 1
      BY <1>5, <3>2
    <3> QED BY <3>1, <3>2
  <2>4. length \div Span(count - 1) < 256 /\ length \div Span(count - 1) > 0
    BY <1>5, <2>2, <2>3, QuotientBounds
  <2>5. length \div Span(count - 1) \in Nat
    BY <2>2, DivMod
  <2> DEFINE q == length \div Span(count - 1)
  <2> HIDE DEF q
  <2>6. q \in 1..255
    BY <2>4, <2>5 DEF q
  <2>7. q % 256 = q
    BY <2>6
  <2> QED BY <2>1, <2>6, <2>7 DEF q
<1>9. reverseHeader(generateHeader(length)) = <<RLP_OFFSET_ITEM_LONG + count>> \o t
  <2> DEFINE r == Reverse(t)
             c == RLP_OFFSET_ITEM_LONG + count
             h == <<c>> \o r
  <2>1. r \in Seq(Byte) /\ Reverse(r) = t
    BY <1>7, ReverseTwice
  <2>2. c \in Byte
    BY <1>6 DEF RLP_OFFSET_ITEM_LONG, MaxLengthBytes, Byte
  <2> HIDE DEF r, c
  <2>3. h[1] = c /\ Tail(h) = r
    BY <2>1, <2>2
  <2>4. reverseHeader(h) = <<c>> \o t
    BY <2>1, <2>3 DEF reverseHeader
  <2> QED BY <1>4, <2>4 DEF r, c
<1>10. LengthBytes(length, t)
  BY <1>6, <1>7, <1>8 DEF LengthBytes
<1> QED BY <1>7, <1>9, <1>10

(* The first byte of a string is at least 128, that of a list at least 192.  *)
LEMMA ShortHeaderIs ==
  ASSUME NEW b, NEW k \in {"string", "list"}, NEW base \in {128, 192},
         k = "string" <=> base = 128, NEW n \in 0..55
  PROVE  HeaderFrom(base + n, b) = ShortHeader(k, n)
<1>1. CASE k = "string"
  <2>1. base + n \in 128..183 /\ base + n \in 0..255 /\ (base + n) - 128 = n
    BY <1>1
  <2> DEFINE c == base + n
  <2> HIDE DEF c
  <2>2. c \in 128..183 /\ c \in 0..255 /\ c - 128 = n
    BY <2>1 DEF c
  <2>3. HeaderFrom(c, b) = ShortHeader("string", c - 128)
    BY <2>2, HeaderIs
  <2> QED BY <1>1, <2>2, <2>3 DEF c
<1>2. CASE k = "list"
  <2>1. base + n \in 192..247 /\ base + n \in 0..255 /\ (base + n) - 192 = n
    BY <1>2
  <2> DEFINE c == base + n
  <2> HIDE DEF c
  <2>2. c \in 192..247 /\ c \in 0..255 /\ c - 192 = n
    BY <2>1 DEF c
  <2>3. HeaderFrom(c, b) = ShortHeader("list", c - 192)
    BY <2>2, HeaderIs
  <2> QED BY <1>2, <2>2, <2>3 DEF c
<1> QED BY <1>1, <1>2

(* The same with the length in bytes of its own.                             *)
LEMMA LongHeaderIs ==
  ASSUME NEW b, NEW k \in {"string", "list"}, NEW base \in {183, 247},
         k = "string" <=> base = 183, NEW n \in 1..3
  PROVE  HeaderFrom(base + n, b) = LongHeader(k, b, n)
<1>1. CASE k = "string"
  <2>1. base + n \in 184..191 /\ base + n \in 0..255 /\ (base + n) - 183 = n
    BY <1>1
  <2> DEFINE c == base + n
  <2> HIDE DEF c
  <2>2. c \in 184..191 /\ c \in 0..255 /\ c - 183 = n
    BY <2>1 DEF c
  <2>3. HeaderFrom(c, b) = LongHeader("string", b, c - 183)
    BY <2>2, HeaderIs
  <2> QED BY <1>1, <2>2, <2>3 DEF c
<1>2. CASE k = "list"
  <2>1. base + n \in 248..255 /\ base + n \in 0..255 /\ (base + n) - 247 = n
    BY <1>2
  <2> DEFINE c == base + n
  <2> HIDE DEF c
  <2>2. c \in 248..255 /\ c \in 0..255 /\ c - 247 = n
    BY <2>1 DEF c
  <2>3. HeaderFrom(c, b) = LongHeader("list", b, c - 247)
    BY <2>2, HeaderIs
  <2> QED BY <1>2, <2>2, <2>3 DEF c
<1> QED BY <1>1, <1>2

(* The header of up to 55 bytes is read as it was meant.                     *)
LEMMA ShortForm ==
  ASSUME NEW content \in Seq(Byte), NEW rest \in Seq(Byte), Len(content) <= 55,
         NEW k \in {"string", "list"}, NEW base \in {128, 192}, k = "string" <=> base = 128,
         k = "string" /\ Len(content) = 1 => content[1] >= 128
  PROVE  StartsWith(<<base + Len(content)>> \o content \o rest, k, content, rest)
<1> DEFINE c == base + Len(content)
           head == <<c>>
           b == head \o content \o rest
           h == [kind |-> k, skip |-> Len(head), size |-> Len(content)]
<1>1. Len(content) \in Nat /\ Len(content) <= 55
  OBVIOUS
<1>2. c \in 0..255
  <2> DEFINE n == Len(content)
  <2>1. n \in Nat /\ n <= 55
    BY <1>1
  <2> HIDE DEF n
  <2>2. base + n \in 0..255
    BY <2>1
  <2> QED BY <2>2 DEF n
<1>3. HeaderFrom(c, b) = ShortHeader(k, Len(content))
  <2> DEFINE n == Len(content)
  <2>1. n \in Nat /\ n <= 55 /\ c = base + n
    BY <1>1
  <2> HIDE DEF c, b, n
  <2>2. n \in 0..55
    BY <2>1
  <2>3. HeaderFrom(base + n, b) = ShortHeader(k, n)
    BY <2>2, ShortHeaderIs
  <2> QED BY <2>1, <2>3 DEF n
<1> HIDE DEF c
<1>4. head \in Seq(Byte) /\ Len(head) = 1 /\ head[1] = c
  BY <1>2 DEF Byte
<1> HIDE DEF head
<1>5. Parted(b, head, content, rest)
  BY <1>4, ThreeParts
<1>6. b # <<>> /\ b[1] = c
  <2>1. 1 \in 1..Len(head)
    BY <1>4
  <2>2. b[1] = head[1] /\ Len(b) >= 1
    BY <1>4, <1>5, <2>1, ByteSequence DEF Parted
  <2> QED BY <1>4, <2>2
<1>7. Header(b) = h
  BY <1>3, <1>4, <1>6 DEF Header, ShortHeader
<1>8. Canonical(b, h)
  <2>1. 1 + Len(content) <= Len(b)
    BY <1>1, <1>4, <1>5, ByteSequence DEF Parted
  <2>2. k = "string" /\ Len(content) = 1 => b[2] >= 128
    <3> SUFFICES ASSUME k = "string", Len(content) = 1 PROVE b[2] >= 128
      OBVIOUS
    <3>1. b[Len(head) + 1] = content[1] /\ Len(head) + 1 = 2
      BY <1>4, <1>5 DEF Parted
    <3>2. content[1] >= 128
      OBVIOUS
    <3> QED BY <3>1, <3>2
  <2>3. h.kind = k /\ h.skip = 1 /\ h.size = Len(content)
    BY <1>4
  <2> HIDE DEF h, b
  <2> QED BY <2>1, <2>2, <2>3 DEF Canonical
<1>9. Announces(b, k, head, content)
  BY <1>6, <1>7, <1>8 DEF Announces
<1>10. StartsWith(b, k, content, rest)
  BY <1>4, <1>9, PieceInFront
<1> QED BY <1>10 DEF head, c

(* So is the header of more bytes.                                           *)
LEMMA LongForm ==
  ASSUME NEW content \in Seq(Byte), NEW rest \in Seq(Byte), Len(content) > 55,
         NEW k \in {"string", "list"}, NEW base \in {183, 247}, k = "string" <=> base = 183,
         NEW t, LengthBytes(Len(content), t)
  PROVE  StartsWith((<<base + Len(t)>> \o t) \o content \o rest, k, content, rest)
<1> DEFINE c == base + Len(t)
           head == <<c>> \o t
           b == head \o content \o rest
           h == [kind |-> k, skip |-> Len(head), size |-> Len(content)]
<1>1. Len(content) \in Nat
  OBVIOUS
<1>2. t \in Seq(Byte) /\ 1 <= Len(t) /\ Len(t) <= 3 /\ Number(t) = Len(content) /\ t[1] # 0
  BY DEF LengthBytes, MaxLengthBytes
<1>3. c \in Byte
  <2> DEFINE n == Len(t)
  <2>1. n \in Nat /\ n <= 3
    BY <1>2
  <2> HIDE DEF n
  <2>2. base + n \in 0..255
    BY <2>1
  <2> QED BY <2>2 DEF Byte, n
<1>4. HeaderFrom(c, b) = LongHeader(k, b, Len(t))
  <2> DEFINE n == Len(t)
  <2>1. n \in Nat /\ 1 <= n /\ n <= 3 /\ c = base + n
    BY <1>2
  <2> HIDE DEF c, b, n
  <2>2. n \in 1..3
    BY <2>1
  <2>3. HeaderFrom(base + n, b) = LongHeader(k, b, n)
    BY <2>2, LongHeaderIs
  <2> QED BY <2>1, <2>3 DEF n
<1> HIDE DEF c
<1>5. /\ head \in Seq(Byte) /\ Len(head) = 1 + Len(t) /\ head[1] = c
      /\ \A i \in 1..Len(t) : head[1 + i] = t[i]
  <2>1. <<c>> \in Seq(Byte) /\ Len(<<c>>) = 1 /\ <<c>>[1] = c /\ 1 \in 1..1
    BY <1>3
  <2> QED BY <1>2, <2>1, TwoParts
<1> HIDE DEF head
<1>6. Parted(b, head, content, rest)
  BY <1>5, ThreeParts
<1>7. Len(b) = 1 + Len(t) + Len(content) + Len(rest) /\ Len(rest) \in Nat /\ b \in Seq(Byte)
  BY <1>5, <1>6 DEF Parted
<1>8. b # <<>> /\ b[1] = c
  <2>1. 1 \in 1..Len(head)
    BY <1>2, <1>5
  <2>2. b[1] = head[1] /\ Len(b) >= 1
    BY <1>1, <1>2, <1>6, <1>7, <2>1 DEF Parted
  <2> QED BY <1>5, <2>2
<1>9. \A i \in 1..Len(t) : b[1 + i] = t[i]
  <2> TAKE i \in 1..Len(t)
  <2>1. 1 + i \in 1..Len(head)
    BY <1>2, <1>5
  <2>2. b[1 + i] = head[1 + i]
    BY <1>6, <2>1 DEF Parted
  <2> QED BY <1>5, <2>2
<1>10. Header(b) = h
  <2>1. SubSeq(b, 2, 1 + Len(t)) = t
    <3>1. 1 + Len(t) <= Len(b)
      BY <1>1, <1>2, <1>7
    <3> HIDE DEF b
    <3>2. SubSeq(b, 1 + 1, 1 + Len(t)) = t
      BY <1>2, <1>7, <1>9, <3>1, CutOut
    <3> QED BY <3>2
  <2>2. 1 + Len(t) <= Len(b) /\ Len(t) <= MaxLengthBytes
    <3>1. Len(t) <= MaxLengthBytes
      BY <1>2 DEF MaxLengthBytes
    <3> HIDE DEF b
    <3> QED BY <1>1, <1>2, <1>7, <3>1
  <2> HIDE DEF b
  <2>3. LongHeader(k, b, Len(t)) = [kind |-> k, skip |-> 1 + Len(t), size |-> Number(t)]
    BY <2>1, <2>2 DEF LongHeader
  <2> QED BY <1>2, <1>4, <1>5, <1>8, <2>3 DEF Header
<1>11. Canonical(b, h)
  <2>1. h.kind = k /\ h.skip = 1 + Len(t) /\ h.size = Len(content)
    BY <1>5
  <2>2. b[2] = t[1]
    BY <1>2, <1>9, 1 + 1 = 2
  <2>3. h.skip + h.size <= Len(b) /\ h.skip > 1 /\ h.size > 55
    BY <1>1, <1>2, <1>7, <2>1
  <2>4. b[2] # 0 /\ h.skip # 1
    BY <1>2, <2>1, <2>2
  <2> HIDE DEF h, b
  <2> QED BY <2>3, <2>4 DEF Canonical
<1>12. Announces(b, k, head, content)
  BY <1>8, <1>10, <1>11 DEF Announces
<1>13. StartsWith(b, k, content, rest)
  BY <1>5, <1>12, PieceInFront
<1> QED BY <1>13 DEF head, c

(* The short form of a string.                                               *)
LEMMA ShortString ==
  ASSUME NEW content \in Seq(Byte), NEW rest \in Seq(Byte), Len(content) <= 55,
         Len(content) = 1 => content[1] >= 128
  PROVE  StartsWith(<<128 + Len(content)>> \o content \o rest, "string", content, rest)
<1>1. "string" \in {"string", "list"} /\ 128 \in {128, 192}
  OBVIOUS
<1>2. "string" = "string" <=> 128 = 128
  OBVIOUS
<1>3. "string" = "string" /\ Len(content) = 1 => content[1] >= 128
  OBVIOUS
<1> QED BY <1>1, <1>2, <1>3, ShortForm, Zenon

(* The short form of a list.                                                 *)
LEMMA ShortList ==
  ASSUME NEW content \in Seq(Byte), NEW rest \in Seq(Byte), Len(content) <= 55
  PROVE  StartsWith(<<192 + Len(content)>> \o content \o rest, "list", content, rest)
<1>1. "list" \in {"string", "list"} /\ 192 \in {128, 192}
  OBVIOUS
<1>2. "list" = "string" <=> 192 = 128
  OBVIOUS
<1>3. "list" = "string" /\ Len(content) = 1 => content[1] >= 128
  OBVIOUS
<1> QED BY <1>1, <1>2, <1>3, ShortForm, Zenon

(* The long form of a string.                                                *)
LEMMA LongString ==
  ASSUME NEW content \in Seq(Byte), NEW rest \in Seq(Byte), Len(content) > 55,
         NEW t, LengthBytes(Len(content), t)
  PROVE  StartsWith((<<183 + Len(t)>> \o t) \o content \o rest, "string", content, rest)
<1>1. "string" \in {"string", "list"} /\ 183 \in {183, 247}
  OBVIOUS
<1>2. "string" = "string" <=> 183 = 183
  OBVIOUS
<1> QED BY <1>1, <1>2, LongForm, Zenon

(* The long form of a list.                                                  *)
LEMMA LongList ==
  ASSUME NEW content \in Seq(Byte), NEW rest \in Seq(Byte), Len(content) > 55,
         NEW t, LengthBytes(Len(content), t)
  PROVE  StartsWith((<<247 + Len(t)>> \o t) \o content \o rest, "list", content, rest)
<1>1. "list" \in {"string", "list"} /\ 247 \in {183, 247}
  OBVIOUS
<1>2. "list" = "string" <=> 247 = 183
  OBVIOUS
<1> DEFINE k == "list"
           base == 247
<1> HIDE DEF k, base
<1>3. k \in {"string", "list"} /\ base \in {183, 247} /\ (k = "string" <=> base = 183)
  BY <1>1, <1>2 DEF k, base
<1>4. StartsWith((<<base + Len(t)>> \o t) \o content \o rest, k, content, rest)
  BY <1>3, LongForm
<1> QED BY <1>4 DEF k, base

(* What a reader finds in place of c: the single byte 0 is written as        *)
(* nothing.                                                                  *)
AsRead(c) == IF c = <<0>> THEN <<>> ELSE c

(* EncodeBytes writes a string that is read back, with no more than four     *)
(* bytes in front of it.                                                     *)
LEMMA EncodeBytesIs ==
  ASSUME NEW c \in Seq(Byte), Len(c) < Span(MaxLengthBytes), SizeWidth >= MaxLengthBytes
  PROVE  /\ EncodeBytes(c) \in Seq(Byte)
         /\ Len(EncodeBytes(c)) <= Len(c) + 4
         /\ \A rest \in Seq(Byte) : StartsWith(EncodeBytes(c) \o rest, "string", AsRead(c), rest)
<1>1. Len(c) \in Nat
  OBVIOUS
<1>2. CASE c = <<0>>
  <2>1. EncodeBytes(c) = <<128>> /\ AsRead(c) = <<>>
    BY <1>2 DEF EncodeBytes, RLP_OFFSET_ITEM_SHORT, AsRead
  <2>2. ASSUME NEW rest \in Seq(Byte) PROVE StartsWith(<<128>> \o rest, "string", <<>>, rest)
    <3> DEFINE e == <<>>
    <3>1. e \in Seq(Byte) /\ Len(e) = 0 /\ 128 + 0 = 128
      BY EmptySeq
    <3> HIDE DEF e
    <3>2. Len(e) <= 55 /\ ~(Len(e) = 1)
      BY <3>1
    <3>3. StartsWith(<<128 + Len(e)>> \o e \o rest, "string", e, rest)
      BY <3>1, <3>2, ShortString
    <3>4. <<128>> \in Seq(Byte)
      BY DEF Byte
    <3>5. <<128>> \o <<>> = <<128>>
      BY <3>4, ConcatEmptySeq
    <3> QED BY <3>1, <3>5, <3>3 DEF e
  <2>3. <<128>> \in Seq(Byte) /\ Len(<<128>>) = 1
    BY DEF Byte
  <2> QED BY <1>1, <2>1, <2>2, <2>3
<1>3. CASE c # <<0>> /\ Len(c) = 1 /\ c[1] < 128
  <2>1. EncodeBytes(c) = c /\ AsRead(c) = c
    BY <1>3 DEF EncodeBytes, RLP_OFFSET_ITEM_SHORT, AsRead
  <2>2. ASSUME NEW rest \in Seq(Byte) PROVE StartsWith(c \o rest, "string", c, rest)
    <3> DEFINE b == <<>> \o c \o rest
               x == c[1]
    <3>1. <<>> \in Seq(Byte) /\ Len(<<>>) = 0
      BY EmptySeq
    <3>2. Parted(b, <<>>, c, rest)
      BY <3>1, ThreeParts
    <3>3. x \in 0..255 /\ x < 128
      <4>1. 1 \in 1..Len(c)
        BY <1>3
      <4>2. x \in Byte
        BY <4>1, ByteSequence
      <4> QED BY <1>3, <4>2 DEF Byte
    <3> HIDE DEF x
    <3>4. b # <<>> /\ b[1] = x /\ Len(b) >= 1
      <4>1. Len(b) = Len(<<>>) + Len(c) + Len(rest) /\ \A i \in 1..Len(c) : b[Len(<<>>) + i] = c[i]
        BY <3>2 DEF Parted
      <4>2. Len(rest) \in Nat
        OBVIOUS
      <4>3. b[1] = c[1] /\ Len(b) >= 1
        BY <1>3, <3>1, <4>1, <4>2, 0 + 1 = 1
      <4> QED BY <4>3 DEF x
    <3>5. Header(b) = [kind |-> "string", skip |-> 0, size |-> 1]
      <4> HIDE DEF b
      <4>1. HeaderFrom(x, b) = [kind |-> "string", skip |-> 0, size |-> 1]
        BY <3>3, HeaderIs
      <4> QED BY <3>4, <4>1 DEF Header
    <3>6. Canonical(b, [kind |-> "string", skip |-> 0, size |-> 1])
      BY <3>4 DEF Canonical
    <3>7. Announces(b, "string", <<>>, c)
      BY <1>3, <3>1, <3>4, <3>5, <3>6 DEF Announces
    <3>8. StartsWith(b, "string", c, rest)
      BY <3>1, <3>7, PieceInFront
    <3>9. <<>> \o c = c
      BY ConcatEmptySeq
    <3> QED BY <3>8, <3>9
  <2> QED BY <1>1, <2>1, <2>2
<1>4. CASE c # <<0>> /\ ~(Len(c) = 1 /\ c[1] < 128) /\ Len(c) <= 55
  <2> DEFINE head == <<128 + Len(c)>>
  <2>1. EncodeBytes(c) = head \o c /\ AsRead(c) = c
    BY <1>4 DEF EncodeBytes, RLP_OFFSET_ITEM_SHORT, RLP_LENGTH_THRESHOLD, AsRead
  <2>2. head \in Seq(Byte) /\ Len(head) = 1
    <3> DEFINE n == 128 + Len(c)
    <3>1. n \in Nat /\ n <= 255
      BY <1>1, <1>4
    <3> HIDE DEF n
    <3>2. n \in Byte
      BY <3>1 DEF Byte
    <3> QED BY <3>2 DEF n
  <2>3. head \o c \in Seq(Byte) /\ Len(head \o c) = 1 + Len(c)
    BY <2>2, TwoParts
  <2>4. Len(c) = 1 => c[1] >= 128
    <3> SUFFICES ASSUME Len(c) = 1 PROVE c[1] >= 128
      OBVIOUS
    <3>1. 1 \in 1..Len(c)
      OBVIOUS
    <3>2. c[1] \in Byte
      BY <3>1, ByteSequence
    <3>3. ~(c[1] < 128)
      BY <1>4
    <3> DEFINE x == c[1]
    <3> HIDE DEF x
    <3>4. x \in 0..255 /\ ~(x < 128)
      BY <3>2, <3>3 DEF x, Byte
    <3>5. x >= 128
      BY <3>4
    <3> QED BY <3>5 DEF x
  <2>5. ASSUME NEW rest \in Seq(Byte) PROVE StartsWith(head \o c \o rest, "string", c, rest)
    BY <1>4, <2>4, ShortString
  <2> HIDE DEF head
  <2> QED BY <1>1, <2>1, <2>3, <2>5
<1>5. CASE c # <<0>> /\ ~(Len(c) = 1 /\ c[1] < 128) /\ ~(Len(c) <= 55)
  <2>1. Len(c) \in Nat \ {0}
    BY <1>1, <1>5
  <2>2. PICK t : /\ LengthBytes(Len(c), t)
                 /\ reverseHeader(generateHeader(Len(c))) = <<RLP_OFFSET_ITEM_LONG + Len(t)>> \o t
    BY <2>1, GeneratedHeader
  <2> DEFINE head == <<183 + Len(t)>> \o t
  <2>3. EncodeBytes(c) = head \o c /\ AsRead(c) = c
    BY <1>5, <2>2 DEF EncodeBytes, RLP_OFFSET_ITEM_SHORT, RLP_OFFSET_ITEM_LONG, RLP_LENGTH_THRESHOLD, AsRead
  <2>4. t \in Seq(Byte) /\ Len(t) \in Nat /\ Len(t) <= 3
    BY <2>2 DEF LengthBytes, MaxLengthBytes
  <2>5. head \in Seq(Byte) /\ Len(head) <= 4
    <3> DEFINE n == 183 + Len(t)
    <3>1. n \in Nat /\ n <= 255
      BY <2>4
    <3> HIDE DEF n
    <3>2. n \in Byte
      BY <3>1 DEF Byte
    <3>3. <<n>> \in Seq(Byte) /\ Len(<<n>>) = 1
      BY <3>2
    <3>4. <<n>> \o t \in Seq(Byte) /\ Len(<<n>> \o t) = 1 + Len(t)
      BY <2>4, <3>3, TwoParts
    <3> QED BY <2>4, <3>4 DEF n
  <2>6. head \o c \in Seq(Byte) /\ Len(head \o c) = Len(head) + Len(c) /\ Len(head) \in Nat
    <3> HIDE DEF head
    <3> QED BY <2>5, TwoParts
  <2>7. ASSUME NEW rest \in Seq(Byte) PROVE StartsWith(head \o c \o rest, "string", c, rest)
    <3>1. Len(c) > 55
      BY <1>1, <1>5
    <3> QED BY <2>2, <3>1, LongString
  <2> HIDE DEF head
  <2> QED BY <1>1, <2>3, <2>5, <2>6, <2>7
<1> QED BY <1>2, <1>3, <1>4, <1>5

(* The pieces of the first k of the byte arrays c.                           *)
StringPiece(c) == [kind |-> "string", content |-> AsRead(c)]

Strings(c, k) == [i \in 1..k |-> StringPiece(c[i])]

(* One more.                                                                 *)
LEMMA OneMoreString ==
  ASSUME NEW c, NEW k \in Nat,
         \A i \in 1..k + 1 : c[i] \in Seq(Byte)
  PROVE  /\ Strings(c, k) \in Seq(Piece) /\ Strings(c, k + 1) \in Seq(Piece)
         /\ Len(Strings(c, k)) = k
         /\ StringPiece(c[k + 1]) \in Piece
         /\ Strings(c, k) \o <<StringPiece(c[k + 1])>> = Strings(c, k + 1)
<1>1. \A i \in 1..k + 1 : StringPiece(c[i]) \in Piece
  <2> TAKE i \in 1..k + 1
  <2>1. AsRead(c[i]) \in Seq(Byte)
    BY EmptySeq DEF AsRead
  <2> QED BY <2>1 DEF StringPiece, Piece
<1> DEFINE V == Piece
           a == Strings(c, k)
           z == StringPiece(c[k + 1])
           e == Strings(c, k + 1)
<1>2. \A i \in 1..k : StringPiece(c[i]) \in V
  BY <1>1
<1>3. z \in V
  BY <1>1
<1> HIDE DEF V
<1>4. a \in Seq(V) /\ Len(a) = k /\ \A i \in 1..k : a[i] = StringPiece(c[i])
  BY <1>2 DEF Strings
<1>5. e \in Seq(V) /\ Len(e) = k + 1 /\ \A i \in 1..k + 1 : e[i] = StringPiece(c[i])
  BY <1>1 DEF Strings, V
<1> HIDE DEF a, e, z
<1>6. a \o <<z>> = e
  <2>1. <<z>> \in Seq(V) /\ Len(<<z>>) = 1 /\ <<z>>[1] = z
    BY <1>3
  <2> DEFINE y == <<z>>
             j == a \o y
  <2> HIDE DEF y
  <2>2. y \in Seq(V) /\ Len(y) = 1 /\ y[1] = z
    BY <2>1 DEF y
  <2>3. /\ j \in Seq(V) /\ Len(j) = k + 1
        /\ \A i \in 1..k + 1 : j[i] = IF i <= k THEN a[i] ELSE y[i - k]
    <3>1. /\ j \in Seq(V) /\ Len(j) = Len(a) + Len(y)
          /\ \A i \in 1..Len(a) + Len(y) : j[i] = IF i <= Len(a) THEN a[i] ELSE y[i - Len(a)]
      BY <1>4, <2>2, ConcatProperties
    <3> HIDE DEF j
    <3> QED BY <1>4, <2>2, <3>1
  <2> HIDE DEF j
  <2>4. ASSUME NEW i \in 1..k + 1 PROVE j[i] = e[i]
    <3>1. CASE i <= k
      BY <1>4, <1>5, <2>3, <3>1
    <3>2. CASE ~(i <= k)
      <4>1. i = k + 1 /\ i - k = 1
        BY <3>2
      <4>2. j[i] = z
        BY <2>2, <2>3, <3>2, <4>1
      <4>3. e[i] = z
        BY <1>5, <4>1 DEF z
      <4> QED BY <4>2, <4>3
    <3> QED BY <3>1, <3>2
  <2>5. j = e
    BY <1>5, <2>3, <2>4, SeqEqual
  <2> QED BY <2>5 DEF j, y
<1> QED BY <1>3, <1>4, <1>5, <1>6 DEF V, a, e, z

(* b is the byte arrays c behind each other, as far as k.                    *)
Encoded(b, c, k) ==
  \A t \in Seq(Byte) : Pieces[b \o t] = {Strings(c, k) \o p : p \in Pieces[t]}

(* A string behind k of them.                                                *)
LEMMA EncodeOneMore ==
  ASSUME NEW c, NEW k \in Nat, NEW b \in Seq(Byte), NEW s \in Seq(Byte),
         \A i \in 1..k + 1 : c[i] \in Seq(Byte),
         Encoded(b, c, k),
         \A rest \in Seq(Byte) : StartsWith(s \o rest, "string", AsRead(c[k + 1]), rest)
  PROVE  Encoded(b \o s, c, k + 1)
<1> DEFINE a == Strings(c, k)
           z == <<StringPiece(c[k + 1])>>
           e == Strings(c, k + 1)
<1>1. a \in Seq(Piece) /\ z \in Seq(Piece) /\ a \o z = e
  <2>1. a \in Seq(Piece) /\ StringPiece(c[k + 1]) \in Piece /\ a \o z = e
    BY OneMoreString
  <2> DEFINE V == Piece
             x == StringPiece(c[k + 1])
  <2>2. x \in V
    BY <2>1
  <2> HIDE DEF V, x
  <2>3. <<x>> \in Seq(V)
    BY <2>2
  <2> QED BY <2>1, <2>3 DEF V, x
<1> SUFFICES ASSUME NEW t \in Seq(Byte)
             PROVE  Pieces[(b \o s) \o t] = {e \o p : p \in Pieces[t]}
  BY DEF Encoded
<1>2. s \o t \in Seq(Byte) /\ (b \o s) \o t = b \o (s \o t)
  BY ConcatProperties, ConcatAssociative
<1>3. Pieces[b \o (s \o t)] = {a \o p : p \in Pieces[s \o t]}
  BY <1>2 DEF Encoded
<1>4. Pieces[s \o t] = {z \o p : p \in Pieces[t]}
  BY DEF StartsWith, StringPiece
<1>5. \A p \in Pieces[t] : a \o (z \o p) = e \o p
  <2> TAKE p \in Pieces[t]
  <2>1. p \in Seq(Piece)
    BY PiecesUnfold
  <2> HIDE DEF a, z, e
  <2> DEFINE V == Piece
  <2>2. p \in Seq(V) /\ a \in Seq(V) /\ z \in Seq(V)
    BY <1>1, <2>1
  <2> HIDE DEF V
  <2>3. (a \o z) \o p = a \o (z \o p)
    BY <2>2, ConcatAssociative, SMTT(30)
  <2> QED BY <1>1, <2>3, Zenon
<1> HIDE DEF a, z, e
<1>6. {a \o p : p \in Pieces[s \o t]} = {e \o p : p \in Pieces[t]}
  <2> DEFINE A == {a \o p : p \in Pieces[s \o t]}
             E == {e \o p : p \in Pieces[t]}
  <2>1. ASSUME NEW x \in A PROVE x \in E
    <3>1. PICK q \in Pieces[s \o t] : x = a \o q
      OBVIOUS
    <3>2. PICK p \in Pieces[t] : q = z \o p
      BY <1>4, <3>1, Zenon
    <3>3. x = e \o p
      BY <1>5, <3>1, <3>2, Zenon
    <3> QED BY <3>2, <3>3
  <2>2. ASSUME NEW x \in E PROVE x \in A
    <3>1. PICK p \in Pieces[t] : x = e \o p
      OBVIOUS
    <3>2. z \o p \in Pieces[s \o t]
      BY <1>4, <3>1, Zenon
    <3>3. x = a \o (z \o p)
      BY <1>5, <3>1, Zenon
    <3> QED BY <3>2, <3>3, Zenon
  <2> HIDE DEF A, E
  <2>3. A = E
    BY <2>1, <2>2
  <2> QED BY <2>3 DEF A, E
<1> QED BY <1>2, <1>3, <1>6, Zenon

(* b is what EncodeBytes makes of c, in up to K bytes.                       *)
EncodesString(b, c, K) ==
  /\ c \in Seq(Byte) /\ b \in Seq(Byte) /\ Len(b) <= K
  /\ \A rest \in Seq(Byte) : StartsWith(b \o rest, "string", AsRead(c), rest)

(* The whole of them is read back one by one.                                *)
LEMMA JoinedStrings ==
  ASSUME NEW n \in Nat \ {0}, NEW K \in Nat, NEW c, NEW s, Len(s) = n,
         NEW u, Joined(u, s),
         \A i \in 1..n : EncodesString(s[i], c[i], K)
  PROVE  u[n] \in Seq(Byte) /\ Len(u[n]) <= n * K /\ Encoded(u[n], c, n)
<1> DEFINE Good(k) == Len(u[k]) <= k * K /\ Encoded(u[k], c, k)
           T == {k \in Nat : k + 1 <= n => Good(k + 1)}
<1>1. u \in [1..n -> Seq(Byte)] /\ u[1] = s[1] /\ \A i \in 2..n : u[i] = u[i - 1] \o s[i]
  BY DEF Joined
<1>2. \A i \in 1..n : /\ c[i] \in Seq(Byte) /\ s[i] \in Seq(Byte) /\ Len(s[i]) <= K
                      /\ \A rest \in Seq(Byte) : StartsWith(s[i] \o rest, "string", AsRead(c[i]), rest)
  BY DEF EncodesString
<1>3. 0 \in T
  <2>1. 1 \in 1..n
    OBVIOUS
  <2>2. <<>> \in Seq(Byte) /\ s[1] \in Seq(Byte) /\ <<>> \o s[1] = s[1]
    BY <1>2, <2>1, EmptySeq, ConcatEmptySeq
  <2>3. Encoded(<<>>, c, 0)
    <3> SUFFICES ASSUME NEW t \in Seq(Byte)
                 PROVE  Pieces[<<>> \o t] = {Strings(c, 0) \o p : p \in Pieces[t]}
      BY DEF Encoded
    <3>1. <<>> \o t = t
      BY ConcatEmptySeq
    <3>2. Strings(c, 0) = <<>>
      BY EmptySeq DEF Strings
    <3>3. \A p \in Pieces[t] : <<>> \o p = p
      BY PiecesUnfold, ConcatEmptySeq
    <3>4. {<<>> \o p : p \in Pieces[t]} = Pieces[t]
      BY <3>3
    <3> QED BY <3>1, <3>2, <3>4, Zenon
  <2> DEFINE e == <<>>
  <2>4. e \in Seq(Byte) /\ e \o s[1] = s[1] /\ Encoded(e, c, 0)
    BY <2>2, <2>3
  <2> HIDE DEF e
  <2>5. (\A i \in 1..0 + 1 : c[i] \in Seq(Byte)) /\ 0 + 1 = 1 /\ 0 \in Nat
    BY <1>2, <2>1
  <2>6. \A rest \in Seq(Byte) : StartsWith(s[1] \o rest, "string", AsRead(c[0 + 1]), rest)
    BY <1>2, <2>1, <2>5
  <2>7. Encoded(e \o s[1], c, 0 + 1)
    BY <2>2, <2>4, <2>5, <2>6, EncodeOneMore
  <2>8. Len(s[1]) <= K /\ (0 + 1) * K = K
    BY <1>2, <2>1
  <2> QED BY <1>1, <2>4, <2>5, <2>7, <2>8
<1>4. ASSUME NEW k \in Nat, k \in T PROVE k + 1 \in T
  <2> DEFINE j == k + 1
  <2>1. j \in Nat /\ k + 1 = j /\ j # 0 /\ (j + 1) - 1 = j
    OBVIOUS
  <2>2. j <= n => Good(j)
    <3> HIDE DEF Good
    <3> QED BY <1>4
  <2> HIDE DEF j
  <2> SUFFICES ASSUME j + 1 <= n
               PROVE  Len(u[j + 1]) <= (j + 1) * K /\ Encoded(u[j + 1], c, j + 1)
    BY <2>1
  <2>3. j \in 1..n /\ j + 1 \in 2..n /\ j + 1 \in 1..n /\ (\A i \in 1..j + 1 : i \in 1..n)
    BY <2>1
  <2>4. u[j + 1] = u[j] \o s[j + 1] /\ u[j] \in Seq(Byte) /\ s[j + 1] \in Seq(Byte)
    BY <1>1, <1>2, <2>1, <2>3
  <2>5. Len(u[j]) <= j * K /\ Encoded(u[j], c, j)
    BY <2>2, <2>3 DEF Good
  <2>6. \A i \in 1..j + 1 : c[i] \in Seq(Byte)
    BY <1>2, <2>3
  <2>7. \A rest \in Seq(Byte) : StartsWith(s[j + 1] \o rest, "string", AsRead(c[j + 1]), rest)
    BY <1>2, <2>3
  <2>8. Encoded(u[j] \o s[j + 1], c, j + 1)
    BY <2>1, <2>4, <2>5, <2>6, <2>7, EncodeOneMore
  <2>9. Len(u[j + 1]) <= (j + 1) * K
    <3>1. Len(u[j + 1]) = Len(u[j]) + Len(s[j + 1]) /\ Len(u[j]) \in Nat /\ Len(s[j + 1]) \in Nat
      BY <2>4, TwoParts
    <3>2. Len(s[j + 1]) <= K
      BY <1>2, <2>3
    <3>3. (j + 1) * K = j * K + K /\ j * K \in Nat
      BY <2>1
    <3> DEFINE x == Len(u[j])
               y == Len(s[j + 1])
               p == j * K
               z == (j + 1) * K
    <3>4. x \in Nat /\ y \in Nat /\ p \in Nat /\ x <= p /\ y <= K /\ z = p + K
      BY <2>5, <3>1, <3>2, <3>3
    <3> HIDE DEF x, y, p, z
    <3>5. x + y <= z
      BY <3>4
    <3> QED BY <3>1, <3>5 DEF x, y, z
  <2> QED BY <2>4, <2>8, <2>9
<1>5. Nat \subseteq T
  <2> HIDE DEF T
  <2> QED BY <1>3, <1>4, NatInduct
<1>6. n - 1 \in Nat /\ (n - 1) + 1 = n
  OBVIOUS
<1>7. n - 1 \in T
  <2> HIDE DEF T
  <2> QED BY <1>5, <1>6
<1>8. Len(u[n]) <= n * K /\ Encoded(u[n], c, n)
  BY <1>6, <1>7
<1> QED BY <1>1, <1>8

(* A list of these strings and nothing else.                                 *)
LEMMA ListIsRead ==
  ASSUME NEW n \in Nat, NEW c, NEW b \in Seq(Byte), NEW e \in Seq(Byte),
         \A i \in 1..n : c[i] \in Seq(Byte),
         Encoded(e, c, n), StartsWith(b, "list", e, <<>>)
  PROVE  StringLists(b) = {[i \in 1..n |-> AsRead(c[i])]}
<1> DEFINE a == Strings(c, n)
           l == [kind |-> "list", content |-> e]
<1>1. Pieces[<<>>] = {<<>>}
  BY PiecesUnfold, EmptySeq DEF Reading
<1>2. Pieces[b] = {<<l>>}
  <2>1. l \in Piece
    BY DEF Piece
  <2>2. <<l>> \o <<>> = <<l>>
    <3> DEFINE V == Piece
               x == l
    <3>1. x \in V
      BY <2>1
    <3> HIDE DEF V, x
    <3>2. <<x>> \in Seq(V)
      BY <3>1
    <3>3. <<x>> \o <<>> = <<x>>
      BY <3>2, ConcatEmptySeq
    <3> QED BY <3>3 DEF x
  <2>3. Pieces[b] = {<<l>> \o p : p \in Pieces[<<>>]}
    BY DEF StartsWith
  <2> HIDE DEF l
  <2>4. Pieces[b] = {<<l>> \o <<>>}
    BY <1>1, <2>3
  <2> QED BY <2>2, <2>4
<1>3. a = [i \in 1..n |-> StringPiece(c[i])]
  BY DEF Strings
<1>4. \A i \in 1..n : StringPiece(c[i]).kind = "string" /\ StringPiece(c[i]).content = AsRead(c[i])
  BY DEF StringPiece
<1>5. a \in Seq(Piece)
  <2> DEFINE V == Piece
  <2>1. \A i \in 1..n : StringPiece(c[i]) \in V
    <3> TAKE i \in 1..n
    <3>1. AsRead(c[i]) \in Seq(Byte)
      BY EmptySeq DEF AsRead
    <3> QED BY <3>1 DEF StringPiece, Piece
  <2> HIDE DEF V, a
  <2>2. a \in Seq(V)
    BY <1>3, <2>1
  <2> QED BY <2>2 DEF V
<1>6. Pieces[e] = {a}
  <2>1. e \o <<>> = e /\ <<>> \in Seq(Byte)
    BY ConcatEmptySeq, EmptySeq
  <2>2. Pieces[e \o <<>>] = {a \o p : p \in Pieces[<<>>]}
    BY <2>1 DEF Encoded
  <2>3. a \o <<>> = a
    BY <1>5, ConcatEmptySeq
  <2> HIDE DEF a
  <2>4. Pieces[e] = {a \o <<>>}
    BY <1>1, <2>1, <2>2
  <2> QED BY <2>3, <2>4
<1>7. {m \in Pieces[b] : Len(m) = 1 /\ m[1].kind = "list"} = {<<l>>}
  <2>1. Len(<<l>>) = 1 /\ <<l>>[1] = l /\ l.kind = "list"
    OBVIOUS
  <2> HIDE DEF l
  <2> QED BY <1>2, <2>1
<1>8. UNION {Pieces[m[1].content] : m \in {<<l>>}} = {a}
  <2>1. <<l>>[1] = l /\ l.content = e
    OBVIOUS
  <2> HIDE DEF l, a
  <2>2. {Pieces[m[1].content] : m \in {<<l>>}} = {{a}}
    BY <1>6, <2>1
  <2> QED BY <2>2
<1>9. {q \in {a} : \A i \in DOMAIN q : q[i].kind = "string"} = {a}
  <2>1. \A i \in DOMAIN a : a[i].kind = "string"
    <3> HIDE DEF a
    <3> QED BY <1>3, <1>4
  <2> HIDE DEF a
  <2> QED BY <2>1
<1>10. [i \in DOMAIN a |-> a[i].content] = [i \in 1..n |-> AsRead(c[i])]
  <2> HIDE DEF a
  <2> QED BY <1>3, <1>4
<1> HIDE DEF a, l
<1>11. StringLists(b) = {[i \in DOMAIN p |-> p[i].content] : p \in {a}}
  BY <1>7, <1>8, <1>9 DEF StringLists
<1> QED BY <1>10, <1>11

(* The length of a list, in as few bytes as it needs.                        *)
LEMMA ShortestLength ==
  ASSUME NEW length \in Nat \ {0}, length < Span(MaxLengthBytes), SizeWidth >= MaxLengthBytes
  PROVE  LengthBytes(length, size_to_bytes(length))
<1> DEFINE b == BigEndian(length, SizeWidth)
           t == truncate(b)
<1>1. SizeWidth \in Nat /\ MaxLengthBytes \in Nat
  BY WidthAssumption DEF MaxLengthBytes
<1>2. Span(MaxLengthBytes) <= Span(SizeWidth) /\ Span(SizeWidth) \in Nat /\ Span(MaxLengthBytes) \in Nat
  BY <1>1, SpanOrder, SpanStep
<1>3. length < Span(SizeWidth)
  BY <1>2
<1>4. b \in Seq(Byte) /\ Number(b) = length
  BY <1>1, <1>3, BigEndianProperties
<1> HIDE DEF b
<1>5. Number(b) < Span(MaxLengthBytes)
  BY <1>4
<1>6. t \in Seq(Byte) /\ (t = <<>> \/ t[1] # 0) /\ Number(t) = length /\ Len(t) <= MaxLengthBytes
  BY <1>1, <1>4, <1>5, TruncateProperties, TruncateLength
<1> HIDE DEF t
<1>7. Len(t) \in Nat /\ Len(t) # 0
  <2>1. Len(t) \in Nat
    BY <1>6
  <2>2. ASSUME Len(t) = 0 PROVE FALSE
    <3>1. Number(t) \in 0..Span(0) - 1 /\ Span(0) = 1
      BY <1>6, <2>2, NumberBounds, SpanStep
    <3> QED BY <1>6, <3>1
  <2> QED BY <2>1, <2>2
<1>8. t[1] # 0
  BY <1>6, <1>7, EmptySeq
<1> QED BY <1>6, <1>7, <1>8 DEF b, t, size_to_bytes, LengthBytes

(* EncodeVector writes a list that is read back.                             *)
LEMMA EncodeVectorIs ==
  ASSUME NEW n \in Nat \ {0}, NEW K \in Nat, n * K < Span(MaxLengthBytes),
         SizeWidth >= MaxLengthBytes,
         NEW c, NEW s \in Seq(Seq(Byte)), Len(s) = n,
         \A i \in 1..n : EncodesString(s[i], c[i], K)
  PROVE  /\ EncodeVector(s) \in Seq(Byte)
         /\ StringLists(EncodeVector(s)) = {[i \in 1..n |-> AsRead(c[i])]}
<1> DEFINE e == FlattenSeq(s)
           L == Len(e)
           v == EncodeVector(s)
<1>1. e \in Seq(Byte) /\ L <= n * K /\ Encoded(e, c, n)
  <2>1. s # <<>>
    BY EmptySeq
  <2>2. PICK u : Joined(u, s) /\ FlattenSeq(s) = u[Len(s)]
    BY <2>1, FlattenUnfolds
  <2> HIDE DEF e
  <2>3. e = u[n]
    BY <2>2 DEF e
  <2>4. u[n] \in Seq(Byte) /\ Len(u[n]) <= n * K /\ Encoded(u[n], c, n)
    BY <2>2, JoinedStrings
  <2> QED BY <2>3, <2>4
<1>2. \A i \in 1..n : c[i] \in Seq(Byte)
  BY DEF EncodesString
<1> HIDE DEF e
<1>3. L \in Nat /\ L < Span(MaxLengthBytes)
  <2>1. n * K \in Nat /\ Span(MaxLengthBytes) \in Nat
    BY SpanStep DEF MaxLengthBytes
  <2>2. L \in Nat
    BY <1>1
  <2> HIDE DEF L
  <2> DEFINE x == n * K
  <2>3. x \in Nat /\ L <= x /\ x < Span(MaxLengthBytes)
    BY <1>1, <2>1 DEF L
  <2> HIDE DEF x
  <2> QED BY <2>1, <2>2, <2>3
<1>4. PICK head : head \in Seq(Byte) /\ v = head \o e /\ StartsWith(head \o e \o <<>>, "list", e, <<>>)
  <2>1. <<>> \in Seq(Byte)
    BY EmptySeq
  <2>2. CASE L <= 55
    <3> DEFINE x == 192 + L
               head == <<x>>
    <3>1. v = head \o e
      BY <2>2 DEF EncodeVector, RLP_LENGTH_THRESHOLD, RLP_OFFSET_ARRAY_SHORT, e
    <3>2. StartsWith(<<192 + Len(e)>> \o e \o <<>>, "list", e, <<>>)
      BY <1>1, <2>1, <2>2, ShortList
    <3>3. x \in Byte
      <4> HIDE DEF L
      <4> QED BY <1>3, <2>2 DEF Byte
    <3>4. head \in Seq(Byte)
      <4> HIDE DEF x
      <4> QED BY <3>3
    <3> HIDE DEF v
    <3> QED BY <3>1, <3>2, <3>4
  <2>3. CASE ~(L <= 55)
    <3> DEFINE t == size_to_bytes(L)
               x == 247 + Len(t)
               head == <<x>> \o t
    <3>1. L \in Nat \ {0} /\ L > 55
      <4> HIDE DEF L
      <4> QED BY <1>3, <2>3
    <3>2. LengthBytes(L, t)
      <4> HIDE DEF L
      <4> QED BY <1>3, <3>1, ShortestLength
    <3>3. t \in Seq(Byte) /\ Len(t) \in Nat /\ Len(t) <= 3
      <4> HIDE DEF t, L
      <4> QED BY <3>2 DEF LengthBytes, MaxLengthBytes
    <3>4. v = <<x>> \o t \o e
      BY <2>3 DEF EncodeVector, RLP_LENGTH_THRESHOLD, RLP_OFFSET_ARRAY_LONG, e
    <3> HIDE DEF t, v
    <3>5. StartsWith((<<247 + Len(t)>> \o t) \o e \o <<>>, "list", e, <<>>)
      BY <1>1, <2>1, <3>1, <3>2, LongList
    <3>6. x \in Byte
      <4> DEFINE m == Len(t)
      <4>1. m \in Nat /\ m <= 3
        BY <3>3
      <4> HIDE DEF m
      <4>2. 247 + m \in 0..255
        BY <4>1
      <4> QED BY <4>2 DEF Byte, m
    <3>7. head \in Seq(Byte)
      <4>1. <<x>> \in Seq(Byte)
        <5> HIDE DEF x
        <5> QED BY <3>6
      <4> HIDE DEF x
      <4> QED BY <3>3, <4>1, TwoParts
    <3> QED BY <3>4, <3>5, <3>7
  <2> QED BY <2>2, <2>3
<1> HIDE DEF v
<1>5. v \in Seq(Byte) /\ v \o <<>> = v
  <2>1. v \in Seq(Byte)
    BY <1>1, <1>4, TwoParts
  <2> QED BY <2>1, ConcatEmptySeq
<1>6. StartsWith(v, "list", e, <<>>)
  BY <1>4, <1>5
<1>7. StringLists(v) = {[i \in 1..n |-> AsRead(c[i])]}
  BY <1>1, <1>2, <1>5, <1>6, ListIsRead
<1> QED BY <1>5, <1>7 DEF v

-----------------------------------------------------------------------------
(* The pipeline.                                                             *)

(* The number of words of two bytes.                                         *)
LEMMA WordSize == 256 * 256 = 65536
BY SMT

(* A word of two bytes is made of them.                                      *)
LEMMA BytesOfWord ==
  ASSUME NEW w \in Nat, w < 65536
  PROVE  w \div 256 \in 0..255 /\ w % 256 \in 0..255 /\ w = 256 * (w \div 256) + (w % 256)
<1> DEFINE h == w \div 256
           l == w % 256
<1>1. 256 \in Nat \ {0}
  BY SMT
<1>2. h \in Nat /\ l \in 0..256 - 1 /\ w = 256 * h + l
  BY <1>1, DivMod
<1> HIDE DEF h, l
<1>3. h < 256
  BY <1>2
<1>4. l \in 0..255
  BY <1>2
<1>5. h \in 0..255
  BY <1>2, <1>3
<1> QED BY <1>2, <1>4, <1>5 DEF h, l

(* Two bytes for each word.                                                  *)
LEMMA BytesOfWords ==
  ASSUME NEW words \in Seq(0..Span(2) - 1)
  PROVE  /\ Bytes(words) \in Seq(Byte) /\ Len(Bytes(words)) = 2 * Len(words)
         /\ \A k \in 1..Len(words) : /\ Bytes(words)[2 * k - 1] = words[k] \div 256
                                     /\ Bytes(words)[2 * k] = words[k] % 256
<1> DEFINE n == Len(words)
           d(i) == IF i % 2 = 1 THEN words[(i + 1) \div 2] \div 256 ELSE words[i \div 2] % 256
           b == Bytes(words)
           W == Span(2)
<1>1. W = 256 * 256
  BY SpanStep, 0 + 1 = 1, 1 + 1 = 2
<1> HIDE DEF W
<1>2. n \in Nat /\ \A k \in 1..n : words[k] \in 0..W - 1
  BY <1>1, ElementOfSeq DEF W
<1>3. b = [i \in 1..2 * n |-> d(i)]
  BY DEF Bytes
<1> HIDE DEF n, b
<1>4. \A k \in 1..n : words[k] \div 256 \in 0..255 /\ words[k] % 256 \in 0..255
  <2> TAKE k \in 1..n
  <2> DEFINE w == words[k]
  <2>1. w \in 0..W - 1
    BY <1>2
  <2> HIDE DEF w
  <2>2. w \div 256 \in 0..255 /\ w % 256 \in 0..255
    <3>1. W = 65536
      BY <1>1, WordSize
    <3>2. W \in Nat
      BY <3>1
    <3>3. w \in Nat /\ w < W
      BY <2>1, <3>2
    <3>4. w < 65536
      BY <3>1, <3>3
    <3> QED BY <3>3, <3>4, BytesOfWord
  <2> QED BY <2>2 DEF w
<1>5. ASSUME NEW i \in 1..2 * n PROVE d(i) \in Byte
  <2>1. CASE i % 2 = 1
    <3>1. (i + 1) \div 2 \in 1..n
      BY <1>2, <2>1
    <3> QED BY <1>4, <2>1, <3>1 DEF Byte
  <2>2. CASE i % 2 # 1
    <3>1. i \div 2 \in 1..n
      BY <1>2, <2>2
    <3> QED BY <1>4, <2>2, <3>1 DEF Byte
  <2> QED BY <2>1, <2>2
<1>6. b \in Seq(Byte) /\ Len(b) = 2 * n
  <2>1. 2 * n \in Nat
    BY <1>2
  <2> HIDE DEF d
  <2> QED BY <1>3, <1>5, <2>1
<1>7. ASSUME NEW k \in 1..n PROVE b[2 * k - 1] = words[k] \div 256 /\ b[2 * k] = words[k] % 256
  <2>1. /\ 2 * k - 1 \in 1..2 * n /\ (2 * k - 1) % 2 = 1 /\ ((2 * k - 1) + 1) \div 2 = k
        /\ 2 * k \in 1..2 * n /\ (2 * k) % 2 # 1 /\ (2 * k) \div 2 = k
    BY <1>2
  <2>2. b[2 * k - 1] = d(2 * k - 1) /\ b[2 * k] = d(2 * k)
    <3> HIDE DEF d
    <3> QED BY <1>3, <2>1
  <2>3. d(2 * k - 1) = words[k] \div 256 /\ d(2 * k) = words[k] % 256
    BY <2>1
  <2> QED BY <2>2, <2>3
<1> QED BY <1>6, <1>7 DEF b, n

(* They are worth as much as the words.                                      *)
LEMMA WordsAreKept ==
  ASSUME NEW words \in Seq(0..Span(2) - 1)
  PROVE  Number(Bytes(words)) = Word16(words) /\ Number(Bytes(words)) \in Nat
<1> DEFINE n == Len(words)
           b == Bytes(words)
           W == Span(2)
<1>1. W = 256 * 256
  BY SpanStep, 0 + 1 = 1, 1 + 1 = 2
<1> HIDE DEF W
<1>2. n \in Nat /\ words \in Seq(Nat) /\ \A k \in 1..n : words[k] \in 0..W - 1
  BY <1>1, ElementOfSeq DEF W
<1>3. /\ b \in Seq(Byte) /\ Len(b) = 2 * n
      /\ \A k \in 1..n : b[2 * k - 1] = words[k] \div 256 /\ b[2 * k] = words[k] % 256
  BY BytesOfWords
<1> HIDE DEF b, n
<1>4. b \in Seq(Nat)
  BY <1>3, ByteSequence
<1>5. PICK u : PartialValues(u, 256, b)
  <2>1. 256 \in Nat
    OBVIOUS
  <2> QED BY <1>4, <2>1, DigitsUnfold
<1>6. PICK w : PartialValues(w, W, words)
  <2>1. W \in Nat
    BY <1>1
  <2> QED BY <1>2, <2>1, DigitsUnfold
<1>7. Digits(256, b) = u[2 * n] /\ Digits(W, words) = w[n] /\ Digits(256, b) \in Nat
  <2>1. 256 \in Nat /\ W \in Nat
    BY <1>1
  <2>2. Digits(256, b) = u[Len(b)] /\ Digits(256, b) \in Nat
    BY <1>4, <1>5, <2>1, DigitsAre
  <2>3. Digits(W, words) = w[Len(words)]
    BY <1>2, <1>6, <2>1, DigitsAre
  <2> QED BY <1>3, <2>2, <2>3 DEF n
<1>8. /\ u \in [0..2 * n -> Nat] /\ u[0] = 0
      /\ \A i \in 1..2 * n : u[i] = 256 * u[i - 1] + b[i]
  BY <1>3, <1>5 DEF PartialValues
<1>9. /\ w \in [0..n -> Nat] /\ w[0] = 0
      /\ \A i \in 1..n : w[i] = W * w[i - 1] + words[i]
  BY <1>6 DEF PartialValues, n
<1> DEFINE T == {k \in Nat : k <= n => u[2 * k] = w[k]}
<1>10. 0 \in T
  BY <1>8, <1>9, 2 * 0 = 0
<1>11. ASSUME NEW k \in Nat, k \in T PROVE k + 1 \in T
  <2> SUFFICES ASSUME k + 1 <= n PROVE u[2 * (k + 1)] = w[k + 1]
    OBVIOUS
  <2>1. /\ 2 * k + 1 \in 1..2 * n /\ 2 * (k + 1) \in 1..2 * n /\ k + 1 \in 1..n /\ k <= n
        /\ (2 * k + 1) - 1 = 2 * k /\ 2 * (k + 1) - 1 = 2 * k + 1 /\ (k + 1) - 1 = k
        /\ 2 * k \in 0..2 * n /\ k \in 0..n
    BY <1>2
  <2>2. u[2 * k] = w[k]
    BY <1>11, <2>1
  <2> DEFINE x == w[k]
             y == words[k + 1]
             h == y \div 256
             l == y % 256
  <2>3. x \in Nat /\ y \in 0..W - 1
    BY <1>2, <1>9, <2>1
  <2>4. b[2 * k + 1] = h /\ b[2 * (k + 1)] = l
    BY <1>3, <2>1
  <2>5. u[2 * k + 1] = 256 * x + h
    BY <1>8, <2>1, <2>2, <2>4
  <2>6. u[2 * (k + 1)] = 256 * (256 * x + h) + l
    BY <1>8, <2>1, <2>4, <2>5
  <2>7. w[k + 1] = W * x + y
    BY <1>9, <2>1
  <2> HIDE DEF x, y
  <2>8. h \in Nat /\ l \in Nat /\ y = 256 * h + l
    <3>1. W = 65536
      BY <1>1, WordSize
    <3>2. W \in Nat
      BY <3>1
    <3>3. y \in Nat /\ y < W
      BY <2>3, <3>2
    <3>4. y < 65536
      BY <3>1, <3>3
    <3>5. h \in 0..255 /\ l \in 0..255 /\ y = 256 * h + l
      BY <3>3, <3>4, BytesOfWord
    <3> HIDE DEF h, l
    <3> QED BY <3>5
  <2> HIDE DEF h, l
  <2>9. 256 * (256 * x + h) + l = W * x + y
    <3>1. W * x = 256 * (256 * x)
      <4>1. (256 * 256) * x = 256 * (256 * x)
        BY <2>3
      <4> QED BY <1>1, <4>1, Zenon
    <3>2. x \in Nat
      BY <2>3
    <3> DEFINE z == W * x
    <3> HIDE DEF z
    <3>3. 256 * (256 * x + h) + l = z + y
      BY <2>8, <3>1, <3>2 DEF z
    <3> QED BY <3>3 DEF z
  <2> QED BY <2>6, <2>7, <2>9
<1>12. n \in T
  <2> HIDE DEF T
  <2> QED BY <1>2, <1>10, <1>11, NatInduct
<1>13. u[2 * n] = w[n]
  BY <1>2, <1>12
<1> QED BY <1>7, <1>13 DEF b, W, Number, Word16

(* The nine fields of a transaction, with d for its data.                    *)
Fields(p, d, sig) ==
  << uint_to_bytes(p.nonce), truncate(Bytes(p.gasPrice)), uint_to_bytes(p.gasLimit),
     p.address, truncate(Bytes(p.value)), d, uint_to_bytes(sig.v), sig.r, sig.s >>

(* A field that may be sent as it is, and one that reads as it was.          *)
IsField(c) == c \in Seq(Byte) /\ Len(c) <= MaxData

IsKept(c) == IsField(c) /\ c # <<0>>

(* v fits in a uint32_t; r and s have up to 32 bytes, the first not zero.    *)
IsSignature(sig) ==
  /\ sig.v \in 0..Span(UintWidth) - 1
  /\ \A h \in {sig.r, sig.s} : h \in Seq(Byte) /\ Len(h) <= 32 /\ IsInteger(h)

(* Nine fields of a megabyte still have a length of three bytes.             *)
LEMMA DataSizes ==
  /\ MaxData \in Nat /\ MaxData < Span(MaxLengthBytes) /\ MaxData >= 64
  /\ 9 * (MaxData + 4) < Span(MaxLengthBytes)
<1> DEFINE W == Span(2)
<1>1. W = 256 * 256
  BY SpanStep, 0 + 1 = 1, 1 + 1 = 2
<1>2. Span(MaxLengthBytes) = 256 * W
  BY SpanStep, 2 + 1 = 3 DEF MaxLengthBytes
<1>3. MaxData = 16 * W
  BY DEF MaxData
<1> HIDE DEF W
<1> QED BY <1>1, <1>2, <1>3

(* A number of uint32_t takes up to four bytes and keeps its value.          *)
LEMMA UintField ==
  ASSUME NEW v \in 0..Span(UintWidth) - 1
  PROVE  /\ IsKept(uint_to_bytes(v)) /\ IsInteger(uint_to_bytes(v))
         /\ Number(uint_to_bytes(v)) = v
<1> DEFINE b == BigEndian(v, UintWidth)
           t == truncate(b)
<1>1. UintWidth \in Nat /\ UintWidth <= 4
  BY WidthAssumption, TransactionAssumption
<1>2. v \in Nat /\ v < Span(UintWidth)
  BY <1>1, SpanStep
<1>3. b \in Seq(Byte) /\ Len(b) = UintWidth /\ Number(b) = v
  BY <1>1, <1>2, BigEndianProperties
<1> HIDE DEF b
<1>4. t \in Seq(Byte) /\ Len(t) <= Len(b) /\ (t = <<>> \/ t[1] # 0) /\ Number(t) = v
  BY <1>3, TruncateProperties
<1> HIDE DEF t
<1>5. Len(t) \in Nat /\ Len(t) <= MaxData
  BY <1>1, <1>3, <1>4, DataSizes
<1>6. t # <<0>>
  BY <1>4
<1> QED BY <1>4, <1>5, <1>6 DEF b, t, uint_to_bytes, IsKept, IsField, IsInteger

(* So does an amount, without its leading zeros.                             *)
LEMMA AmountField ==
  ASSUME NEW words \in Seq(0..Span(2) - 1), Len(words) <= 16
  PROVE  /\ IsKept(truncate(Bytes(words))) /\ IsInteger(truncate(Bytes(words)))
         /\ Number(truncate(Bytes(words))) = Word16(words)
<1> DEFINE b == Bytes(words)
           t == truncate(b)
<1>1. b \in Seq(Byte) /\ Len(b) = 2 * Len(words) /\ Number(b) = Word16(words)
  BY BytesOfWords, WordsAreKept
<1>2. Len(words) \in Nat
  OBVIOUS
<1> HIDE DEF b
<1>3. t \in Seq(Byte) /\ Len(t) <= Len(b) /\ (t = <<>> \/ t[1] # 0) /\ Number(t) = Number(b)
  BY <1>1, TruncateProperties
<1> HIDE DEF t
<1>4. Len(t) \in Nat /\ Len(t) <= MaxData
  BY <1>1, <1>2, <1>3, DataSizes
<1>5. t # <<0>>
  BY <1>3
<1> QED BY <1>1, <1>3, <1>4, <1>5 DEF b, t, IsKept, IsField, IsInteger

(* So do r and s.                                                            *)
LEMMA HalfField ==
  ASSUME NEW h \in Seq(Byte), Len(h) <= 32
  PROVE  /\ truncate(h) \in Seq(Byte) /\ Len(truncate(h)) <= 32 /\ IsInteger(truncate(h))
<1> DEFINE t == truncate(h)
<1>1. Len(h) \in Nat /\ t \in Seq(Byte) /\ Len(t) <= Len(h) /\ (t = <<>> \/ t[1] # 0)
  BY TruncateProperties
<1> HIDE DEF t
<1>2. Len(t) \in Nat /\ Len(t) <= 32
  BY <1>1
<1> QED BY <1>1, <1>2 DEF t, IsInteger

(* A half is never the single byte 0.                                        *)
LEMMA KeptHalf ==
  ASSUME NEW h \in Seq(Byte), Len(h) <= 32, IsInteger(h)
  PROVE  IsKept(h)
<1>1. Len(h) \in Nat /\ Len(h) <= MaxData
  BY DataSizes
<1>2. h # <<0>>
  BY EmptySeq DEF IsInteger
<1> QED BY <1>1, <1>2 DEF IsKept, IsField

(* What is known of the properties of a transaction.                         *)
LEMMA PropertiesAre ==
  ASSUME NEW p \in Properties
  PROVE  /\ p.nonce \in 0..Span(UintWidth) - 1
         /\ p.gasLimit \in 0..Span(UintWidth) - 1
         /\ p.gasPrice \in Seq(0..Span(2) - 1) /\ Len(p.gasPrice) <= 16
         /\ p.value \in Seq(0..Span(2) - 1) /\ Len(p.value) <= 16
         /\ IsKept(p.address) /\ Len(p.address) = 20
         /\ IsField(p.data)
<1>1. p.address \in Seq(Byte) /\ Len(p.address) = 20 /\ p.data \in Seq(Byte) /\ Len(p.data) <= MaxData
  BY TransactionAssumption
<1>2. p.address # <<0>>
  <2>1. Len(<<0>>) = 1 /\ 20 # 1
    OBVIOUS
  <2> QED BY <1>1, <2>1, Zenon
<1>3. Len(p.address) <= MaxData
  BY <1>1, DataSizes
<1>4. \A words \in {p.gasPrice, p.value} : words \in Seq(0..Span(2) - 1) /\ Len(words) <= 16
  BY TransactionAssumption
<1>5. p.nonce \in 0..Span(UintWidth) - 1 /\ p.gasLimit \in 0..Span(UintWidth) - 1
  BY TransactionAssumption
<1> QED BY <1>1, <1>2, <1>3, <1>4, <1>5 DEF IsKept, IsField

(* Serialize writes these fields, and the reader finds them.                 *)
LEMMA SerializeIs ==
  ASSUME NEW p \in Properties, NEW sig, IsSignature(sig)
  PROVE  /\ Serialize(p, sig) \in Seq(Byte)
         /\ StringLists(Serialize(p, sig)) = {Fields(p, AsRead(p.data), sig)}
<1> DEFINE c == Fields(p, p.data, sig)
           e == [i \in 1..9 |-> EncodeBytes(c[i])]
           K == MaxData + 4
<1>1. Serialize(p, sig) = EncodeVector(e)
  BY DEF Serialize, Fields
<1>2. /\ IsKept(c[1]) /\ IsKept(c[2]) /\ IsKept(c[3]) /\ IsKept(c[4]) /\ IsKept(c[5])
      /\ IsField(c[6]) /\ IsKept(c[7]) /\ IsKept(c[8]) /\ IsKept(c[9])
  <2>1. IsKept(uint_to_bytes(p.nonce)) /\ IsKept(uint_to_bytes(p.gasLimit)) /\ IsKept(uint_to_bytes(sig.v))
    BY PropertiesAre, UintField DEF IsSignature
  <2>2. IsKept(truncate(Bytes(p.gasPrice))) /\ IsKept(truncate(Bytes(p.value)))
    BY PropertiesAre, AmountField
  <2>3. IsKept(sig.r) /\ IsKept(sig.s)
    BY KeptHalf DEF IsSignature
  <2>4. IsKept(p.address) /\ IsField(p.data)
    BY PropertiesAre
  <2> QED BY <2>1, <2>2, <2>3, <2>4 DEF Fields
<1>3. \A i \in 1..9 : IsField(c[i]) /\ (i # 6 => AsRead(c[i]) = c[i])
  <2> HIDE DEF c
  <2>1. \A i \in 1..9 : i \in {1, 2, 3, 4, 5, 6, 7, 8, 9}
    OBVIOUS
  <2>2. \A i \in 1..9 : IsField(c[i]) /\ (i # 6 => IsKept(c[i]))
    BY <1>2, <2>1 DEF IsKept
  <2> QED BY <2>2 DEF IsKept, AsRead
<1>4. K \in Nat /\ SizeWidth >= MaxLengthBytes /\ 9 * K < Span(MaxLengthBytes)
  BY DataSizes, TransactionAssumption
<1>5. \A i \in 1..9 : EncodesString(EncodeBytes(c[i]), c[i], K)
  <2> TAKE i \in 1..9
  <2> DEFINE x == c[i]
             b == EncodeBytes(x)
  <2>1. x \in Seq(Byte) /\ Len(x) <= MaxData
    BY <1>3 DEF IsField
  <2> HIDE DEF x
  <2>2. Len(x) \in Nat /\ Span(MaxLengthBytes) \in Nat
    BY <2>1, SpanStep DEF MaxLengthBytes
  <2>3. Len(x) < Span(MaxLengthBytes)
    BY <2>1, <2>2, DataSizes
  <2>4. /\ b \in Seq(Byte) /\ Len(b) <= Len(x) + 4
        /\ \A rest \in Seq(Byte) : StartsWith(b \o rest, "string", AsRead(x), rest)
    BY <1>4, <2>1, <2>3, EncodeBytesIs
  <2> HIDE DEF b
  <2>5. Len(b) <= K
    <3>1. Len(b) \in Nat
      BY <2>4
    <3> QED BY <2>1, <2>2, <2>4, <3>1, DataSizes
  <2>6. EncodesString(b, x, K)
    BY <2>1, <2>4, <2>5 DEF EncodesString
  <2> QED BY <2>6 DEF b, x
<1>6. e \in Seq(Seq(Byte)) /\ Len(e) = 9 /\ \A i \in 1..9 : EncodesString(e[i], c[i], K)
  <2> DEFINE V == Seq(Byte)
  <2> HIDE DEF c, K
  <2>1. \A i \in 1..9 : EncodeBytes(c[i]) \in V
    BY <1>5 DEF EncodesString
  <2> HIDE DEF V
  <2>2. e \in Seq(V) /\ Len(e) = 9
    BY <2>1
  <2>3. \A i \in 1..9 : e[i] = EncodeBytes(c[i])
    OBVIOUS
  <2> HIDE DEF e
  <2> QED BY <1>5, <2>2, <2>3 DEF V
<1> HIDE DEF c, e, K
<1>7. /\ EncodeVector(e) \in Seq(Byte)
      /\ StringLists(EncodeVector(e)) = {[i \in 1..9 |-> AsRead(c[i])]}
  <2>1. 9 \in Nat \ {0}
    OBVIOUS
  <2> QED BY <1>4, <1>6, <2>1, EncodeVectorIs
<1>8. [i \in 1..9 |-> AsRead(c[i])] = Fields(p, AsRead(p.data), sig)
  <2> DEFINE f == Fields(p, AsRead(p.data), sig)
  <2>1. f = [i \in 1..9 |-> f[i]]
    BY DEF Fields
  <2>2. \A i \in 1..9 : f[i] = IF i = 6 THEN AsRead(c[6]) ELSE c[i]
    BY DEF c, Fields
  <2> HIDE DEF f
  <2>3. \A i \in 1..9 : f[i] = AsRead(c[i])
    BY <1>3, <2>2
  <2>4. [i \in 1..9 |-> AsRead(c[i])] = [i \in 1..9 |-> f[i]]
    BY <2>3
  <2> QED BY <2>1, <2>4 DEF f
<1> QED BY <1>1, <1>7, <1>8

-----------------------------------------------------------------------------
(* What is done decides what is known.                                       *)
IdKnown == id = IF pc = "new" THEN 0 ELSE IdOf(chain)

DigestKnown == digest = IF pc \in {"new", "unsigned"} THEN <<>> ELSE Serialize(tx, Unsigned(id))

SignatureKnown ==
  IF pc \in {"signed", "sent"}
  THEN /\ pby \in {0, 1}
       /\ \E r, s \in Halves : signature = [v |-> RecoveryValue(pby, id),
                                            r |-> truncate(r), s |-> truncate(s)]
  ELSE signature = NoSignature

RawKnown == raw = IF pc = "sent" THEN Serialize(tx, signature) ELSE <<>>

(* The inductive invariant.                                                  *)
Known ==
  /\ pc \in {"new", "unsigned", "hashed", "signed", "sent"}
  /\ chain \in OwnChains /\ tx \in Properties /\ key \in Keys
  /\ IdKnown /\ DigestKnown /\ SignatureKnown /\ RawKnown

(* It holds at first.                                                        *)
LEMMA KnownAtFirst == Init => Known
BY DEF Init, Known, IdKnown, DigestKnown, SignatureKnown, RawKnown

(* Every step keeps it.                                                      *)
LEMMA KnownAfterwards == Known /\ [Next]_vars => Known'
<1> USE DEF Known, IdKnown, DigestKnown, SignatureKnown, RawKnown
<1> SUFFICES ASSUME Known, [Next]_vars PROVE Known'
  OBVIOUS
<1>1. CASE LoadChainId
  BY <1>1 DEF LoadChainId
<1>2. CASE Hash
  BY <1>2 DEF Hash
<1>3. CASE Sign
  BY <1>3 DEF Sign
<1>4. CASE Send
  BY <1>4 DEF Send
<1>5. CASE UNCHANGED vars
  BY <1>5 DEF vars
<1> QED BY <1>1, <1>2, <1>3, <1>4, <1>5 DEF Next

(* So it holds throughout.                                                   *)
THEOREM StagesAreKnown == Spec => []Known
<1>1. Init => Known
  BY KnownAtFirst
<1>2. Known /\ [Next]_vars => Known'
  BY KnownAfterwards
<1> QED BY <1>1, <1>2, PTL DEF Spec

(* What a uint32_t holds.                                                    *)
LEMMA UintRange ==
  /\ Span(UintWidth) \in Nat \ {0}
  /\ \A v \in Nat : AsUint(v) \in 0..Span(UintWidth) - 1 /\ (v < Span(UintWidth) => AsUint(v) = v)
<1> DEFINE W == Span(UintWidth)
<1>1. W \in Nat \ {0}
  BY WidthAssumption, SpanStep
<1> HIDE DEF W
<1>2. \A v \in Nat : v % W \in 0..W - 1
  BY <1>1, DivMod
<1>3. \A v \in Nat : v < W => v % W = v
  <2> SUFFICES ASSUME NEW v \in Nat, v < W PROVE v % W = v
    OBVIOUS
  <2>1. v = W * 0 + v /\ v \in 0..W - 1 /\ 0 \in Int
    BY <1>1
  <2> QED BY <1>1, <2>1, DivUnique
<1> QED BY <1>1, <1>2, <1>3 DEF AsUint, W

(* The id and the recovery value are numbers of uint32_t.                    *)
LEMMA IdsAreUint ==
  ASSUME chain \in OwnChains
  PROVE  /\ IdOf(chain) \in 0..Span(UintWidth) - 1
         /\ \A recid \in {0, 1} : RecoveryValue(recid, IdOf(chain)) \in 0..Span(UintWidth) - 1
<1>1. (IF chain > LongMax THEN LongMax ELSE chain) \in Nat
  BY TransactionAssumption
<1>2. IdOf(chain) \in 0..Span(UintWidth) - 1
  BY <1>1, UintRange DEF IdOf
<1>3. IdOf(chain) \in Nat
  BY <1>2, UintRange
<1>4. \A recid \in {0, 1} : recid + IdOf(chain) * 2 + 35 \in Nat
  BY <1>3
<1> QED BY <1>2, <1>4, UintRange DEF RecoveryValue

(* Where they fit, they are those of the chain.                              *)
LEMMA IdsAreExact ==
  ASSUME chain \in OwnChains, FitsUint
  PROVE  /\ IdOf(chain) = chain /\ chain \in Nat
         /\ \A recid \in {0, 1} : RecoveryValue(recid, IdOf(chain)) = recid + chain * 2 + 35
<1>1. chain \in Nat /\ LongMax \in Nat /\ chain * 2 + 36 < Span(UintWidth) /\ chain <= LongMax
  BY TransactionAssumption DEF FitsUint
<1>2. chain < Span(UintWidth) /\ Span(UintWidth) \in Nat
  BY <1>1, UintRange
<1>3. IdOf(chain) = chain
  BY <1>1, <1>2, UintRange DEF IdOf
<1>4. \A recid \in {0, 1} : recid + chain * 2 + 35 \in Nat /\ recid + chain * 2 + 35 < Span(UintWidth)
  BY <1>1, <1>2
<1> QED BY <1>1, <1>3, <1>4, UintRange DEF RecoveryValue

(* An unsigned transaction has a signature to serialise, too.                *)
LEMMA UnsignedIsSignature ==
  ASSUME NEW v \in 0..Span(UintWidth) - 1
  PROVE  IsSignature(Unsigned(v))
<1>1. <<>> \in Seq(Byte) /\ Len(<<>>) <= 32 /\ IsInteger(<<>>)
  BY EmptySeq DEF IsInteger
<1>2. Unsigned(v).v = v /\ Unsigned(v).r = <<>> /\ Unsigned(v).s = <<>>
  BY DEF Unsigned
<1> QED BY <1>1, <1>2 DEF IsSignature

(* So is the one that Sign attaches.                                         *)
LEMMA SignatureIsSignature ==
  ASSUME Known
  PROVE  IsSignature(signature)
<1>1. chain \in OwnChains
  BY DEF Known
<1>2. CASE pc \in {"signed", "sent"}
  <2>1. PICK r \in Halves, s \in Halves :
          pby \in {0, 1} /\ signature = [v |-> RecoveryValue(pby, id),
                                         r |-> truncate(r), s |-> truncate(s)]
    BY <1>2 DEF Known, SignatureKnown
  <2>2. id = IdOf(chain)
    BY <1>2 DEF Known, IdKnown
  <2>3. RecoveryValue(pby, id) \in 0..Span(UintWidth) - 1
    BY <1>1, <2>1, <2>2, IdsAreUint
  <2>4. \A h \in Halves : truncate(h) \in Seq(Byte) /\ Len(truncate(h)) <= 32 /\ IsInteger(truncate(h))
    BY TransactionAssumption, HalfField
  <2>5. signature.v = RecoveryValue(pby, id) /\ signature.r = truncate(r) /\ signature.s = truncate(s)
    BY <2>1
  <2> QED BY <2>3, <2>4, <2>5 DEF IsSignature
<1>3. CASE pc \notin {"signed", "sent"}
  <2>1. signature = Unsigned(0)
    BY <1>3 DEF Known, SignatureKnown, NoSignature
  <2>2. 0 \in 0..Span(UintWidth) - 1
    BY UintRange
  <2> QED BY <2>1, <2>2, UnsignedIsSignature
<1> QED BY <1>2, <1>3

(* The id always fits in its type.                                           *)
LEMMA IdIsUint ==
  ASSUME Known
  PROVE  id \in 0..Span(UintWidth) - 1
<1>1. chain \in OwnChains /\ id = IF pc = "new" THEN 0 ELSE IdOf(chain)
  BY DEF Known, IdKnown
<1>2. 0 \in 0..Span(UintWidth) - 1 /\ IdOf(chain) \in 0..Span(UintWidth) - 1
  BY <1>1, UintRange, IdsAreUint
<1> QED BY <1>1, <1>2

(* Nothing that is kept or sent is wider than its C++ type.                  *)
THEOREM TypesAreKept == Spec => []TypeOK
<1>1. Known => TypeOK
  <2> SUFFICES ASSUME Known PROVE TypeOK
    OBVIOUS
  <2>1. id \in 0..Span(UintWidth) - 1
    BY IdIsUint
  <2>2. IsSignature(signature) /\ IsSignature(Unsigned(id))
    BY <2>1, SignatureIsSignature, UnsignedIsSignature
  <2>3. tx \in Properties /\ pc \in {"new", "unsigned", "hashed", "signed", "sent"}
    BY DEF Known
  <2>4. \A b \in Seq(Byte) : \A i \in 1..Len(b) : b[i] \in Byte
    BY ByteSequence
  <2>5. <<>> \in Seq(Byte)
    BY EmptySeq
  <2>6. Serialize(tx, Unsigned(id)) \in Seq(Byte) /\ Serialize(tx, signature) \in Seq(Byte)
    BY <2>2, <2>3, SerializeIs
  <2>7. digest \in Seq(Byte) /\ raw \in Seq(Byte)
    BY <2>5, <2>6 DEF Known, DigestKnown, RawKnown
  <2>8. signature.r \in Seq(Byte) /\ signature.s \in Seq(Byte) /\ signature.v \in 0..Span(UintWidth) - 1
    BY <2>2 DEF IsSignature
  <2> QED BY <2>1, <2>3, <2>4, <2>7, <2>8 DEF TypeOK
<1> QED BY <1>1, StagesAreKnown, PTL

(* What every node finds in the bytes, when the recovery value fits: the     *)
(* nine fields, with the recovery value of the chain.                        *)
Sent(f) ==
  /\ Transactions = {f}
  /\ Number(f[7]) = pby + chain * 2 + 35
  /\ f = Fields(tx, AsRead(tx.data), signature)
  /\ StringLists(digest) = {Fields(tx, AsRead(tx.data), Unsigned(chain))}

(* That is what Serialize has made.                                          *)
LEMMA WhatIsSent ==
  ASSUME Known, pc = "sent", FitsUint
  PROVE  pby \in {0, 1} /\ chain \in Nat /\ Sent(Fields(tx, AsRead(tx.data), signature))
<1> DEFINE f == Fields(tx, AsRead(tx.data), signature)
<1>1. /\ tx \in Properties /\ chain \in OwnChains /\ id = IdOf(chain)
      /\ digest = Serialize(tx, Unsigned(id)) /\ raw = Serialize(tx, signature)
      /\ pby \in {0, 1} /\ signature.v = RecoveryValue(pby, id)
  <2>1. tx \in Properties /\ chain \in OwnChains
    BY DEF Known
  <2>2. id = IdOf(chain) /\ digest = Serialize(tx, Unsigned(id)) /\ raw = Serialize(tx, signature)
    BY DEF Known, IdKnown, DigestKnown, RawKnown
  <2>3. pby \in {0, 1} /\ signature.v = RecoveryValue(pby, id)
    BY DEF Known, SignatureKnown
  <2> QED BY <2>1, <2>2, <2>3
<1>2. id = chain /\ chain \in Nat /\ signature.v = pby + chain * 2 + 35
  BY <1>1, IdsAreExact
<1>3. IsSignature(signature) /\ IsSignature(Unsigned(id))
  BY IdIsUint, SignatureIsSignature, UnsignedIsSignature
<1>4. StringLists(raw) = {f} /\ StringLists(digest) = {Fields(tx, AsRead(tx.data), Unsigned(chain))}
  BY <1>1, <1>2, <1>3, SerializeIs
<1>5. Len(f) = 9 /\ f[7] = uint_to_bytes(signature.v) /\ f[4] = tx.address
  BY DEF Fields
<1>6. \A i \in {1, 2, 3, 5, 7, 8, 9} : IsInteger(f[i])
  <2>1. IsInteger(uint_to_bytes(tx.nonce)) /\ IsInteger(uint_to_bytes(tx.gasLimit))
    BY <1>1, PropertiesAre, UintField
  <2>2. IsInteger(truncate(Bytes(tx.gasPrice))) /\ IsInteger(truncate(Bytes(tx.value)))
    BY <1>1, PropertiesAre, AmountField
  <2>3. IsInteger(uint_to_bytes(signature.v)) /\ IsInteger(signature.r) /\ IsInteger(signature.s)
    BY <1>3, UintField DEF IsSignature
  <2> QED BY <2>1, <2>2, <2>3 DEF Fields
<1>7. Number(f[7]) = signature.v
  BY <1>3, <1>5, UintField DEF IsSignature
<1>8. Len(f[4]) \in {0, 20}
  BY <1>1, <1>5, PropertiesAre
<1> HIDE DEF f
<1>9. Transactions = {f}
  BY <1>4, <1>5, <1>6, <1>8 DEF Transactions
<1>10. Number(f[7]) = pby + chain * 2 + 35
  BY <1>2, <1>7
<1>11. Sent(f)
  BY <1>4, <1>9, <1>10 DEF Sent, f
<1> QED BY <1>1, <1>2, <1>11 DEF f

(* The recovery value says which chain and which recovery id.                *)
LEMMA RecoveryValueIsRead ==
  ASSUME NEW n \in Nat, NEW recid \in {0, 1}, NEW v, v = recid + n * 2 + 35
  PROVE  v \notin {27, 28} /\ (v - 35) \div 2 = n /\ (v - 35) % 2 = recid
<1>1. v - 35 = 2 * n + recid /\ v >= 35
  OBVIOUS
<1>2. (2 * n + recid) \div 2 = n /\ (2 * n + recid) % 2 = recid
  OBVIOUS
<1> QED BY <1>1, <1>2

(* What the device sends on one chain is nowhere else taken for a            *)
(* transaction of the sender.                                                *)
THEOREM NothingIsReplayed == Spec => []NoReplay
<1>1. Known => NoReplay
  <2> SUFFICES ASSUME Known, pc = "sent", FitsUint, NEW c \in Chains \ {chain},
                      NEW verdict \in Verdict(c)
               PROVE  verdict.sender # key
    BY DEF NoReplay
  <2> DEFINE f == Fields(tx, AsRead(tx.data), signature)
  <2>1. pby \in {0, 1} /\ chain \in Nat /\ Sent(f)
    BY WhatIsSent
  <2> HIDE DEF f
  <2>2. Number(f[7]) \notin {27, 28} /\ (Number(f[7]) - 35) \div 2 = chain
    BY <2>1, RecoveryValueIsRead DEF Sent
  <2>3. {g \in Transactions : \/ Number(g[7]) \in {27, 28}
                              \/ (Number(g[7]) - 35) \div 2 = c} = {}
    BY <2>1, <2>2 DEF Sent
  <2>4. Verdict(c) = {}
    BY <2>3 DEF Verdict
  <2> QED BY <2>4
<1> QED BY <1>1, StagesAreKnown, PTL

(* What the node reads is what the caller asked for.                         *)
LEMMA MeaningIsWanted ==
  ASSUME tx \in Properties, NEW d
  PROVE  Meaning(Fields(tx, d, signature)) = Wanted(d)
<1> DEFINE f == Fields(tx, d, signature)
<1>1. /\ f[1] = uint_to_bytes(tx.nonce) /\ f[2] = truncate(Bytes(tx.gasPrice))
      /\ f[3] = uint_to_bytes(tx.gasLimit) /\ f[4] = tx.address
      /\ f[5] = truncate(Bytes(tx.value)) /\ f[6] = d
  BY DEF Fields
<1> HIDE DEF f
<1>2. Number(f[1]) = tx.nonce /\ Number(f[3]) = tx.gasLimit
  BY <1>1, PropertiesAre, UintField
<1>3. Number(f[2]) = Word16(tx.gasPrice) /\ Number(f[5]) = Word16(tx.value)
  BY <1>1, PropertiesAre, AmountField
<1>4. Meaning(f) = Wanted(d)
  BY <1>1, <1>2, <1>3 DEF Meaning, Wanted
<1> QED BY <1>4 DEF f

(* The last three of nine fields are replaced.                               *)
LEMMA LastThree ==
  ASSUME NEW S, NEW x \in Seq(S), NEW y \in Seq(S), NEW z \in Seq(S),
         Len(x) = 9, Len(y) = 3, Len(z) = 9,
         \A i \in 1..6 : z[i] = x[i],
         z[7] = y[1] /\ z[8] = y[2] /\ z[9] = y[3]
  PROVE  SubSeq(x, 1, 6) \o y = z
<1> DEFINE h == SubSeq(x, 1, 6)
<1>1. h \in Seq(S) /\ Len(h) = 6 /\ \A i \in 1..6 : h[i] = x[i]
  <2>1. \A i \in 1..6 : x[i] \in S
    <3>1. \A i \in 1..6 : i \in 1..Len(x)
      OBVIOUS
    <3> QED BY <3>1, ElementOfSeq
  <2>2. /\ h \in Seq(S)
        /\ Len(h) = IF 1 <= 6 THEN 6 - 1 + 1 ELSE 0
        /\ \A i \in 1..6 - 1 + 1 : h[i] = x[1 + i - 1]
    BY <2>1, SubSeqProperties
  <2> HIDE DEF h
  <2> QED BY <2>2
<1> HIDE DEF h
<1> DEFINE j == h \o y
<1>2. /\ j \in Seq(S) /\ Len(j) = Len(h) + Len(y)
      /\ \A i \in 1..Len(h) + Len(y) : j[i] = IF i <= Len(h) THEN h[i] ELSE y[i - Len(h)]
  BY <1>1, ConcatProperties
<1> HIDE DEF j
<1>3. Len(j) = 9 /\ \A i \in 1..9 : j[i] = IF i <= 6 THEN h[i] ELSE y[i - 6]
  BY <1>1, <1>2
<1>4. ASSUME NEW i \in 1..9 PROVE j[i] = z[i]
  <2>1. CASE i <= 6
    BY <1>1, <1>3, <2>1
  <2>2. CASE ~(i <= 6)
    <3>1. i \in {7, 8, 9} /\ 7 - 6 = 1 /\ 8 - 6 = 2 /\ 9 - 6 = 3
      BY <2>2
    <3>2. j[7] = y[1] /\ j[8] = y[2] /\ j[9] = y[3]
      BY <1>3
    <3> QED BY <3>1, <3>2
  <2> QED BY <2>1, <2>2
<1>5. j = z
  BY <1>2, <1>3, <1>4, SeqEqual
<1> QED BY <1>5 DEF h, j

(* The node of the device's chain finds the sender.                          *)
LEMMA SenderIsFound ==
  ASSUME Known, pby \in {0, 1}, chain \in 0..Span(UintWidth) - 1, NEW f, Sent(f)
  PROVE  Recovered(f, <<uint_to_bytes(chain), <<>>, <<>>>>, pby) = key
<1> DEFINE x == Fields(tx, AsRead(tx.data), signature)
           z == Fields(tx, AsRead(tx.data), Unsigned(chain))
           y == <<uint_to_bytes(chain), <<>>, <<>>>>
           V == Seq(Byte)
<1>1. /\ tx.address \in V /\ AsRead(tx.data) \in V /\ signature.r \in V /\ signature.s \in V
      /\ \A v \in {tx.nonce, tx.gasLimit, signature.v, chain} : uint_to_bytes(v) \in V
      /\ \A words \in {tx.gasPrice, tx.value} : truncate(Bytes(words)) \in V
  <2>1. tx \in Properties /\ IsSignature(signature)
    BY SignatureIsSignature DEF Known
  <2>2. tx.address \in V /\ tx.data \in V
    BY <2>1, PropertiesAre DEF IsKept, IsField
  <2>3. AsRead(tx.data) \in V
    BY <2>2, EmptySeq DEF AsRead
  <2>4. \A v \in 0..Span(UintWidth) - 1 : uint_to_bytes(v) \in V
    BY UintField DEF IsKept, IsField
  <2>5. \A v \in {tx.nonce, tx.gasLimit, signature.v, chain} : v \in 0..Span(UintWidth) - 1
    BY <2>1, PropertiesAre DEF IsSignature
  <2>6. \A words \in {tx.gasPrice, tx.value} : truncate(Bytes(words)) \in V
    BY <2>1, PropertiesAre, AmountField DEF IsKept, IsField
  <2>7. signature.r \in V /\ signature.s \in V
    BY <2>1 DEF IsSignature
  <2> HIDE DEF V
  <2> QED BY <2>2, <2>3, <2>4, <2>5, <2>6, <2>7
<1>2. x \in Seq(V) /\ Len(x) = 9 /\ z \in Seq(V) /\ Len(z) = 9
  <2>1. <<>> \in V
    BY EmptySeq
  <2>2. Unsigned(chain).v = chain /\ Unsigned(chain).r = <<>> /\ Unsigned(chain).s = <<>>
    BY DEF Unsigned
  <2> HIDE DEF V
  <2> QED BY <1>1, <2>1, <2>2 DEF Fields
<1>3. y \in Seq(V) /\ Len(y) = 3
  <2>1. <<>> \in V
    BY EmptySeq
  <2> HIDE DEF V
  <2> QED BY <1>1, <2>1
<1>4. (\A i \in 1..6 : z[i] = x[i]) /\ z[7] = y[1] /\ z[8] = y[2] /\ z[9] = y[3]
  BY DEF Fields, Unsigned
<1> HIDE DEF V
<1>5. SubSeq(x, 1, 6) \o y = z
  <2> HIDE DEF x, y, z
  <2> QED BY <1>2, <1>3, <1>4, LastThree
<1>6. f = x /\ f[8] = signature.r /\ f[9] = signature.s /\ SubSeq(f, 1, 6) \o y = z
  <2>1. f = x
    BY DEF Sent
  <2>2. x[8] = signature.r /\ x[9] = signature.s
    BY DEF Fields
  <2> HIDE DEF x, y, z
  <2> QED BY <1>5, <2>1, <2>2
<1>7. StringLists(digest) = {SubSeq(f, 1, 6) \o <<uint_to_bytes(chain), <<>>, <<>>>>}
  BY <1>6 DEF Sent
<1> QED BY <1>6, <1>7 DEF Recovered

(* The node of the device's chain gets the sender and every value right.     *)
THEOREM TheNodeUnderstands == Spec => []AcceptedAsMeant
<1>1. Known => AcceptedAsMeant
  <2> SUFFICES ASSUME Known, pc = "sent", FitsUint
               PROVE  Verdict(chain) = {[sender |-> key, meaning |-> Wanted(AsRead(tx.data))]}
    BY DEF AcceptedAsMeant, AsRead
  <2> DEFINE f == Fields(tx, AsRead(tx.data), signature)
  <2>1. pby \in {0, 1} /\ chain \in Nat /\ Sent(f)
    BY WhatIsSent
  <2>2. Meaning(f) = Wanted(AsRead(tx.data))
    BY MeaningIsWanted DEF Known
  <2> HIDE DEF f
  <2> DEFINE v == Number(f[7])
  <2>3. v \notin {27, 28} /\ (v - 35) \div 2 = chain /\ (v - 35) % 2 = pby
    BY <2>1, RecoveryValueIsRead DEF Sent
  <2>4. Recovered(f, <<uint_to_bytes(chain), <<>>, <<>>>>, pby) = key
    <3>1. chain \in 0..Span(UintWidth) - 1
      BY <2>1, UintRange DEF FitsUint
    <3> QED BY <2>1, <3>1, SenderIsFound
  <2>5. {g \in Transactions : \/ Number(g[7]) \in {27, 28}
                              \/ (Number(g[7]) - 35) \div 2 = chain} = {f}
    BY <2>1, <2>3 DEF Sent
  <2> DEFINE answer(g) ==
       [sender |-> IF Number(g[7]) \in {27, 28}
                   THEN Recovered(g, <<>>, Number(g[7]) - 27)
                   ELSE Recovered(g, <<uint_to_bytes(chain), <<>>, <<>>>>,
                                  (Number(g[7]) - 35) % 2),
        meaning |-> Meaning(g)]
  <2>6. answer(f) = [sender |-> key, meaning |-> Wanted(AsRead(tx.data))]
    BY <2>2, <2>3, <2>4
  <2>7. Verdict(chain) = {answer(g) : g \in {f}}
    BY <2>5 DEF Verdict
  <2> HIDE DEF answer
  <2> QED BY <2>6, <2>7
<1> QED BY <1>1, StagesAreKnown, PTL
=============================================================================
