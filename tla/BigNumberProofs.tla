-------------------------- MODULE BigNumberProofs ---------------------------
(* A number keeps its value, for words of any even number of digits and      *)
(* numbers of any length: through its constructors, as bytes, and as text    *)
(* that is printed and read again.                                           *)
(*                                                                           *)
(* Words, bytes and hexadecimal digits are the same digits in groups of      *)
(* another length (Regrouped, in BytesProofs).  What is left is which piece  *)
(* of a text becomes which word, and that blanks and the prefix add nothing. *)
(*                                                                           *)
(* A decimal string is made by columns of sums.  Carrying and dropping zeros *)
(* leave their value alone (CarriedIs, RemovedZeros), so sums and products   *)
(* of strings are those of their numbers (AddStringsIs, MultiplyStringsIs),  *)
(* and a word times the base for every word behind it adds up to the number. *)
EXTENDS BigNumber, BytesProofs

(* The powers of sixteen, from one to the next.                              *)
LEMMA HexSpanStep ==
  /\ HexSpan(0) = 1
  /\ \A n \in Nat : HexSpan(n) \in Nat \ {0} /\ HexSpan(n + 1) = 16 * HexSpan(n)
<1>1. HexSpan(0) = 1
  BY PowerOfTwo DEF HexSpan
<1>2. ASSUME NEW n \in Nat PROVE HexSpan(n) \in Nat \ {0}
  BY PowerOfTwo, 4 * n \in Nat DEF HexSpan
<1>3. ASSUME NEW n \in Nat PROVE HexSpan(n + 1) = 16 * HexSpan(n)
  <2> DEFINE P(k) == 2^(4 * n + k)
  <2>1. \A k \in Nat : P(k) \in Nat /\ P(k + 1) = 2 * P(k)
    <3> TAKE k \in Nat
    <3>1. 4 * n + k \in Nat /\ (4 * n + k) + 1 = 4 * n + (k + 1)
      OBVIOUS
    <3> QED BY <3>1, PowerOfTwo
  <2>2. P(0) = HexSpan(n) /\ P(4) = HexSpan(n + 1)
    <3>1. 4 * n + 0 = 4 * n /\ 4 * n + 4 = 4 * (n + 1)
      OBVIOUS
    <3> QED BY <3>1 DEF HexSpan
  <2> HIDE DEF P
  <2>3. P(1) = 2 * P(0) /\ P(2) = 2 * P(1) /\ P(3) = 2 * P(2) /\ P(4) = 2 * P(3)
    BY <2>1, P(0 + 1) = 2 * P(0), P(1 + 1) = 2 * P(1), P(2 + 1) = 2 * P(2), P(3 + 1) = 2 * P(3)
  <2>4. P(0) \in Nat
    BY <2>1
  <2> QED BY <2>2, <2>3, <2>4
<1> QED BY <1>1, <1>2, <1>3

(* They are the powers of sixteen; two digits make a byte.                   *)
LEMMA HexSpansArePowers ==
  /\ Powers([n \in Nat |-> HexSpan(n)], 16)
  /\ \A n \in Nat : Span(n) = HexSpan(2 * n)
<1>1. Powers([n \in Nat |-> HexSpan(n)], 16)
  BY HexSpanStep DEF Powers
<1>2. ASSUME NEW n \in Nat PROVE Span(n) = HexSpan(2 * n)
  <2>1. 8 * n = 4 * (2 * n)
    OBVIOUS
  <2> QED BY <2>1 DEF Span, HexSpan
<1> QED BY <1>1, <1>2

(* A word.                                                                   *)
LEMMA WordBaseIs ==
  /\ WordDigits \in Nat \ {0} /\ WordDigits >= 2
  /\ WordDigits \div 2 \in Nat \ {0} /\ 2 * (WordDigits \div 2) = WordDigits
  /\ WordBase \in Nat \ {0} /\ WordBase = Span(WordDigits \div 2)
<1>1. WordDigits \in Nat \ {0} /\ WordDigits % 2 = 0
  BY WordAssumption
<1>2. WordDigits >= 2 /\ WordDigits \div 2 \in Nat \ {0} /\ 2 * (WordDigits \div 2) = WordDigits
  BY <1>1
<1>3. WordBase \in Nat \ {0}
  BY <1>1, HexSpanStep DEF WordBase
<1>4. WordBase = Span(WordDigits \div 2)
  BY <1>2, HexSpansArePowers DEF WordBase
<1> QED BY <1>1, <1>2, <1>3, <1>4

Word == 0..WordBase - 1

(* Words are numbers.                                                        *)
LEMMA WordSequence ==
  ASSUME NEW w \in Seq(Word)
  PROVE  /\ w \in Seq(Nat) /\ Len(w) \in Nat /\ DOMAIN w = 1..Len(w)
         /\ \A i \in 1..Len(w) : w[i] \in Word /\ w[i] \in Nat /\ w[i] < WordBase
<1>1. Word \subseteq Nat /\ \A v \in Word : v \in Nat /\ v < WordBase
  BY WordBaseIs DEF Word
<1>2. w \in Seq(Nat)
  BY <1>1, SeqMonotonic
<1>3. Len(w) \in Nat /\ DOMAIN w = 1..Len(w) /\ \A i \in 1..Len(w) : w[i] \in Word
  BY LenProperties, ElementOfSeq
<1> QED BY <1>1, <1>2, <1>3

-----------------------------------------------------------------------------
(* The printed text.                                                         *)

(* Which word a digit belongs to, and where it is in it.                     *)
LEMMA PlaceInWord ==
  ASSUME NEW N \in Nat \ {0}, NEW n \in Nat, NEW k \in 1..n, NEW j \in 1..N,
         NEW i, i = N * (k - 1) + j
  PROVE  /\ N * (k - 1) \in Nat /\ N * n \in Nat /\ N * (k - 1) + N <= N * n
         /\ N * k = N * (k - 1) + N
         /\ i \in 1..N * n /\ (i - 1) \div N = k - 1 /\ (i - 1) % N = j - 1
<1> DEFINE a == N * (k - 1)
           m == N * n
<1>1. a \in Nat /\ m \in Nat /\ N * k = a + N
  <2>1. k - 1 \in Nat
    OBVIOUS
  <2> QED BY <2>1
<1>2. a + N <= m
  <2>1. k \in Int /\ n \in Int /\ k <= n /\ N \in Nat
    OBVIOUS
  <2>2. N * k <= N * n
    BY <2>1, ProductOrder
  <2> QED BY <1>1, <2>2
<1>3. (i - 1) \div N = k - 1 /\ (i - 1) % N = j - 1
  <2>1. i - 1 \in Nat /\ k - 1 \in Int /\ j - 1 \in 0..N - 1 /\ i - 1 = N * (k - 1) + (j - 1)
    BY <1>1
  <2> HIDE DEF a
  <2> QED BY <2>1, DivUnique
<1>4. i \in 1..m
  <2> HIDE DEF a, m
  <2> QED BY <1>1, <1>2
<1> QED BY <1>1, <1>2, <1>3, <1>4

(* The digits of a word.                                                     *)
WordText(word) == [j \in 1..WordDigits |-> (word \div HexSpan(WordDigits - j)) % 16]

(* They stand for it.                                                        *)
LEMMA WordTextIs ==
  ASSUME NEW word \in Word
  PROVE  /\ WordText(word) \in Seq(Digit) /\ Len(WordText(word)) = WordDigits
         /\ Digits(16, WordText(word)) = word
<1> DEFINE b == WordText(word)
           p == [n \in Nat |-> HexSpan(n)]
<1>1. Powers(p, 16) /\ p[WordDigits] = HexSpan(WordDigits)
  BY HexSpansArePowers, WordBaseIs
<1>2. word \in Nat /\ word < p[WordDigits]
  BY <1>1, WordBaseIs DEF Word, WordBase
<1>3. \A i \in 1..WordDigits : /\ WordDigits - i \in Nat
                               /\ p[WordDigits - i] \in Nat \ {0}
                               /\ p[WordDigits - i] = HexSpan(WordDigits - i)
  <2> TAKE i \in 1..WordDigits
  <2>1. WordDigits - i \in Nat
    BY WordBaseIs
  <2> QED BY <2>1, HexSpanStep
<1> HIDE DEF p
<1>4. ASSUME NEW i \in 1..WordDigits PROVE (word \div p[WordDigits - i]) % 16 \in 0..15
  <2>1. word \div p[WordDigits - i] \in Nat
    BY <1>2, <1>3, DivMod
  <2> QED BY <2>1
<1>5. b = [i \in 1..WordDigits |-> (word \div p[WordDigits - i]) % 16]
  BY <1>3 DEF WordText
<1>6. b \in Seq(Digit) /\ Len(b) = WordDigits
  BY <1>4, <1>5, WordBaseIs DEF Digit
<1>7. Digits(16, b) = word
  <2>1. b \in Seq(Nat)
    <3>1. Digit \subseteq Nat
      BY DEF Digit
    <3> QED BY <1>6, <3>1, SeqMonotonic
  <2>2. \A i \in 1..WordDigits : b[i] = (word \div p[WordDigits - i]) % 16
    BY <1>5
  <2> HIDE DEF b
  <2>3. 16 \in Nat \ {0} /\ WordDigits \in Nat /\ Len(b) = WordDigits
    BY <1>6, WordBaseIs
  <2> QED BY <1>1, <1>2, <2>1, <2>2, <2>3, PlacesAre
<1> QED BY <1>6, <1>7

(* The text is the digits of the words, one after the other.                 *)
LEMMA HexStringIs ==
  ASSUME NEW w \in Seq(Word)
  PROVE  /\ HexString(w) \in Seq(Digit) /\ Len(HexString(w)) = WordDigits * Len(w)
         /\ \A k \in 1..Len(w) :
               SubSeq(HexString(w), WordDigits * (k - 1) + 1, WordDigits * k) = WordText(w[k])
<1> DEFINE N == WordDigits
           n == Len(w)
           d(i) == (w[(i - 1) \div N + 1] \div HexSpan((N - 1) - ((i - 1) % N))) % 16
           h == HexString(w)
<1>1. N \in Nat \ {0} /\ n \in Nat /\ \A k \in 1..n : w[k] \in Word
  BY WordBaseIs, WordSequence
<1>2. h = [i \in 1..N * n |-> d(i)]
  BY DEF HexString
<1> HIDE DEF N, n, h
<1>3. N * n \in Nat
  BY <1>1
<1>4. ASSUME NEW k \in 1..n, NEW j \in 1..N PROVE d(N * (k - 1) + j) = WordText(w[k])[j]
  <2> DEFINE i == N * (k - 1) + j
  <2> HIDE DEF i
  <2>1. (i - 1) \div N = k - 1 /\ (i - 1) % N = j - 1
    <3>1. i = N * (k - 1) + j
      BY DEF i
    <3> QED BY <1>1, <3>1, PlaceInWord
  <2>2. (i - 1) \div N + 1 = k /\ (N - 1) - ((i - 1) % N) = N - j
    BY <1>1, <2>1
  <2>3. d(i) = (w[k] \div HexSpan(N - j)) % 16
    BY <2>2
  <2> QED BY <2>3 DEF WordText, N, i
<1>5. ASSUME NEW i \in 1..N * n PROVE \E k \in 1..n, j \in 1..N : i = N * (k - 1) + j
  <2> DEFINE q == (i - 1) \div N
             r == (i - 1) % N
  <2>1. i \in Nat \ {0} /\ i - 1 \in Nat /\ i <= N * n
    BY <1>3
  <2>2. q \in Nat /\ r \in 0..N - 1 /\ i - 1 = N * q + r
    BY <1>1, <2>1, DivMod
  <2> HIDE DEF q, r
  <2>3. q < n
    <3> SUFFICES ASSUME n <= q PROVE FALSE
      BY <1>1, <2>2
    <3>1. n \in Int /\ q \in Int /\ N \in Nat
      BY <1>1, <2>2
    <3>2. N * n <= N * q
      BY <3>1, ProductOrder
    <3>3. N * q \in Nat
      BY <1>1, <2>2
    <3> QED BY <1>3, <2>1, <2>2, <3>2, <3>3
  <2>4. q + 1 \in 1..n /\ r + 1 \in 1..N /\ (q + 1) - 1 = q
    BY <1>1, <2>2, <2>3
  <2>5. i = N * q + (r + 1)
    <3>1. N * q \in Nat
      BY <1>1, <2>2
    <3> QED BY <2>1, <2>2, <3>1
  <2> QED BY <2>4, <2>5
<1>6. \A k \in 1..n : WordText(w[k]) \in Seq(Digit) /\ Len(WordText(w[k])) = N
  BY <1>1, WordTextIs DEF N
<1>7. ASSUME NEW i \in 1..N * n PROVE d(i) \in Digit
  <2>1. PICK k \in 1..n, j \in 1..N : i = N * (k - 1) + j
    BY <1>5
  <2>2. d(i) = WordText(w[k])[j]
    <3> HIDE DEF d
    <3> QED BY <1>4, <2>1
  <2>3. WordText(w[k])[j] \in Digit
    BY <1>6, ElementOfSeq
  <2> QED BY <2>2, <2>3
<1> HIDE DEF d
<1>8. h \in Seq(Digit) /\ Len(h) = N * n
  BY <1>2, <1>3, <1>7
<1>9. ASSUME NEW k \in 1..n
      PROVE  SubSeq(h, N * (k - 1) + 1, N * k) = WordText(w[k])
  <2> DEFINE a == N * (k - 1)
             m == N * n
  <2>1. a \in Nat /\ m \in Nat /\ N * k = a + N /\ a + N <= m
    <3>1. N \in 1..N
      BY <1>1
    <3> QED BY <1>1, <3>1, PlaceInWord
  <2>2. \A j \in 1..N : a + j \in 1..m /\ h[a + j] = WordText(w[k])[j]
    <3> TAKE j \in 1..N
    <3>1. a + j \in 1..m
      BY <1>1, PlaceInWord
    <3>2. h[a + j] = d(a + j)
      BY <1>2, <3>1
    <3> QED BY <1>4, <3>1, <3>2
  <2>3. WordText(w[k]) = [j \in 1..N |-> WordText(w[k])[j]]
    BY DEF WordText, N
  <2>4. Len(h) = m
    BY <1>8
  <2> HIDE DEF a, m
  <2>5. SubSeq(h, a + 1, a + N) = [j \in 1..N |-> h[a + j]]
    <3>1. (a + N) - (a + 1) + 1 = N
      BY <1>1, <2>1
    <3>2. \A j \in 1..N : (a + 1) + j - 1 = a + j
      BY <1>1, <2>1
    <3>3. SubSeq(h, a + 1, a + N) \in Seq(Digit) /\ Len(SubSeq(h, a + 1, a + N)) = N
      BY <1>1, <1>8, <2>1, <2>4
    <3>4. \A j \in 1..N : SubSeq(h, a + 1, a + N)[j] = h[a + j]
      BY <1>1, <1>8, <2>1, <2>4, <3>2
    <3> DEFINE x == SubSeq(h, a + 1, a + N)
    <3>5. x = [j \in 1..N |-> x[j]]
      <4> HIDE DEF x
      <4>1. x \in Seq(Digit) /\ Len(x) = N
        BY <3>3 DEF x
      <4> QED BY <4>1
    <3> QED BY <3>4, <3>5
  <2>6. SubSeq(h, a + 1, a + N) = WordText(w[k])
    BY <2>2, <2>3, <2>5
  <2> QED BY <2>1, <2>6 DEF a
<1> QED BY <1>8, <1>9 DEF N, n, h

(* So many digits z for each digit of w.                                     *)
EvenGroups(width, base, z, w) ==
  /\ Len(z) = width * Len(w)
  /\ \A k \in 1..Len(w) : Digits(base, SubSeq(z, width * (k - 1) + 1, width * k)) = w[k]

(* They stand for the same number.                                           *)
LEMMA EvenlyRegrouped ==
  ASSUME NEW base \in Nat \ {0}, NEW p, Powers(p, base), NEW N \in Nat \ {0},
         NEW z \in Seq(Nat), NEW w \in Seq(Nat), EvenGroups(N, base, z, w)
  PROVE  Digits(p[N], w) = Digits(base, z)
<1> DEFINE cut == [k \in 0..Len(w) |-> N * k]
<1>1. Len(w) \in Nat /\ Len(z) = N * Len(w)
  BY DEF EvenGroups
<1>2. ASSUME NEW k \in 0..Len(w) PROVE N * k \in 0..Len(z)
  <2>1. k \in Int /\ Len(w) \in Int /\ k <= Len(w) /\ N \in Nat
    BY <1>1
  <2>2. N * k <= N * Len(w)
    BY <2>1, ProductOrder
  <2>3. N * k \in Nat /\ N * Len(w) \in Nat
    BY <1>1
  <2> QED BY <1>1, <2>2, <2>3
<1>3. cut \in [0..Len(w) -> 0..Len(z)]
  BY <1>2
<1>4. cut[0] = 0 /\ cut[Len(w)] = Len(z)
  BY <1>1
<1>5. ASSUME NEW k \in 1..Len(w)
      PROVE  /\ cut[k - 1] <= cut[k]
             /\ k > 1 => cut[k] = cut[k - 1] + N
             /\ Digits(base, SubSeq(z, cut[k - 1] + 1, cut[k])) = w[k]
  <2>1. cut[k - 1] = N * (k - 1) /\ cut[k] = N * k
    BY <1>1
  <2>2. N * k = N * (k - 1) + N /\ N * (k - 1) \in Nat
    BY <1>1
  <2>3. Digits(base, SubSeq(z, cut[k - 1] + 1, cut[k])) = w[k]
    BY <2>1 DEF EvenGroups
  <2> HIDE DEF cut
  <2>4. cut[k - 1] <= cut[k] /\ cut[k] = cut[k - 1] + N
    BY <2>1, <2>2
  <2> QED BY <2>3, <2>4
<1> HIDE DEF cut
<1>6. Groups(cut, N, base, z, w)
  BY <1>3, <1>4, <1>5 DEF Groups
<1> QED BY <1>6, Regrouped

(* So it stands for the number of the words.                                 *)
LEMMA HexStringValue ==
  ASSUME NEW w \in Seq(Word)
  PROVE  Digits(16, HexString(w)) = Digits(WordBase, w)
<1> DEFINE N == WordDigits
           h == HexString(w)
           p == [n \in Nat |-> HexSpan(n)]
<1>1. w \in Seq(Nat) /\ Len(w) \in Nat /\ \A k \in 1..Len(w) : w[k] \in Word
  BY WordSequence
<1>2. h \in Seq(Nat)
  <2>1. Digit \subseteq Nat
    BY DEF Digit
  <2> QED BY <2>1, HexStringIs, SeqMonotonic
<1>3. Powers(p, 16) /\ p[N] = WordBase /\ N \in Nat \ {0} /\ 16 \in Nat \ {0}
  BY HexSpansArePowers, WordBaseIs DEF WordBase
<1>4. EvenGroups(N, 16, h, w)
  <2>1. \A k \in 1..Len(w) : Digits(16, WordText(w[k])) = w[k]
    BY <1>1, WordTextIs
  <2> QED BY <2>1, HexStringIs DEF EvenGroups
<1> HIDE DEF N, h, p
<1> QED BY <1>1, <1>2, <1>3, <1>4, EvenlyRegrouped DEF h

-----------------------------------------------------------------------------
(* Reading.                                                                  *)

(* Some blanks and then digits.                                              *)
BlanksFirst(c, m) ==
  /\ c \in Seq(Nat) /\ m \in 0..Len(c)
  /\ \A i \in 1..m : c[i] = Blank
  /\ \A i \in m + 1..Len(c) : c[i] \in Digit

(* The digits, with zeros for the blanks.                                    *)
Plain(c) == [i \in 1..Len(c) |-> IF c[i] = Blank THEN 0 ELSE c[i]]

(* Digits are no blanks.                                                     *)
LEMMA PlainIs ==
  ASSUME NEW c, NEW m, BlanksFirst(c, m)
  PROVE  /\ Plain(c) \in Seq(Digit) /\ Plain(c) \in Seq(Nat) /\ Len(Plain(c)) = Len(c)
         /\ \A i \in 1..m : Plain(c)[i] = 0
         /\ \A i \in m + 1..Len(c) : Plain(c)[i] = c[i] /\ c[i] # Blank /\ c[i] # X
<1> DEFINE d(i) == IF c[i] = Blank THEN 0 ELSE c[i]
           t == Plain(c)
<1>1. c \in Seq(Nat) /\ Len(c) \in Nat /\ m \in 0..Len(c)
  BY DEF BlanksFirst
<1>2. \A i \in 1..m : c[i] = Blank /\ d(i) = 0
  BY DEF BlanksFirst
<1>3. \A i \in m + 1..Len(c) : c[i] \in Digit /\ d(i) = c[i] /\ c[i] # Blank /\ c[i] # X
  <2> TAKE i \in m + 1..Len(c)
  <2>1. c[i] \in Digit
    BY DEF BlanksFirst
  <2> DEFINE x == c[i]
  <2> HIDE DEF x
  <2>2. x \in Digit /\ x # Blank /\ x # X
    BY <2>1 DEF Digit, Blank, X, x
  <2> QED BY <2>2 DEF x
<1>4. ASSUME NEW i \in 1..Len(c) PROVE d(i) \in Digit
  <2>1. 0 \in Digit
    BY DEF Digit
  <2>2. i \in 1..m \/ i \in m + 1..Len(c)
    BY <1>1
  <2> HIDE DEF d
  <2> QED BY <1>2, <1>3, <2>1, <2>2
<1>5. t = [i \in 1..Len(c) |-> d(i)]
  BY DEF Plain
<1> HIDE DEF t, d
<1>6. t \in Seq(Digit) /\ Len(t) = Len(c) /\ \A i \in 1..Len(c) : t[i] = d(i)
  BY <1>1, <1>4, <1>5
<1>7. t \in Seq(Nat)
  <2>1. Digit \subseteq Nat
    BY DEF Digit
  <2> QED BY <1>6, <2>1, SeqMonotonic
<1>8. /\ \A i \in 1..m : i \in 1..Len(c)
      /\ \A i \in m + 1..Len(c) : i \in 1..Len(c)
  BY <1>1
<1> QED BY <1>2, <1>3, <1>6, <1>7, <1>8 DEF t

(* A part of such a text is one.                                             *)
LEMMA PartOfText ==
  ASSUME NEW c, NEW m, BlanksFirst(c, m),
         NEW a \in Nat, NEW b \in Nat, a <= b, b <= Len(c)
  PROVE  \E k : /\ BlanksFirst(SubSeq(c, a + 1, b), k)
                /\ Plain(SubSeq(c, a + 1, b)) = SubSeq(Plain(c), a + 1, b)
<1> DEFINE s == SubSeq(c, a + 1, b)
           k == IF m <= a THEN 0 ELSE IF b <= m THEN b - a ELSE m - a
<1>1. c \in Seq(Nat) /\ Len(c) \in Nat /\ m \in 0..Len(c)
  BY DEF BlanksFirst
<1>2. s \in Seq(Nat) /\ Len(s) = b - a /\ \A i \in 1..b - a : s[i] = c[a + i]
  BY <1>1
<1> HIDE DEF s
<1>3. BlanksFirst(s, k)
  <2>1. k \in 0..b - a
    BY <1>1
  <2>2. ASSUME NEW i \in 1..k PROVE s[i] = Blank
    <3>1. i \in 1..b - a /\ a + i \in 1..m
      BY <1>1
    <3> QED BY <1>2, <3>1 DEF BlanksFirst
  <2>3. ASSUME NEW i \in k + 1..b - a PROVE s[i] \in Digit
    <3>1. i \in 1..b - a /\ a + i \in m + 1..Len(c)
      BY <1>1
    <3> QED BY <1>2, <3>1 DEF BlanksFirst
  <2> HIDE DEF k
  <2> QED BY <1>2, <2>1, <2>2, <2>3 DEF BlanksFirst
<1>4. Plain(s) = SubSeq(Plain(c), a + 1, b)
  <2> DEFINE t == Plain(c)
             r == SubSeq(t, a + 1, b)
  <2>1. t \in Seq(Nat) /\ Len(t) = Len(c)
    BY PlainIs
  <2>2. \A i \in 1..Len(c) : t[i] = IF c[i] = Blank THEN 0 ELSE c[i]
    BY DEF Plain
  <2> HIDE DEF t
  <2>3. r \in Seq(Nat) /\ Len(r) = b - a /\ \A i \in 1..b - a : r[i] = t[a + i]
    BY <1>1, <2>1
  <2> HIDE DEF r
  <2>4. r = [i \in 1..b - a |-> r[i]]
    BY <2>3
  <2>5. \A i \in 1..b - a : r[i] = IF s[i] = Blank THEN 0 ELSE s[i]
    <3> TAKE i \in 1..b - a
    <3>1. a + i \in 1..Len(c)
      BY <1>1
    <3> QED BY <1>2, <2>2, <2>3, <3>1
  <2>6. Plain(s) = [i \in 1..b - a |-> IF s[i] = Blank THEN 0 ELSE s[i]]
    BY <1>2 DEF Plain
  <2> QED BY <2>4, <2>5, <2>6 DEF r, t
<1> QED BY <1>3, <1>4 DEF s

(* What ltrim finds: nothing but blanks, or the first digit.                 *)
LEMMA Trimmed ==
  ASSUME NEW c \in Seq(Nat), NEW m \in 0..Len(c),
         \A i \in 1..m : c[i] = Blank,
         m < Len(c) => c[m + 1] # Blank
  PROVE  ltrim(Info(c, 0, Len(c))) =
            IF m = Len(c) THEN Info(c, 0, Len(c)) ELSE Info(c, m, Len(c) - m)
<1> DEFINE v == Info(c, 0, Len(c))
           solid == {i \in 1..v.length : ~ IsBlank(v.value[i])}
           first == CHOOSE i \in solid : \A j \in solid : i <= j
<1>1. v.value = c /\ v.length = Len(c) /\ Len(c) \in Nat
  BY DEF Info
<1>2. solid = {i \in 1..Len(c) : c[i] # Blank}
  BY <1>1 DEF IsBlank
<1>3. ltrim(v) = IF solid = {} THEN v ELSE Info(c, first - 1, Len(c) - (first - 1))
  BY <1>1 DEF ltrim
<1> HIDE DEF v, solid
<1>4. CASE m = Len(c)
  <2>1. solid = {}
    BY <1>2, <1>4
  <2> QED BY <1>3, <1>4, <2>1 DEF v
<1>5. CASE m # Len(c)
  <2>1. m + 1 \in solid /\ \A j \in solid : m + 1 <= j
    <3>1. m + 1 \in 1..Len(c)
      BY <1>1, <1>5
    <3>2. ASSUME NEW j \in solid PROVE m + 1 <= j
      <4>1. j \in 1..Len(c) /\ c[j] # Blank
        BY <1>2
      <4>2. j \notin 1..m
        BY <4>1
      <4> QED BY <1>1, <4>1, <4>2
    <3> QED BY <1>1, <1>2, <1>5, <3>1, <3>2
  <2>2. first \in solid /\ \A j \in solid : first <= j
    BY <2>1
  <2> HIDE DEF first
  <2>3. first = m + 1
    <3>1. first \in Nat
      BY <1>2, <2>2
    <3> QED BY <2>1, <2>2, <3>1
  <2>4. solid # {} /\ first - 1 = m
    BY <2>1, <2>3
  <2> QED BY <1>3, <1>5, <2>4 DEF v
<1> QED BY <1>4, <1>5

(* strtol reads digits behind blanks.                                        *)
LEMMA TextIsRead ==
  ASSUME NEW c, NEW m, BlanksFirst(c, m)
  PROVE  strtol16(c) = Digits(16, Plain(c))
<1> DEFINE v == Info(c, 0, Len(c))
           solid == Piece(ltrim(v))
           e == IF m = Len(c) THEN 0 ELSE m
           End(d, n) == /\ \A i \in 1..n : d[i] \in Digit
                        /\ n < Len(d) => d[n + 1] \notin Digit
<1>1. c \in Seq(Nat) /\ Len(c) \in Nat /\ m \in 0..Len(c)
  BY DEF BlanksFirst
<1>2. \A i \in 1..m : c[i] = Blank
  BY DEF BlanksFirst
<1>3. \A i \in m + 1..Len(c) : c[i] \in Digit /\ c[i] # X /\ c[i] # Blank
  BY PlainIs DEF BlanksFirst
<1>4. solid = SubSeq(c, e + 1, Len(c))
  <2>1. m < Len(c) => c[m + 1] # Blank
    <3>1. m < Len(c) => m + 1 \in m + 1..Len(c)
      BY <1>1
    <3> QED BY <1>3, <3>1
  <2>2. ltrim(v) = IF m = Len(c) THEN v ELSE Info(c, m, Len(c) - m)
    BY <1>1, <1>2, <2>1, Trimmed
  <2>3. CASE m = Len(c)
    <3>1. solid = Piece(v)
      BY <2>2, <2>3
    <3>2. Piece(v) = SubSeq(c, 0 + 1, 0 + Len(c))
      BY DEF Piece, Info
    <3> QED BY <1>1, <2>3, <3>1, <3>2
  <2>4. CASE m # Len(c)
    <3>1. solid = Piece(Info(c, m, Len(c) - m))
      BY <2>2, <2>4
    <3>2. Piece(Info(c, m, Len(c) - m)) = SubSeq(c, m + 1, m + (Len(c) - m))
      BY DEF Piece, Info
    <3>3. m + (Len(c) - m) = Len(c)
      BY <1>1
    <3> QED BY <2>4, <3>1, <3>2, <3>3
  <2> QED BY <2>3, <2>4
<1> HIDE DEF solid
<1>5. solid \in Seq(Nat) /\ Len(solid) = Len(c) - e /\ \A i \in 1..Len(c) - e : solid[i] = c[e + i]
  <2>1. e \in 0..Len(c)
    BY <1>1
  <2> HIDE DEF e
  <2> QED BY <1>1, <1>4, <2>1
<1>6. ~ (Len(solid) > 2 /\ SubSeq(solid, 1, 2) = <<0, X>> /\ solid[3] \in Digit)
  <2> SUFFICES ASSUME Len(solid) > 2, SubSeq(solid, 1, 2) = <<0, X>> PROVE FALSE
    OBVIOUS
  <2>1. SubSeq(solid, 1, 2)[2] = X
    <3> DEFINE r == SubSeq(solid, 1, 2)
    <3>1. r = <<0, X>>
      OBVIOUS
    <3> HIDE DEF r
    <3>2. r[2] = X
      BY <3>1
    <3> QED BY <3>2 DEF r
  <2>2. SubSeq(solid, 1, 2)[2] = solid[2]
    BY <1>5
  <2>3. solid[2] = c[e + 2] /\ e + 2 \in 1..Len(c)
    BY <1>1, <1>5
  <2>4. c[e + 2] # X
    <3>1. e + 2 \in 1..m \/ e + 2 \in m + 1..Len(c)
      BY <1>1, <2>3
    <3>2. Blank # X
      BY DEF Blank, X
    <3> HIDE DEF e
    <3> QED BY <1>2, <1>3, <3>1, <3>2
  <2> QED BY <2>1, <2>2, <2>3, <2>4
<1> DEFINE end == CHOOSE n \in 0..Len(solid) : End(solid, n)
<1>7. strtol16(c) = Digits(16, SubSeq(solid, 1, end))
  BY <1>6 DEF strtol16, solid, v
<1>8. CASE m = Len(c)
  <2>1. End(solid, 0)
    <3>1. Len(c) > 0 => 1 \in 1..m
      BY <1>1, <1>8
    <3>2. Len(c) > 0 => solid[1] = Blank
      BY <1>1, <1>2, <1>5, <1>8, <3>1
    <3> QED BY <1>5, <1>8, <3>2 DEF Blank, Digit
  <2>2. ASSUME NEW n \in 0..Len(solid), End(solid, n) PROVE n = 0
    <3> SUFFICES ASSUME n # 0 PROVE FALSE
      OBVIOUS
    <3>1. 1 \in 1..n /\ 1 \in 1..Len(c) - e /\ e + 1 \in 1..m
      BY <1>1, <1>5, <1>8
    <3>2. solid[1] \in Digit /\ solid[1] = Blank
      BY <1>2, <1>5, <2>2, <3>1
    <3> QED BY <3>2 DEF Blank, Digit
  <2>3. end = 0
    <3>1. 0 \in 0..Len(solid)
      BY <1>1, <1>5
    <3> HIDE DEF End
    <3> QED BY <2>1, <2>2, <3>1
  <2>4. SubSeq(solid, 1, 0) = <<>>
    BY <1>5
  <2>5. SubSeq(Plain(c), m + 1, Len(Plain(c))) = <<>>
    BY <1>1, <1>8, PlainIs
  <2>6. Digits(16, <<>>) = Digits(16, Plain(c))
    <3>1. m + 1 \in 1..Len(Plain(c)) + 1 /\ (m + 1) - 1 = m
      BY <1>1, PlainIs
    <3>2. \A i \in 1..(m + 1) - 1 : Plain(c)[i] = 0
      BY <3>1, PlainIs
    <3> HIDE DEF end
    <3>3. 16 \in Nat /\ Plain(c) \in Seq(Nat)
      BY PlainIs
    <3>4. Digits(16, SubSeq(Plain(c), m + 1, Len(Plain(c)))) = Digits(16, Plain(c))
      BY <3>1, <3>2, <3>3, DigitsWithoutZeros, Zenon
    <3> QED BY <2>5, <3>4
  <2> QED BY <1>7, <2>3, <2>4, <2>6
<1>9. CASE m # Len(c)
  <2>1. e = m /\ Len(solid) = Len(c) - m /\ Len(solid) \in Nat
    BY <1>1, <1>5, <1>9
  <2>2. \A i \in 1..Len(solid) : solid[i] = c[m + i] /\ m + i \in m + 1..Len(c)
    <3> TAKE i \in 1..Len(solid)
    <3> HIDE DEF e
    <3>1. i \in 1..Len(c) - e /\ m + i \in m + 1..Len(c)
      BY <1>1, <2>1
    <3> QED BY <1>5, <2>1, <3>1
  <2>3. End(solid, Len(solid))
    BY <1>3, <2>1, <2>2
  <2>4. ASSUME NEW n \in 0..Len(solid), End(solid, n) PROVE n = Len(solid)
    <3> SUFFICES ASSUME n # Len(solid) PROVE FALSE
      OBVIOUS
    <3>1. n < Len(solid) /\ n + 1 \in 1..Len(solid)
      BY <2>1
    <3>2. solid[n + 1] \in Digit
      BY <1>3, <2>2, <3>1
    <3> QED BY <2>4, <3>1, <3>2
  <2>5. end = Len(solid)
    <3>1. Len(solid) \in 0..Len(solid)
      BY <2>1
    <3> HIDE DEF End
    <3> QED BY <2>3, <2>4, <3>1
  <2>6. SubSeq(solid, 1, Len(solid)) = solid
    BY <1>5
  <2> DEFINE t == Plain(c)
  <2>7. /\ t \in Seq(Nat) /\ Len(t) = Len(c)
        /\ \A i \in 1..m : t[i] = 0
        /\ \A i \in m + 1..Len(c) : t[i] = c[i]
    BY PlainIs
  <2> HIDE DEF t
  <2>8. SubSeq(t, m + 1, Len(t)) = solid
    <3> DEFINE r == SubSeq(t, m + 1, Len(t))
    <3>1. r \in Seq(Nat) /\ Len(r) = Len(solid) /\ \A i \in 1..Len(solid) : r[i] = t[m + i]
      BY <1>1, <2>1, <2>7
    <3> HIDE DEF r
    <3>2. \A i \in 1..Len(solid) : r[i] = solid[i]
      BY <2>2, <2>7, <3>1
    <3>3. r = solid
      BY <1>5, <3>1, <3>2, SeqEqual
    <3> QED BY <3>3 DEF r
  <2>9. Digits(16, solid) = Digits(16, t)
    <3>1. m + 1 \in 1..Len(t) + 1 /\ (m + 1) - 1 = m /\ 16 \in Nat
      BY <1>1, <2>7
    <3>2. \A i \in 1..(m + 1) - 1 : t[i] = 0
      BY <2>7, <3>1
    <3>3. Digits(16, SubSeq(t, m + 1, Len(t))) = Digits(16, t)
      BY <2>7, <3>1, <3>2, DigitsWithoutZeros, Zenon
    <3> QED BY <2>8, <3>3
  <2> HIDE DEF end
  <2> QED BY <1>7, <2>5, <2>6, <2>9 DEF t
<1> QED BY <1>8, <1>9

(* The words of a piece of text.                                             *)
WordsOf(letters) ==
  LET count == (Len(letters) + WordDigits - 1) \div WordDigits
      end(k) == Len(letters) - (count - k) * WordDigits
      begin(k) == IF end(k) > WordDigits THEN end(k) - WordDigits + 1 ELSE 1
  IN  [k \in 1..count |-> strtol16(SubSeq(letters, begin(k), end(k)))]

(* Where each of them ends: the first lacks some digits, the others have all.*)
Cut(cut, count, lack, length) ==
  /\ count \in Nat /\ lack \in 0..WordDigits - 1
  /\ length = WordDigits * count - lack
  /\ cut \in [0..count -> 0..length] /\ cut[0] = 0 /\ cut[count] = length
  /\ \A k \in 1..count :
        /\ cut[k] = WordDigits * k - lack
        /\ cut[k - 1] <= cut[k] /\ cut[k] - cut[k - 1] <= WordDigits
        /\ k > 1 => cut[k] = cut[k - 1] + WordDigits

(* The words are cut off there.                                              *)
LEMMA WordsAreCut ==
  ASSUME NEW c \in Seq(Nat)
  PROVE  \E cut, count, lack :
            /\ Cut(cut, count, lack, Len(c))
            /\ WordsOf(c) = [k \in 1..count |-> strtol16(SubSeq(c, cut[k - 1] + 1, cut[k]))]
<1> DEFINE N == WordDigits
           L == Len(c)
           count == (L + N - 1) \div N
           end(k) == L - (count - k) * N
           begin(k) == IF end(k) > N THEN end(k) - N + 1 ELSE 1
           M == N * count
           lack == M - L
<1>1. N \in Nat \ {0} /\ N >= 2 /\ L \in Nat
  BY WordBaseIs
<1> HIDE DEF N, L
<1>2. count \in Nat /\ (L + N - 1) % N \in 0..N - 1 /\ L + N - 1 = M + ((L + N - 1) % N)
  <2>1. L + N - 1 \in Nat
    BY <1>1
  <2> QED BY <1>1, <2>1, DivMod
<1>3. WordsOf(c) = [k \in 1..count |-> strtol16(SubSeq(c, begin(k), end(k)))]
  BY DEF WordsOf, N, L
<1> HIDE DEF count
<1>4. M \in Nat
  BY <1>1, <1>2
<1> HIDE DEF M
<1>5. lack \in 0..N - 1 /\ L = M - lack
  BY <1>1, <1>2, <1>4
<1> HIDE DEF lack
<1>6. ASSUME NEW k \in 1..count
      PROVE  /\ end(k) = N * k - lack /\ N * k \in Nat
             /\ N <= N * k /\ N * k <= M /\ (k > 1 => 2 * N <= N * k)
  <2>1. (count - k) * N = N * count - N * k /\ N * k \in Nat
    BY <1>1, <1>2
  <2>2. N * 1 <= N * k /\ N * k <= N * count
    <3>1. 1 \in Int /\ k \in Int /\ count \in Int /\ 1 <= k /\ k <= count /\ N \in Nat
      BY <1>1, <1>2
    <3> QED BY <3>1, ProductOrder
  <2>3. k > 1 => N * 2 <= N * k
    <3>1. 2 \in Int /\ k \in Int /\ (k > 1 => 2 <= k) /\ N \in Nat
      BY <1>1, <1>2
    <3> QED BY <3>1, ProductOrder
  <2>4. N * 1 = N /\ N * 2 = 2 * N
    BY <1>1
  <2>5. end(k) = L - (M - N * k)
    BY <2>1 DEF M
  <2> DEFINE y == N * k
  <2>6. y \in Nat /\ end(k) = L - (M - y) /\ N <= y /\ y <= M /\ (k > 1 => 2 * N <= y)
    BY <2>1, <2>2, <2>3, <2>4, <2>5 DEF M
  <2> HIDE DEF y, end
  <2>7. end(k) = y - lack
    BY <1>1, <1>4, <1>5, <2>6
  <2> QED BY <2>6, <2>7 DEF y
<1> DEFINE cut == [k \in 0..count |-> IF k = 0 THEN 0 ELSE end(k)]
<1>7. ASSUME NEW k \in 1..count
      PROVE  /\ cut[k] = N * k - lack
             /\ cut[k] \in 0..L /\ cut[k - 1] <= cut[k] /\ cut[k] - cut[k - 1] <= N
             /\ k > 1 => cut[k] = cut[k - 1] + N
             /\ begin(k) = cut[k - 1] + 1 /\ cut[k] = end(k)
  <2> DEFINE y == N * k
  <2>1. end(k) = y - lack /\ y \in Nat /\ N <= y /\ y <= M /\ (k > 1 => 2 * N <= y)
    BY <1>6
  <2>2. k \in 0..count /\ k # 0 /\ k - 1 \in 0..count
    BY <1>2
  <2>3. cut[k] = end(k) /\ cut[k - 1] = IF k - 1 = 0 THEN 0 ELSE end(k - 1)
    BY <2>2
  <2>4. k > 1 => end(k - 1) = (y - N) - lack
    <3> SUFFICES ASSUME k > 1 PROVE end(k - 1) = (y - N) - lack
      OBVIOUS
    <3>1. k - 1 \in 1..count
      BY <1>2
    <3>2. end(k - 1) = N * (k - 1) - lack
      BY <1>6, <3>1
    <3>3. N * (k - 1) = N * k - N
      BY <1>1, <1>2
    <3> QED BY <3>2, <3>3
  <2>5. k = 1 => y = N
    <3>1. N * 1 = N
      BY <1>1
    <3> QED BY <3>1
  <2> HIDE DEF y, end, cut
  <2>6. k = 1 \/ k > 1
    BY <1>2
  <2>7. CASE k = 1
    <3>1. end(k) = N - lack /\ cut[k - 1] = 0
      BY <2>1, <2>3, <2>5, <2>7
    <3>2. begin(k) = 1
      BY <1>1, <1>5, <3>1
    <3> HIDE DEF begin
    <3>3. cut[k] = y - lack /\ cut[k] = N - lack
      BY <2>1, <2>3, <3>1
    <3>4. cut[k] \in 0..L /\ cut[k] <= N
      BY <1>1, <1>4, <1>5, <2>1, <2>5, <2>7, <3>3
    <3> QED BY <1>1, <2>3, <2>7, <3>1, <3>2, <3>3, <3>4 DEF y
  <2>8. CASE k > 1
    <3>1. cut[k - 1] = (y - N) - lack /\ cut[k] = y - lack
      BY <1>2, <2>1, <2>3, <2>4, <2>8
    <3>2. end(k) > N
      BY <1>1, <1>5, <2>1, <2>8
    <3>3. begin(k) = cut[k - 1] + 1
      BY <1>1, <1>5, <2>1, <3>1, <3>2
    <3> HIDE DEF begin
    <3>4. cut[k] \in 0..L /\ cut[k - 1] \in Nat /\ cut[k] = cut[k - 1] + N
      BY <1>1, <1>4, <1>5, <2>1, <2>8, <3>1
    <3> QED BY <1>1, <2>3, <3>1, <3>3, <3>4 DEF y
  <2> QED BY <2>6, <2>7, <2>8
<1>8. cut[0] = 0 /\ cut[count] = L /\ cut \in [0..count -> 0..L]
  <2>1. 0 \in 0..count /\ count \in 0..count
    BY <1>2
  <2>2. cut[0] = 0
    BY <2>1
  <2>3. CASE count = 0
    <3>1. M = 0
      BY <1>1, <2>3 DEF M
    <3> QED BY <1>1, <1>5, <2>1, <2>2, <2>3, <3>1
  <2>4. CASE count # 0
    <3>1. count \in 1..count
      BY <1>2, <2>4
    <3>2. cut[count] = N * count - lack
      <4> HIDE DEF cut
      <4> QED BY <1>7, <3>1
    <3>3. \A k \in 0..count : (IF k = 0 THEN 0 ELSE end(k)) \in 0..L
      <4> TAKE k \in 0..count
      <4>1. CASE k = 0
        BY <1>1, <4>1
      <4>2. CASE k # 0
        <5>1. k \in 1..count
          BY <1>2, <4>2
        <5>2. cut[k] \in 0..L /\ cut[k] = end(k)
          <6> HIDE DEF cut, end
          <6> QED BY <1>7, <5>1
        <5> HIDE DEF cut, end
        <5> QED BY <4>2, <5>2
      <4> QED BY <4>1, <4>2
    <3> HIDE DEF end
    <3> QED BY <1>5, <2>2, <3>2, <3>3 DEF M
  <2> QED BY <2>3, <2>4
<1> HIDE DEF cut
<1>9. Cut(cut, count, lack, L)
  <2>1. L = N * count - lack
    BY <1>5 DEF M
  <2> HIDE DEF end, begin
  <2> QED BY <1>2, <1>5, <1>7, <1>8, <2>1 DEF Cut, N
<1>10. WordsOf(c) = [k \in 1..count |-> strtol16(SubSeq(c, cut[k - 1] + 1, cut[k]))]
  <2> HIDE DEF end, begin
  <2> QED BY <1>3, <1>7
<1> QED BY <1>9, <1>10 DEF L

(* They are words, and stand for the digits of the text.                     *)
LEMMA WordsOfText ==
  ASSUME NEW c, NEW m, BlanksFirst(c, m)
  PROVE  WordsOf(c) \in Seq(Word) /\ Digits(WordBase, WordsOf(c)) = Digits(16, Plain(c))
<1> DEFINE t == Plain(c)
           w == WordsOf(c)
           p == [n \in Nat |-> HexSpan(n)]
<1>1. c \in Seq(Nat) /\ Len(c) \in Nat
  BY DEF BlanksFirst
<1>2. PICK cut, count, lack :
         /\ Cut(cut, count, lack, Len(c))
         /\ w = [k \in 1..count |-> strtol16(SubSeq(c, cut[k - 1] + 1, cut[k]))]
  BY <1>1, WordsAreCut
<1>3. t \in Seq(Digit) /\ t \in Seq(Nat) /\ Len(t) = Len(c)
  BY PlainIs
<1>4. Powers(p, 16) /\ p[WordDigits] = WordBase /\ WordDigits \in Nat
  BY HexSpansArePowers, WordBaseIs DEF WordBase
<1> HIDE DEF t, w, p
<1>5. ASSUME NEW k \in 1..count
      PROVE  /\ w[k] = Digits(16, SubSeq(t, cut[k - 1] + 1, cut[k]))
             /\ w[k] \in Word
  <2> DEFINE a == cut[k - 1]
             b == cut[k]
             s == SubSeq(c, a + 1, b)
             r == SubSeq(t, a + 1, b)
  <2>1. a \in Nat /\ b \in Nat /\ a <= b /\ b <= Len(c) /\ b - a <= WordDigits
    <3>1. k - 1 \in 0..count /\ k \in 0..count
      BY <1>2 DEF Cut
    <3>2. cut[k - 1] \in 0..Len(c) /\ cut[k] \in 0..Len(c)
      BY <1>2, <3>1 DEF Cut
    <3>3. cut[k - 1] <= cut[k] /\ cut[k] - cut[k - 1] <= WordDigits
      BY <1>2 DEF Cut
    <3> QED BY <1>1, <3>2, <3>3
  <2>2. w[k] = strtol16(s)
    BY <1>2
  <2> HIDE DEF a, b
  <2>3. PICK j : BlanksFirst(s, j) /\ Plain(s) = r
    BY <2>1, PartOfText DEF t
  <2>4. strtol16(s) = Digits(16, r)
    <3> HIDE DEF s, r
    <3> QED BY <2>3, TextIsRead
  <2>5. r \in Seq(Digit) /\ Len(r) = b - a
    BY <1>3, <2>1
  <2> HIDE DEF r, s
  <2>6. Digits(16, r) \in Nat /\ Digits(16, r) < p[Len(r)]
    <3>1. 16 \in Nat \ {0} /\ r \in Seq(0..16 - 1)
      <4>1. Digit = 0..16 - 1
        BY DEF Digit
      <4> QED BY <2>5, <4>1
    <3> QED BY <1>4, <3>1, DigitsBound
  <2>7. p[Len(r)] <= p[WordDigits] /\ p[Len(r)] \in Nat /\ p[WordDigits] \in Nat
    <3>1. Len(r) \in Nat /\ Len(r) <= WordDigits /\ 16 \in Nat \ {0}
      BY <2>1, <2>5
    <3>2. p[Len(r)] <= p[WordDigits]
      BY <1>4, <3>1, PowersGrow
    <3> QED BY <1>4, <3>1, <3>2 DEF Powers
  <2>8. w[k] \in Word
    BY <1>4, <2>2, <2>4, <2>6, <2>7 DEF Word
  <2> QED BY <2>2, <2>4, <2>8 DEF r, a, b
<1>6. count \in Nat
  BY <1>2 DEF Cut
<1>7. w \in Seq(Word) /\ Len(w) = count
  <2>1. w = [k \in 1..count |-> w[k]]
    BY <1>2
  <2>2. w \in [1..count -> Word]
    BY <1>5, <2>1
  <2> QED BY <1>6, <2>1, <2>2
<1>8. Groups(cut, WordDigits, 16, t, w)
  BY <1>2, <1>3, <1>5, <1>7 DEF Groups, Cut
<1>9. Digits(WordBase, w) = Digits(16, t)
  <2>1. 16 \in Nat \ {0} /\ w \in Seq(Nat)
    BY <1>7, WordSequence
  <2> QED BY <1>3, <1>4, <1>8, <2>1, Regrouped
<1> QED BY <1>7, <1>9 DEF w, t

(* What is behind the first characters.                                      *)
LEMMA SuffixIs ==
  ASSUME NEW s \in Seq(Nat), NEW t \in Seq(Nat), NEW a \in Nat,
         Len(s) = a + Len(t),
         \A i \in 1..Len(t) : s[a + i] = t[i]
  PROVE  SubSeq(s, a + 1, Len(s)) = t
<1> DEFINE r == SubSeq(s, a + 1, Len(s))
<1>1. Len(s) \in Nat /\ Len(t) \in Nat
  OBVIOUS
<1>2. r \in Seq(Nat) /\ Len(r) = Len(t) /\ \A i \in 1..Len(t) : r[i] = s[a + i]
  <2> DEFINE m == a + 1
             n == Len(s)
  <2>1. m \in Int /\ n \in Int /\ m >= 1 /\ (n - m) + 1 = Len(t) /\ (m > n => Len(t) = 0)
    BY <1>1
  <2>2. \A i \in m..n : s[i] \in Nat
    <3>1. \A i \in 1..n : s[i] \in Nat
      BY ElementOfSeq
    <3> QED BY <1>1, <2>1, <3>1
  <2>3. \A i \in Nat : m + i - 1 = a + i
    OBVIOUS
  <2> HIDE DEF m, n
  <2>4. /\ SubSeq(s, m, n) \in Seq(Nat)
        /\ Len(SubSeq(s, m, n)) = IF m <= n THEN n - m + 1 ELSE 0
        /\ \A i \in 1..n - m + 1 : SubSeq(s, m, n)[i] = s[m + i - 1]
    BY <2>1, <2>2, SubSeqProperties
  <2>5. SubSeq(s, m, n) = r
    BY DEF m, n
  <2> HIDE DEF r
  <2>6. r \in Seq(Nat) /\ Len(r) = Len(t)
    <3>1. r \in Seq(Nat) /\ Len(r) = IF m <= n THEN n - m + 1 ELSE 0
      BY <2>4, <2>5
    <3> QED BY <1>1, <2>1, <3>1
  <2>7. ASSUME NEW i \in 1..Len(t) PROVE r[i] = s[a + i]
    <3>1. i \in 1..n - m + 1 /\ i \in Nat
      BY <1>1, <2>1
    <3>2. r[i] = s[m + i - 1]
      BY <2>4, <2>5, <3>1
    <3> QED BY <2>3, <3>1, <3>2
  <2> QED BY <2>6, <2>7
<1> HIDE DEF r
<1> QED BY <1>2, SeqEqual DEF r

(* What the constructor from text cuts into words.                           *)
Letters(text) == Piece(remove_hex_prefix(Info(text, 0, Len(text))))

(* Blanks or a prefix, and digits.                                           *)
Numeral(bl, px, dg) ==
    /\ bl \in Seq({Blank}) /\ px \in {<<>>, <<0, X>>} /\ dg \in Seq(Digit)
    /\ bl = <<>> \/ px = <<>>

(* The text without its prefix, and without its blanks if there are two      *)
(* digits or more.                                                           *)
LEMMA LettersAre ==
  ASSUME NEW bl, NEW px, NEW dg, Numeral(bl, px, dg)
  PROVE  \/ Letters(bl \o px \o dg) = dg
         \/ Letters(bl \o px \o dg) = bl \o dg
<1> DEFINE text == bl \o px \o dg
           letters == Letters(text)
<1> SUFFICES letters = dg \/ letters = bl \o dg
  OBVIOUS
<1>1. /\ bl \in Seq({Blank}) /\ px \in {<<>>, <<0, X>>} /\ dg \in Seq(Digit)
      /\ bl = <<>> \/ px = <<>>
  BY DEF Numeral
<1> DEFINE v == Info(text, 0, Len(text))
           trimmed == ltrim(v)
<1>2. /\ Blank \in Nat /\ {Blank} \subseteq Nat /\ Digit \subseteq Nat
      /\ \A d \in Digit : d # Blank /\ d # X
      /\ Blank # X
  BY DEF Blank, Digit, X
<1>3. bl \in Seq(Nat) /\ dg \in Seq(Nat) /\ px \in Seq(Nat)
  <2>1. bl \in Seq(Nat)
    BY <1>1, <1>2, SeqMonotonic
  <2>2. dg \in Seq(Nat)
    BY <1>1, <1>2, SeqMonotonic
  <2>3. <<>> \in Seq(Nat) /\ <<0, X>> \in Seq(Nat)
    BY DEF X
  <2> QED BY <1>1, <2>1, <2>2, <2>3
<1>4. text \in Seq(Nat) /\ Len(text) \in Nat
  <2>1. bl \o px \in Seq(Nat)
    BY <1>3, ConcatProperties
  <2> QED BY <1>3, <2>1, ConcatProperties
<1>5. \A a \in 0..Len(text) : Piece(Info(text, a, Len(text) - a)) = SubSeq(text, a + 1, Len(text))
  <2> TAKE a \in 0..Len(text)
  <2>1. a + (Len(text) - a) = Len(text)
    BY <1>4
  <2> QED BY <2>1 DEF Piece, Info
<1>6. SubSeq(text, 1, Len(text)) = text
  <2>1. Len(text) = 0 + Len(text) /\ \A i \in 1..Len(text) : text[0 + i] = text[i]
    BY <1>4
  <2> QED BY <1>4, <2>1, SuffixIs, 0 + 1 = 1
<1>7. letters = Piece(remove_hex_prefix(v))
  BY DEF Letters
<1>8. v.value = text /\ v.begin = 0 /\ v.length = Len(text)
  BY DEF Info
<1>9. v = Info(text, 0, Len(text) - 0) /\ Piece(v) = text
  <2>1. Len(text) - 0 = Len(text) /\ 0 \in 0..Len(text) /\ 0 + 1 = 1
    BY <1>4
  <2> QED BY <1>5, <1>6, <2>1
<1> HIDE DEF v, letters, text
<1>10. CASE px = <<0, X>>
  <2>1. bl = <<>>
    BY <1>1, <1>10
  <2>2. text = <<0, X>> \o dg
    <3>1. bl \o px = px
      BY <1>3, <2>1, ConcatEmptySeq
    <3> QED BY <1>10, <3>1 DEF text
  <2>3. Len(text) = Len(dg) + 2 /\ text[1] = 0 /\ text[2] = X /\ Len(dg) \in Nat
    BY <1>3, <2>2 DEF X
  <2>4. trimmed = v
    <3> DEFINE m == 0
    <3>1. /\ m \in 0..Len(text) /\ m # Len(text)
          /\ \A i \in 1..m : text[i] = Blank
          /\ m < Len(text) => text[m + 1] # Blank
      BY <2>3 DEF Blank
    <3> HIDE DEF m
    <3>2. ltrim(Info(text, 0, Len(text))) = Info(text, m, Len(text) - m)
      BY <1>4, <3>1, Trimmed
    <3> QED BY <1>9, <3>2 DEF v, m
  <2>5. SubSeq(text, 1, 2) = <<0, X>>
    <3> DEFINE r == SubSeq(text, 1, 2)
    <3>1. r \in Seq(Nat) /\ Len(r) = 2 /\ r[1] = text[1] /\ r[2] = text[2]
      BY <1>4, <2>3
    <3> HIDE DEF r
    <3> DEFINE q == <<0, X>>
    <3>2. q \in Seq(Nat) /\ Len(q) = 2 /\ q[1] = 0 /\ q[2] = X
      BY DEF X
    <3> HIDE DEF q
    <3>3. \A i \in 1..2 : r[i] = q[i]
      BY <2>3, <3>1, <3>2
    <3>4. r = q
      BY <3>1, <3>2, <3>3, SeqEqual
    <3> QED BY <3>4 DEF r, q
  <2> HIDE DEF trimmed
  <2>6. remove_hex_prefix(v) = Info(text, 2, Len(text) - 2)
    <3>1. ~ (trimmed.length < 2) /\ SubSeq(Piece(trimmed), 1, 2) = <<0, X>>
      <4>1. trimmed.length = Len(text) /\ Piece(trimmed) = text
        BY <1>8, <1>9, <2>4
      <4>2. ~ (Len(text) < 2)
        BY <2>3
      <4> QED BY <2>5, <4>1, <4>2
    <3>2. v.begin + 2 = 2 /\ v.length - 2 = Len(text) - 2
      BY <1>8
    <3> QED BY <1>8, <3>1, <3>2 DEF remove_hex_prefix, trimmed
  <2>7. letters = SubSeq(text, 3, Len(text))
    <3>1. 2 \in 0..Len(text) /\ 2 + 1 = 3
      BY <2>3
    <3> QED BY <1>5, <1>7, <2>6, <3>1
  <2>8. SubSeq(text, 3, Len(text)) = dg
    <3>1. \A i \in 1..Len(dg) : text[2 + i] = dg[i]
      BY <1>3, <2>2 DEF X
    <3>2. Len(text) = 2 + Len(dg) /\ 2 \in Nat /\ 2 + 1 = 3
      BY <2>3
    <3> QED BY <1>3, <1>4, <3>1, <3>2, SuffixIs
  <2> QED BY <2>7, <2>8
<1>11. CASE px = <<>>
  <2> DEFINE m == Len(bl)
  <2>1. text = bl \o dg
    <3>1. bl \o px = bl
      BY <1>3, <1>11, ConcatEmptySeq
    <3> QED BY <3>1, <1>11 DEF text
  <2>2. /\ m \in Nat /\ Len(dg) \in Nat /\ Len(text) = m + Len(dg)
        /\ \A i \in 1..m : text[i] = Blank
        /\ \A i \in 1..Len(dg) : text[m + i] = dg[i] /\ dg[i] \in Digit
    <3>1. \A i \in 1..m : bl[i] = Blank
      BY <1>1, ElementOfSeq
    <3>2. \A i \in 1..Len(dg) : dg[i] \in Digit
      BY <1>1, ElementOfSeq
    <3> QED BY <1>3, <2>1, <3>1, <3>2
  <2> HIDE DEF m
  <2>3. trimmed = IF m = Len(text) THEN v ELSE Info(text, m, Len(text) - m)
    <3>1. m \in 0..Len(text)
      BY <2>2
    <3>2. m < Len(text) => text[m + 1] # Blank
      <4> SUFFICES ASSUME m < Len(text) PROVE text[m + 1] # Blank
        OBVIOUS
      <4>1. 1 \in 1..Len(dg)
        BY <2>2
      <4> QED BY <1>2, <2>2, <4>1
    <3> QED BY <1>4, <2>2, <3>1, <3>2, Trimmed DEF v
  <2>4. SubSeq(text, m + 1, Len(text)) = dg
    BY <1>3, <1>4, <2>2, SuffixIs
  <2>5. Piece(trimmed) = IF m = Len(text) THEN text ELSE dg
    <3>1. m \in 0..Len(text)
      BY <2>2
    <3> QED BY <1>5, <1>9, <2>3, <2>4, <3>1
  <2> HIDE DEF trimmed
  <2>6. trimmed.length >= 2 => SubSeq(Piece(trimmed), 1, 2) # <<0, X>>
    <3> DEFINE s == Piece(trimmed)
               r == SubSeq(s, 1, 2)
    <3>1. s \in Seq(Nat) /\ Len(s) = trimmed.length /\ (\A i \in 1..Len(s) : s[i] # X)
      <4>1. CASE m = Len(text)
        <5>1. s = text /\ trimmed.length = Len(text)
          BY <1>8, <2>3, <2>5, <4>1
        <5>2. \A i \in 1..Len(text) : text[i] # X
          BY <1>2, <2>2, <4>1
        <5> QED BY <1>4, <5>1, <5>2
      <4>2. CASE m # Len(text)
        <5>1. s = dg /\ trimmed.length = Len(dg)
          <6>1. Info(text, m, Len(text) - m).length = Len(text) - m
            BY DEF Info
          <6>2. Len(text) - m = Len(dg)
            BY <2>2
          <6> QED BY <2>3, <2>5, <4>2, <6>1, <6>2
        <5>2. \A i \in 1..Len(dg) : dg[i] # X
          BY <1>2, <2>2
        <5> QED BY <1>3, <5>1, <5>2
      <4> QED BY <4>1, <4>2
    <3> HIDE DEF s
    <3> SUFFICES ASSUME Len(s) >= 2, r = <<0, X>> PROVE FALSE
      BY <3>1 DEF s
    <3>2. r[2] = X
      <4> HIDE DEF r
      <4> QED OBVIOUS
    <3>3. r[2] = s[2] /\ 2 \in 1..Len(s)
      BY <3>1
    <3> QED BY <3>1, <3>2, <3>3
  <2>7. remove_hex_prefix(v) = IF trimmed.length < 2 THEN v ELSE trimmed
    <3>1. CASE trimmed.length < 2
      BY <3>1 DEF remove_hex_prefix, trimmed
    <3>2. CASE ~ (trimmed.length < 2)
      <4>1. trimmed.length >= 2
        <5>1. trimmed.length \in Nat
          <6>1. Info(text, m, Len(text) - m).length = Len(text) - m
            BY DEF Info
          <6>2. Len(text) - m \in Nat
            BY <2>2
          <6> QED BY <1>4, <1>8, <2>3, <6>1, <6>2
        <5> QED BY <3>2, <5>1
      <4> QED BY <2>6, <3>2, <4>1 DEF remove_hex_prefix, trimmed
    <3> QED BY <3>1, <3>2
  <2>8. letters = Piece(v) \/ letters = Piece(trimmed)
    BY <1>7, <2>7
  <2>9. letters = text \/ letters = dg
    BY <1>9, <2>5, <2>8
  <2> QED BY <2>1, <2>9
<1> QED BY <1>1, <1>10, <1>11

(* Digits are plain.                                                         *)
LEMMA DigitsArePlain ==
  ASSUME NEW dg \in Seq(Digit)
  PROVE  BlanksFirst(dg, 0) /\ Plain(dg) = dg
<1>1. Digit \subseteq Nat /\ \A d \in Digit : d # Blank
  BY DEF Digit, Blank
<1>2. dg \in Seq(Nat) /\ \A i \in 1..Len(dg) : dg[i] \in Digit
  BY <1>1, SeqMonotonic, ElementOfSeq
<1>3. BlanksFirst(dg, 0)
  BY <1>2 DEF BlanksFirst
<1>4. Plain(dg) = dg
  <2>1. Plain(dg) \in Seq(Nat) /\ Len(Plain(dg)) = Len(dg)
    BY <1>3, PlainIs
  <2>2. \A i \in 1..Len(dg) : Plain(dg)[i] = dg[i]
    BY <1>1, <1>2 DEF Plain
  <2> QED BY <1>2, <2>1, <2>2, SeqEqual
<1> QED BY <1>3, <1>4

(* The constructor from text makes words that stand for its digits.          *)
LEMMA FromHexIs ==
  ASSUME NEW bl, NEW px, NEW dg, Numeral(bl, px, dg)
  PROVE  /\ FromHex(bl \o px \o dg) \in Seq(Word)
         /\ Digits(WordBase, FromHex(bl \o px \o dg)) = Digits(16, dg)
<1> DEFINE text == bl \o px \o dg
           letters == Letters(text)
<1> SUFFICES /\ FromHex(text) \in Seq(Word)
             /\ Digits(WordBase, FromHex(text)) = Digits(16, dg)
  OBVIOUS
<1>1. bl \in Seq({Blank}) /\ dg \in Seq(Digit)
  BY DEF Numeral
<1>2. FromHex(text) = WordsOf(letters)
  BY DEF FromHex, WordsOf, Letters
<1>3. letters = dg \/ letters = bl \o dg
  BY LettersAre, Zenon
<1> HIDE DEF letters, text
<1>4. CASE letters = dg
  <2>1. BlanksFirst(dg, 0) /\ Plain(dg) = dg
    BY <1>1, DigitsArePlain
  <2>2. dg \in Seq(Nat)
    <3>1. Digit \subseteq Nat
      BY DEF Digit
    <3> QED BY <1>1, <3>1, SeqMonotonic
  <2> QED BY <1>2, <1>4, <2>1, <2>2, WordsOfText
<1>5. CASE letters = bl \o dg
  <2> DEFINE c == bl \o dg
             m == Len(bl)
             t == Plain(c)
  <2>1. bl \in Seq(Nat) /\ dg \in Seq(Nat)
    <3>1. {Blank} \subseteq Nat /\ Digit \subseteq Nat
      BY DEF Blank, Digit
    <3> QED BY <1>1, <3>1, SeqMonotonic
  <2>2. c \in Seq(Nat) /\ Len(c) = m + Len(dg) /\ m \in Nat /\ Len(dg) \in Nat
    BY <2>1, ConcatProperties
  <2>3. \A i \in 1..m : c[i] = Blank
    <3>1. \A i \in 1..m : bl[i] = Blank
      BY <1>1, ElementOfSeq
    <3> QED BY <2>1, <3>1
  <2>4. \A i \in 1..Len(dg) : c[m + i] = dg[i] /\ dg[i] \in Digit
    <3>1. \A i \in 1..Len(dg) : dg[i] \in Digit
      BY <1>1, ElementOfSeq
    <3> QED BY <2>1, <3>1
  <2> HIDE DEF c, m
  <2>5. BlanksFirst(c, m)
    <3>1. ASSUME NEW i \in m + 1..Len(c) PROVE c[i] \in Digit
      <4>1. i - m \in 1..Len(dg) /\ m + (i - m) = i
        BY <2>2
      <4>2. c[m + (i - m)] \in Digit
        BY <2>4, <4>1
      <4> QED BY <4>1, <4>2
    <3>2. m \in 0..Len(c)
      BY <2>2
    <3> QED BY <2>2, <2>3, <3>1, <3>2 DEF BlanksFirst
  <2>6. /\ t \in Seq(Nat) /\ Len(t) = Len(c) /\ \A i \in 1..m : t[i] = 0
        /\ \A i \in m + 1..Len(c) : t[i] = c[i]
    BY <2>5, PlainIs
  <2> HIDE DEF t
  <2>7. SubSeq(t, m + 1, Len(t)) = dg
    <3>1. \A i \in 1..Len(dg) : t[m + i] = dg[i]
      <4> TAKE i \in 1..Len(dg)
      <4>1. m + i \in m + 1..Len(c)
        BY <2>2
      <4> QED BY <2>4, <2>6, <4>1
    <3> QED BY <2>1, <2>2, <2>6, <3>1, SuffixIs
  <2>8. Digits(16, dg) = Digits(16, t)
    <3>1. m + 1 \in 1..Len(t) + 1 /\ (m + 1) - 1 = m /\ 16 \in Nat
      BY <2>2, <2>6
    <3>2. \A i \in 1..(m + 1) - 1 : t[i] = 0
      BY <2>6, <3>1
    <3>3. Digits(16, SubSeq(t, m + 1, Len(t))) = Digits(16, t)
      BY <2>6, <3>1, <3>2, DigitsWithoutZeros, Zenon
    <3> QED BY <2>7, <3>3
  <2>9. WordsOf(c) \in Seq(Word) /\ Digits(WordBase, WordsOf(c)) = Digits(16, t)
    BY <2>5, WordsOfText DEF t
  <2> QED BY <1>2, <1>5, <2>8, <2>9 DEF c
<1> QED BY <1>3, <1>4, <1>5

(* A number read back from its own text has the words it was printed from.   *)
LEMMA TextGivesWordsBack ==
  ASSUME NEW w \in Seq(Word)
  PROVE  FromHex(HexString(w)) = w
<1> DEFINE h == HexString(w)
           N == WordDigits
           n == Len(w)
           letters == Letters(h)
<1>1. /\ h \in Seq(Digit) /\ Len(h) = N * n
      /\ \A k \in 1..n : SubSeq(h, N * (k - 1) + 1, N * k) = WordText(w[k])
  BY HexStringIs
<1>2. N \in Nat \ {0} /\ n \in Nat /\ h \in Seq(Nat) /\ \A k \in 1..n : w[k] \in Word
  <2>1. Digit \subseteq Nat
    BY DEF Digit
  <2>2. h \in Seq(Nat)
    BY <1>1, <2>1, SeqMonotonic
  <2> QED BY <2>2, WordBaseIs, WordSequence
<1> HIDE DEF h, n
<1>3. FromHex(h) = WordsOf(letters)
  BY DEF FromHex, WordsOf, Letters
<1>4. letters = h
  <2> DEFINE e == <<>>
  <2>1. Numeral(e, e, h)
    <3>1. e \in Seq({Blank}) /\ e = <<>> /\ e \in {<<>>, <<0, X>>}
      OBVIOUS
    <3> QED BY <1>1, <3>1 DEF Numeral
  <2>2. e \o e \o h = h /\ e \o h = h
    BY <1>2, ConcatEmptySeq
  <2> HIDE DEF letters, e
  <2>3. Letters(e \o e \o h) = h \/ Letters(e \o e \o h) = e \o h
    BY <2>1, LettersAre, Zenon
  <2> QED BY <2>2, <2>3 DEF letters
<1> HIDE DEF letters
<1>5. PICK cut, count, lack :
         /\ Cut(cut, count, lack, Len(h))
         /\ WordsOf(h) = [k \in 1..count |-> strtol16(SubSeq(h, cut[k - 1] + 1, cut[k]))]
  BY <1>2, WordsAreCut
<1> HIDE DEF N
<1>6. count = n /\ lack = 0
  <2>1. count \in Nat /\ lack \in 0..N - 1 /\ N * n = N * count - lack
    BY <1>1, <1>5 DEF Cut, N
  <2> DEFINE M == N * count
  <2>2. M \in Nat /\ N * n \in Nat
    BY <1>2, <2>1
  <2>3. M = N * n + lack /\ M = N * count + 0
    <3> DEFINE y == N * n
    <3>1. y \in Nat /\ y = M - lack
      BY <2>1, <2>2
    <3> HIDE DEF y, M
    <3>2. M = y + lack
      BY <1>2, <2>1, <2>2, <3>1
    <3>3. M + 0 = M
      BY <2>2
    <3> QED BY <3>2, <3>3 DEF y, M
  <2> HIDE DEF M
  <2>4. M \div N = n /\ M % N = lack
    BY <1>2, <2>1, <2>2, <2>3, DivUnique
  <2>5. M \div N = count /\ M % N = 0
    <3>1. 0 \in 0..N - 1
      BY <1>2
    <3> QED BY <1>2, <2>1, <2>2, <2>3, <3>1, DivUnique
  <2> QED BY <2>4, <2>5
<1>7. ASSUME NEW k \in 1..n PROVE strtol16(SubSeq(h, cut[k - 1] + 1, cut[k])) = w[k]
  <2>1. cut[k] = N * k /\ cut[k - 1] = N * (k - 1)
    <3>1. cut[k] = N * k - 0 /\ N * k \in Nat
      BY <1>2, <1>5, <1>6 DEF Cut, N
    <3>2. CASE k = 1
      <4>1. cut[0] = 0 /\ N * (1 - 1) = 0
        BY <1>2, <1>5 DEF Cut
      <4> QED BY <3>1, <3>2, <4>1
    <3>3. CASE k # 1
      <4>1. k - 1 \in 1..count
        BY <1>2, <1>6, <3>3
      <4>2. cut[k - 1] = N * (k - 1) - 0 /\ N * (k - 1) \in Nat
        BY <1>2, <1>5, <1>6, <4>1 DEF Cut, N
      <4> QED BY <3>1, <4>2
    <3> QED BY <3>2, <3>3
  <2>2. SubSeq(h, cut[k - 1] + 1, cut[k]) = WordText(w[k])
    BY <1>1, <2>1
  <2>3. WordText(w[k]) \in Seq(Digit) /\ Digits(16, WordText(w[k])) = w[k]
    BY <1>2, WordTextIs
  <2>4. strtol16(WordText(w[k])) = Digits(16, WordText(w[k]))
    <3>1. BlanksFirst(WordText(w[k]), 0) /\ Plain(WordText(w[k])) = WordText(w[k])
      BY <2>3, DigitsArePlain
    <3>2. strtol16(WordText(w[k])) = Digits(16, Plain(WordText(w[k])))
      BY <3>1, TextIsRead
    <3> QED BY <3>1, <3>2
  <2> QED BY <2>2, <2>3, <2>4
<1>8. WordsOf(h) = [k \in 1..n |-> w[k]]
  BY <1>5, <1>6, <1>7
<1>9. w = [k \in 1..n |-> w[k]]
  BY DEF n
<1> QED BY <1>3, <1>4, <1>8, <1>9 DEF h

-----------------------------------------------------------------------------
(* The other conversions.                                                    *)

(* Two digits and one.                                                       *)
LEMMA ShortDigits ==
  ASSUME NEW base \in Nat, NEW a \in Nat, NEW b \in Nat
  PROVE  /\ Digits(base, <<>>) = 0
         /\ Digits(base, <<a>>) = a
         /\ Digits(base, <<a, b>>) = base * a + b
<1>1. ASSUME NEW v \in Seq(Nat), NEW u, PartialValues(u, base, v)
      PROVE  Digits(base, v) = u[Len(v)]
  BY <1>1, DigitsAre
<1>2. Digits(base, <<>>) = 0
  <2> DEFINE v == <<>>
  <2>1. v \in Seq(Nat) /\ Len(v) = 0
    OBVIOUS
  <2> HIDE DEF v
  <2>2. PICK u : PartialValues(u, base, v) /\ Digits(base, v) = u[Len(v)]
    BY <2>1, DigitsUnfold
  <2> QED BY <2>1, <2>2 DEF PartialValues, v
<1>3. Digits(base, <<a>>) = a
  <2> DEFINE v == <<a>>
  <2>1. v \in Seq(Nat) /\ Len(v) = 1 /\ v[1] = a
    OBVIOUS
  <2> HIDE DEF v
  <2>2. PICK u : PartialValues(u, base, v) /\ Digits(base, v) = u[Len(v)]
    BY <2>1, DigitsUnfold
  <2>3. u[0] = 0 /\ u[1] = base * u[0] + a
    BY <2>1, <2>2, 1 - 1 = 0 DEF PartialValues
  <2> QED BY <2>1, <2>2, <2>3 DEF v
<1>4. Digits(base, <<a, b>>) = base * a + b
  <2> DEFINE v == <<a, b>>
  <2>1. v \in Seq(Nat) /\ Len(v) = 2 /\ v[1] = a /\ v[2] = b
    OBVIOUS
  <2> HIDE DEF v
  <2>2. PICK u : PartialValues(u, base, v) /\ Digits(base, v) = u[Len(v)]
    BY <2>1, DigitsUnfold
  <2>3. u[0] = 0 /\ u[1] = base * u[0] + a /\ u[2] = base * u[1] + b
    BY <2>1, <2>2, 1 - 1 = 0, 2 - 1 = 1 DEF PartialValues
  <2>4. u[1] = a
    BY <2>3
  <2> QED BY <2>1, <2>2, <2>3, <2>4 DEF v
<1> QED BY <1>2, <1>3, <1>4

(* The constructor from uint32_t makes one word or two that stand for it.    *)
LEMMA FromUintIs ==
  ASSUME NEW value \in 0..UintMax
  PROVE  FromUint(value) \in Seq(Word) /\ Digits(WordBase, FromUint(value)) = value
<1> DEFINE B == WordBase
           q == value \div B
           r == value % B
<1>1. B \in Nat \ {0}
  BY WordBaseIs
<1>2. value \in Nat /\ value < B * B
  <2>1. B * B \in Nat
    BY <1>1
  <2> DEFINE m == B * B
  <2>2. value \in 0..m - 1
    BY DEF UintMax
  <2> HIDE DEF m
  <2>3. value \in Nat /\ value < m
    BY <2>1, <2>2 DEF m
  <2> QED BY <2>3 DEF m
<1>3. q \in Nat /\ r \in 0..B - 1 /\ value = B * q + r
  BY <1>1, <1>2, DivMod
<1>4. FromUint(value) = IF value >= B THEN <<q, r>> ELSE <<r>>
  BY DEF FromUint
<1>5. Word = 0..B - 1
  BY DEF Word
<1> HIDE DEF q, r, B
<1>6. CASE value >= B
  <2>1. q < B
    <3> SUFFICES ASSUME B <= q PROVE FALSE
      BY <1>1, <1>3
    <3>1. B * B <= B * q
      BY <1>1, <1>3, ProductOrder
    <3> DEFINE m == B * B
               n == B * q
    <3>2. m \in Nat /\ n \in Nat
      BY <1>1, <1>3
    <3>3. m <= n /\ value = n + r /\ value < m
      BY <1>2, <1>3, <3>1
    <3> HIDE DEF m, n
    <3> QED BY <1>1, <1>3, <3>2, <3>3
  <2>2. q \in Word /\ r \in Word
    BY <1>1, <1>3, <1>5, <2>1
  <2>3. Digits(B, <<q, r>>) = B * q + r
    <3>1. r \in Nat
      BY <1>1, <1>3
    <3> QED BY <1>1, <1>3, <3>1, ShortDigits
  <2>4. <<q, r>> \in Seq(Word) /\ FromUint(value) = <<q, r>>
    BY <1>4, <1>6, <2>2
  <2>5. Digits(B, <<q, r>>) = value
    BY <1>3, <2>3
  <2> QED BY <2>4, <2>5, Zenon DEF B
<1>7. CASE ~ (value >= B)
  <2>1. value < B
    BY <1>1, <1>2, <1>7
  <2>2. value = B * 0 + value /\ value \in 0..B - 1
    BY <1>1, <1>2, <2>1
  <2>3. value % B = value
    BY <1>1, <1>2, <2>2, DivUnique
  <2>4. r \in Word /\ r \in Nat /\ r = value
    BY <1>1, <1>3, <1>5, <2>3 DEF r
  <2>5. Digits(B, <<r>>) = r
    BY <1>1, <2>4, ShortDigits
  <2> QED BY <1>4, <1>7, <2>4, <2>5 DEF B
<1> QED BY <1>6, <1>7

(* The bytes of the words.                                                   *)
ByteParts(w) == [i \in DOMAIN w |-> BigEndian(w[i], WordDigits \div 2)]

SameLength(s, length) == \A i \in 1..Len(s) : Len(s[i]) = length

(* z is the first n arrays of s, each of this length, behind each other.     *)
JoinedTo(z, s, length, n) ==
  /\ z \in Seq(Byte) /\ Len(z) = length * n
  /\ \A k \in 1..n : SubSeq(z, length * (k - 1) + 1, length * k) = s[k]

(* Bytes are the bytes of one word after the other.                          *)
LEMMA JoinedBytes ==
  ASSUME NEW H \in Nat \ {0}, NEW s \in Seq(Seq(Byte)), NEW u, Joined(u, s),
         SameLength(s, H), NEW n \in 1..Len(s)
  PROVE  JoinedTo(u[n], s, H, n)
<1> DEFINE Parts(m) == \A k \in 1..m : SubSeq(u[m], H * (k - 1) + 1, H * k) = s[k]
           Good == {m \in Nat : m + 1 <= Len(s) => Len(u[m + 1]) = H * (m + 1) /\ Parts(m + 1)}
<1>1. /\ Len(s) \in Nat
      /\ \A i \in 1..Len(s) : s[i] \in Seq(Byte) /\ u[i] \in Seq(Byte)
      /\ Len(s) > 0 => u[1] = s[1]
      /\ \A i \in 2..Len(s) : u[i] = u[i - 1] \o s[i]
  <2>1. Len(s) \in Nat /\ \A i \in 1..Len(s) : s[i] \in Seq(Byte)
    BY ElementOfSeq
  <2> QED BY <2>1 DEF Joined
<1>2. 0 \in Good
  <2> SUFFICES ASSUME 1 <= Len(s) PROVE Len(u[1]) = H * 1 /\ Parts(1)
    OBVIOUS
  <2>1. u[1] = s[1] /\ s[1] \in Seq(Byte) /\ Len(s[1]) = H
    BY <1>1 DEF SameLength
  <2>2. SubSeq(s[1], 1, H) = s[1]
    BY <2>1
  <2>3. H * (1 - 1) + 1 = 1 /\ H * 1 = H
    OBVIOUS
  <2> QED BY <2>1, <2>2, <2>3
<1>3. ASSUME NEW m \in Nat, m \in Good PROVE m + 1 \in Good
  <2> SUFFICES ASSUME (m + 1) + 1 <= Len(s)
               PROVE  Len(u[(m + 1) + 1]) = H * ((m + 1) + 1) /\ Parts((m + 1) + 1)
    OBVIOUS
  <2> DEFINE i == m + 1
             v == u[i]
             t == s[i + 1]
             a == H * i
  <2>1. /\ i + 1 \in 2..Len(s) /\ (i + 1) - 1 = i /\ i \in 1..Len(s) /\ i + 1 \in 1..Len(s)
        /\ m + 1 <= Len(s) /\ i \in Nat
    BY <1>1
  <2>2. Len(v) = a /\ \A k \in 1..i : SubSeq(v, H * (k - 1) + 1, H * k) = s[k]
    BY <1>3, <2>1
  <2>3. u[i + 1] = v \o t /\ v \in Seq(Byte) /\ t \in Seq(Byte) /\ Len(t) = H
    BY <1>1, <2>1 DEF SameLength
  <2>4. a \in Nat /\ H * (i + 1) = a + H
    BY <2>1
  <2> HIDE DEF i, v, t, Good
  <2>5. v \o t \in Seq(Byte) /\ Len(v \o t) = a + H
    BY <2>2, <2>3, <2>4, ConcatProperties
  <2>6. ASSUME NEW k \in 1..i + 1 PROVE SubSeq(v \o t, H * (k - 1) + 1, H * k) = s[k]
    <3>1. CASE k = i + 1
      <4>1. H * (k - 1) + 1 = a + 1 /\ H * k = a + H
        BY <2>1, <2>4, <3>1
      <4> HIDE DEF a
      <4> DEFINE x == SubSeq(v \o t, a + 1, a + H)
      <4>2. \A e \in 1..H : (v \o t)[a + e] = t[e]
        BY <2>2, <2>3, <2>4, ConcatProperties
      <4> DEFINE vt == v \o t
      <4>3. vt \in Seq(Byte) /\ Len(vt) = a + H /\ x = SubSeq(vt, a + 1, a + H)
        BY <2>5
      <4> HIDE DEF vt, x
      <4>4. x \in Seq(Byte) /\ Len(x) = H /\ \A e \in 1..H : x[e] = vt[a + e]
        BY <2>4, <4>3
      <4>5. \A e \in 1..H : x[e] = t[e]
        BY <4>2, <4>4 DEF vt
      <4>6. x = t
        BY <2>3, <4>4, <4>5, SeqEqual
      <4> QED BY <3>1, <4>1, <4>6 DEF x, t
    <3>2. CASE k # i + 1
      <4> DEFINE b == H * (k - 1)
                 x == SubSeq(v \o t, b + 1, b + H)
                 y == SubSeq(v, b + 1, b + H)
      <4>1. k \in 1..i
        BY <2>1, <3>2
      <4>2. b \in Nat /\ b + H <= a /\ H * k = b + H
        <5>1. k - 1 \in Nat /\ k \in Int /\ i \in Int /\ k <= i /\ H \in Nat
          BY <2>1, <4>1
        <5>2. H * k <= H * i
          BY <5>1, ProductOrder
        <5>3. H * k = b + H /\ b \in Nat
          BY <5>1
        <5> QED BY <5>2, <5>3
      <4>3. y = s[k]
        BY <2>2, <4>1, <4>2
      <4> HIDE DEF a, b
      <4>4. x \in Seq(Byte) /\ y \in Seq(Byte) /\ Len(x) = H /\ Len(y) = H /\ \A e \in 1..H : x[e] = y[e]
        BY <2>2, <2>3, <2>4, <2>5, <4>2
      <4>5. x = y
        <5> HIDE DEF x, y
        <5> QED BY <4>4, SeqEqual
      <4> QED BY <4>2, <4>3, <4>5 DEF b
    <3> QED BY <3>1, <3>2
  <2>7. Len(u[i + 1]) = H * (i + 1) /\ Parts(i + 1)
    BY <2>3, <2>4, <2>5, <2>6
  <2> QED BY <2>7 DEF i
<1>4. Nat \subseteq Good
  <2> HIDE DEF Good
  <2> QED BY <1>2, <1>3, NatInduct
<1>5. n - 1 \in Nat /\ (n - 1) + 1 = n /\ n <= Len(s)
  BY <1>1
<1>6. Len(u[n]) = H * n /\ Parts(n)
  BY <1>4, <1>5
<1> QED BY <1>1, <1>6 DEF JoinedTo

(* They are bytes, and stand for the number of the words.                    *)
LEMMA BytesOfIs ==
  ASSUME NEW w \in Seq(Word)
  PROVE  BytesOf(w) \in Seq(Byte) /\ Number(BytesOf(w)) = Digits(WordBase, w)
<1> DEFINE H == WordDigits \div 2
           s == ByteParts(w)
           z == BytesOf(w)
           p == [n \in Nat |-> Span(n)]
<1>1. /\ w \in Seq(Nat) /\ Len(w) \in Nat /\ DOMAIN w = 1..Len(w)
      /\ \A k \in 1..Len(w) : w[k] \in Nat /\ w[k] < WordBase
  BY WordSequence
<1>2. H \in Nat \ {0} /\ WordBase = Span(H) /\ WordBase \in Nat
  BY WordBaseIs
<1>3. z = FlattenSeq(s)
  BY DEF BytesOf, ByteParts
<1>4. s = [i \in 1..Len(w) |-> BigEndian(w[i], H)]
  BY <1>1 DEF ByteParts
<1> HIDE DEF H, s, z
<1>5. \A i \in 1..Len(w) : /\ s[i] \in Seq(Byte) /\ Len(s[i]) = H
                           /\ Number(s[i]) = w[i]
  <2> TAKE i \in 1..Len(w)
  <2>1. /\ BigEndian(w[i], H) \in Seq(Byte) /\ Len(BigEndian(w[i], H)) = H
        /\ Number(BigEndian(w[i], H)) = w[i]
    BY <1>1, <1>2, BigEndianProperties
  <2> QED BY <1>4, <2>1
<1>6. s \in Seq(Seq(Byte)) /\ Len(s) = Len(w)
  <2>1. s \in [1..Len(w) -> Seq(Byte)]
    BY <1>4, <1>5
  <2> QED BY <1>1, <1>4, <2>1
<1>7. CASE Len(w) = 0
  <2>1. w = <<>> /\ s = <<>>
    BY <1>1, <1>6, <1>7, EmptySeq
  <2>2. z = <<>>
    <3>1. FlattenSeq(<<>>) = <<>>
      BY DEF FlattenSeq
    <3> QED BY <1>3, <2>1, <3>1
  <2>3. Digits(256, <<>>) = 0 /\ Digits(WordBase, <<>>) = 0
    <3>1. 0 \in Nat /\ 256 \in Nat
      OBVIOUS
    <3> QED BY <1>2, <3>1, ShortDigits
  <2>4. <<>> \in Seq(Byte)
    OBVIOUS
  <2> QED BY <2>1, <2>2, <2>3, <2>4 DEF Number, z
<1>8. CASE Len(w) # 0
  <2>1. s # <<>> /\ Len(s) \in 1..Len(s)
    BY <1>1, <1>6, <1>8
  <2>2. PICK u : Joined(u, s) /\ FlattenSeq(s) = u[Len(s)]
    BY <1>6, <2>1, FlattenUnfolds
  <2>3. /\ z \in Seq(Byte) /\ Len(z) = H * Len(w)
        /\ \A k \in 1..Len(w) : SubSeq(z, H * (k - 1) + 1, H * k) = s[k]
    <3>1. SameLength(s, H)
      BY <1>5, <1>6 DEF SameLength
    <3> DEFINE n == Len(s)
    <3>2. n \in 1..Len(s)
      BY <2>1
    <3> HIDE DEF n
    <3>3. JoinedTo(u[n], s, H, n)
      BY <1>2, <1>6, <2>2, <3>1, <3>2, JoinedBytes
    <3> QED BY <1>3, <1>6, <2>2, <3>3 DEF JoinedTo, n
  <2>4. EvenGroups(H, 256, z, w)
    BY <1>5, <2>3 DEF EvenGroups, Number
  <2>5. z \in Seq(Nat) /\ 256 \in Nat \ {0}
    BY <2>3, ByteSequence
  <2>6. Powers(p, 256) /\ p[H] = WordBase
    BY <1>2, SpansArePowers
  <2> HIDE DEF p
  <2>7. Digits(WordBase, w) = Digits(256, z)
    BY <1>1, <1>2, <2>4, <2>5, <2>6, EvenlyRegrouped
  <2> QED BY <2>3, <2>7 DEF z, Number
<1> QED BY <1>7, <1>8

-----------------------------------------------------------------------------
(* Decimal strings: columns of sums, the lowest first.                       *)

(* Every base has its powers.                                                *)
LEMMA PowersExist ==
  ASSUME NEW base \in Nat \ {0}
  PROVE  \E p : Powers(p, base)
<1> DEFINE V == Nat \ {0}
           Step == [x \in V \X Nat |-> base * x[1]]
<1>1. Step \in [V \X Nat -> V]
  <2>1. ASSUME NEW x \in V \X Nat PROVE base * x[1] \in V
    <3>1. \A a \in V : base * a \in Nat /\ base * a # 0
      OBVIOUS
    <3> QED BY <3>1
  <2> QED BY <2>1
<1>2. \A a \in V, n \in Nat : Step[<<a, n>>] = base * a
  OBVIOUS
<1>3. 1 \in V
  OBVIOUS
<1> HIDE DEF Step, V
<1>4. PICK p \in [Nat -> V] : Iterates(p, Nat \ {0}, 1, Step)
  BY <1>1, <1>3, NatRecursion
<1>5. p[0] = 1 /\ \A n \in Nat \ {0} : p[n] = Step[<<p[n - 1], n>>]
  BY <1>4 DEF Iterates
<1>6. ASSUME NEW n \in Nat PROVE p[n + 1] = base * p[n]
  <2>1. n + 1 \in Nat \ {0} /\ (n + 1) - 1 = n /\ n + 1 \in Nat /\ p[n] \in V
    BY <1>4
  <2>2. p[n + 1] = Step[<<p[n], n + 1>>]
    BY <1>5, <2>1
  <2> QED BY <1>2, <2>1, <2>2
<1> QED BY <1>4, <1>5, <1>6 DEF Powers, V

(* Adding exponents multiplies powers.                                       *)
LEMMA PowersAdd ==
  ASSUME NEW base \in Nat \ {0}, NEW p, Powers(p, base),
         NEW m \in Nat, NEW n \in Nat, NEW s, s = m + n
  PROVE  p[s] = p[m] * p[n]
<1> DEFINE Good == {k \in Nat : p[m + k] = p[m] * p[k]}
<1>1. \A k \in Nat : p[k] \in Nat \ {0} /\ p[k + 1] = base * p[k]
  BY DEF Powers
<1>2. 0 \in Good
  <2>1. p[0] = 1 /\ p[m] * 1 = p[m] /\ m + 0 = m
    BY <1>1 DEF Powers
  <2> QED BY <2>1
<1>3. ASSUME NEW k \in Nat, k \in Good PROVE k + 1 \in Good
  <2> DEFINE a == p[m]
             b == p[k]
             c == p[m + k]
  <2>1. c = a * b /\ a \in Nat /\ b \in Nat /\ c \in Nat
    BY <1>1, <1>3, m + k \in Nat
  <2>2. p[(m + k) + 1] = base * c /\ p[k + 1] = base * b
    BY <1>1, m + k \in Nat
  <2>3. m + (k + 1) = (m + k) + 1 /\ k + 1 \in Nat
    OBVIOUS
  <2> HIDE DEF a, b, c
  <2>4. base * c = a * (base * b)
    BY <2>1
  <2> QED BY <2>2, <2>3, <2>4 DEF a
<1>4. Nat \subseteq Good
  <2> HIDE DEF Good
  <2> QED BY <1>2, <1>3, NatInduct
<1> QED BY <1>4

(* The value of the first i columns c, for every i.                          *)
ColumnSums(u, p, c) ==
  /\ u \in [0..Len(c) -> Nat]
  /\ u[0] = 0
  /\ \A i \in 1..Len(c) : u[i] = u[i - 1] + p[i - 1] * c[i]

(* Columns have these values.                                                *)
LEMMA ColumnSumsExist ==
  ASSUME NEW p \in [Nat -> Nat \ {0}], NEW c \in Seq(Nat)
  PROVE  \E u : ColumnSums(u, p, c)
<1> DEFINE N == Len(c)
           t == [i \in 1..N |-> p[i - 1] * c[i]]
           e == [i \in Nat |-> IF i \in 1..N THEN t[i] ELSE 0]
           Step == [x \in Nat \X Nat |-> x[1] + e[x[2]]]
<1>1. N \in Nat
  OBVIOUS
<1>2. \A i \in 1..N : t[i] \in Nat /\ t[i] = p[i - 1] * c[i]
  <2> TAKE i \in 1..N
  <2> DEFINE a == p[i - 1]
             b == c[i]
  <2>1. a \in Nat /\ b \in Nat
    BY ElementOfSeq, i - 1 \in Nat
  <2>2. t[i] = a * b
    OBVIOUS
  <2> HIDE DEF a, b, t
  <2>3. a * b \in Nat
    BY <2>1
  <2> QED BY <2>2, <2>3 DEF a, b
<1> HIDE DEF t, N
<1>3. e \in [Nat -> Nat] /\ \A i \in 1..N : e[i] = t[i] /\ i \in Nat
  BY <1>1, <1>2
<1> HIDE DEF e
<1>4. Step \in [Nat \X Nat -> Nat] /\ \A a \in Nat, i \in Nat : Step[<<a, i>>] = a + e[i]
  <2>1. ASSUME NEW x \in Nat \X Nat PROVE x[1] + e[x[2]] \in Nat
    <3> DEFINE a == x[1]
               i == x[2]
               y == e[i]
    <3>1. a \in Nat /\ i \in Nat
      OBVIOUS
    <3> HIDE DEF a, i
    <3>2. y \in Nat
      BY <1>3, <3>1
    <3> HIDE DEF y
    <3>3. a + y \in Nat
      BY <3>1, <3>2
    <3> QED BY <3>3 DEF a, i, y
  <2> QED BY <2>1
<1> HIDE DEF Step
<1>5. PICK f \in [0..N -> Nat] : Iterates(f, 1..N, 0, Step)
  BY <1>1, <1>4, BoundedRecursion
<1>6. f[0] = 0 /\ \A n \in 1..N : f[n] = Step[<<f[n - 1], n>>]
  BY <1>5 DEF Iterates
<1>7. \A i \in 1..N : f[i] = f[i - 1] + p[i - 1] * c[i]
  <2> TAKE i \in 1..N
  <2>1. i - 1 \in 0..N /\ i \in 1..N
    BY <1>1
  <2>2. f[i - 1] \in Nat
    BY <2>1
  <2> QED BY <1>2, <1>3, <1>4, <1>6, <2>1, <2>2
<1> QED BY <1>6, <1>7 DEF ColumnSums, N

(* What columns stand for, the lowest first.                                 *)
ValueOf(c) == Digits(10, Reverse(c))

(* It is the value of all of them.                                           *)
LEMMA ValueIsSum ==
  ASSUME NEW p, Powers(p, 10), NEW c \in Seq(Nat), NEW u, ColumnSums(u, p, c)
  PROVE  ValueOf(c) = u[Len(c)] /\ ValueOf(c) \in Nat
<1> DEFINE n == Len(c)
           v == Reverse(c)
<1>1. n \in Nat /\ \A i \in 1..n : c[i] \in Nat
  BY ElementOfSeq
<1>2. v \in Seq(Nat) /\ Len(v) = n /\ \A i \in 1..n : v[i] = c[(n - i) + 1]
  <2>1. \A i \in 1..n : (n - i) + 1 \in 1..n
    BY <1>1
  <2>2. v = [i \in 1..n |-> c[(n - i) + 1]]
    BY DEF Reverse
  <2>3. v \in [1..n -> Nat]
    BY <1>1, <2>1, <2>2
  <2> QED BY <1>1, <2>2, <2>3
<1> HIDE DEF v
<1>3. PICK g : PartialValues(g, 10, v) /\ Digits(10, v) = g[Len(v)]
  BY <1>2, DigitsUnfold, 10 \in Nat
<1>4. /\ g[0] = 0 /\ \A i \in 0..n : g[i] \in Nat
      /\ \A i \in 1..n : g[i] = 10 * g[i - 1] + v[i]
  BY <1>2, <1>3 DEF PartialValues
<1>5. /\ u[0] = 0 /\ \A i \in 0..n : u[i] \in Nat
      /\ \A i \in 1..n : u[i] = u[i - 1] + p[i - 1] * c[i]
  BY DEF ColumnSums
<1>6. p[0] = 1 /\ \A k \in Nat : p[k] \in Nat /\ p[k + 1] = 10 * p[k]
  BY DEF Powers
<1> HIDE DEF n
<1> DEFINE Good == {k \in Nat : k <= n => p[n - k] * g[k] + u[n - k] = u[n]}
<1>7. 0 \in Good
  <2> DEFINE q == p[n]
  <2>1. q \in Nat /\ n \in 0..n
    BY <1>1, <1>6
  <2>2. u[n] \in Nat
    BY <1>5, <2>1
  <2> HIDE DEF q
  <2>3. q * 0 = 0
    BY <2>1
  <2>4. n - 0 = n
    BY <1>1
  <2> QED BY <1>4, <2>2, <2>3, <2>4 DEF q
<1>8. ASSUME NEW k \in Nat, k \in Good PROVE k + 1 \in Good
  <2> SUFFICES ASSUME k + 1 <= n PROVE p[n - (k + 1)] * g[k + 1] + u[n - (k + 1)] = u[n]
    OBVIOUS
  <2> DEFINE j == n - (k + 1)
             q == p[j]
             d == c[j + 1]
             x == g[k]
             y == u[j]
  <2>1. /\ j \in Nat /\ j + 1 \in 1..n /\ (j + 1) - 1 = j /\ n - k = j + 1 /\ j \in 0..n
        /\ k \in 0..n /\ k + 1 \in 1..n /\ (k + 1) - 1 = k /\ (n - (k + 1)) + 1 = j + 1
    BY <1>1
  <2>2. g[k + 1] = 10 * x + d
    BY <1>2, <1>4, <2>1
  <2>3. u[j + 1] = y + q * d
    BY <1>5, <2>1
  <2>4. p[j + 1] = 10 * q
    BY <1>6, <2>1
  <2>5. p[j + 1] * x + u[j + 1] = u[n]
    BY <1>1, <1>8, <2>1
  <2>6. x \in Nat /\ y \in Nat /\ q \in Nat /\ d \in Nat
    BY <1>1, <1>4, <1>5, <1>6, <2>1
  <2> HIDE DEF q, d, x, y, j
  <2>7. q * (10 * x + d) + y = (10 * q) * x + (y + q * d)
    BY <2>6
  <2>8. q * g[k + 1] + y = u[n]
    BY <2>2, <2>3, <2>4, <2>5, <2>7
  <2> QED BY <2>8 DEF q, y, j
<1>9. Nat \subseteq Good
  <2> HIDE DEF Good
  <2> QED BY <1>7, <1>8, NatInduct
<1>10. p[0] * g[n] + u[0] = u[n]
  <2>1. n \in Good /\ n - n = 0
    BY <1>1, <1>9
  <2> QED BY <1>1, <2>1
<1>11. g[n] = u[n] /\ u[n] \in Nat
  <2>1. n \in 0..n
    BY <1>1
  <2>2. g[n] \in Nat /\ u[n] \in Nat
    BY <1>4, <1>5, <2>1
  <2> DEFINE x == g[n]
  <2>3. 1 * x + 0 = u[n]
    BY <1>5, <1>6, <1>10
  <2> HIDE DEF x
  <2>4. 1 * x + 0 = x
    BY <2>2 DEF x
  <2> QED BY <2>2, <2>3, <2>4 DEF x
<1> QED BY <1>2, <1>3, <1>11 DEF ValueOf, v, n

(* A column is divided by ten, and the quotient carried to the next.         *)
Carries(f, c) ==
  /\ f \in [1..Len(c) -> Nat]
  /\ \A i \in 1..Len(c) : f[i] = c[i] + (IF i = 1 THEN 0 ELSE f[i - 1] \div 10)

WithoutCarries(f, n) == [i \in 1..n |-> IF i < n THEN f[i] % 10 ELSE f[i]]

(* That is what Carried does.                                                *)
LEMMA CarriedUnfolds ==
  ASSUME NEW c \in Seq(Nat)
  PROVE  \E f : Carries(f, c) /\ Carried(c) = Reverse(WithoutCarries(f, Len(c)))
<1> DEFINE n == Len(c)
           Fix(g) == g = [i \in 1..n |-> c[i] + (IF i = 1 THEN 0 ELSE g[i - 1] \div 10)]
           e == [i \in Nat |-> IF i \in 1..n THEN c[i] ELSE 0]
           Step == [x \in Nat \X Nat |-> e[x[2]] + x[1] \div 10]
<1>1. n \in Nat /\ \A i \in 1..n : c[i] \in Nat
  BY ElementOfSeq
<1>2. e \in [Nat -> Nat] /\ \A i \in 1..n : e[i] = c[i] /\ i \in Nat
  BY <1>1
<1> HIDE DEF e
<1>3. Step \in [Nat \X Nat -> Nat] /\ \A a \in Nat, i \in Nat : Step[<<a, i>>] = e[i] + a \div 10
  <2>1. ASSUME NEW x \in Nat \X Nat PROVE e[x[2]] + x[1] \div 10 \in Nat
    <3> DEFINE a == x[1]
               i == x[2]
               y == e[i]
    <3>1. a \in Nat /\ i \in Nat
      OBVIOUS
    <3> HIDE DEF a, i
    <3>2. y \in Nat
      BY <1>2, <3>1
    <3> HIDE DEF y
    <3>3. y + a \div 10 \in Nat
      BY <3>1, <3>2
    <3> QED BY <3>3 DEF a, i, y
  <2> QED BY <2>1
<1> HIDE DEF Step
<1>4. PICK f \in [0..n -> Nat] : Iterates(f, 1..n, 0, Step)
  BY <1>1, <1>3, BoundedRecursion
<1>5. f[0] = 0 /\ \A i \in 1..n : f[i] = Step[<<f[i - 1], i>>]
  BY <1>4 DEF Iterates
<1>6. \A i \in 1..n : f[i] \in Nat /\ f[i] = c[i] + f[i - 1] \div 10
  <2> TAKE i \in 1..n
  <2>1. i - 1 \in 0..n /\ i \in 0..n /\ i \in Nat
    BY <1>1
  <2>2. f[i - 1] \in Nat /\ f[i] \in Nat
    BY <2>1
  <2>3. Step[<<f[i - 1], i>>] = e[i] + f[i - 1] \div 10
    BY <1>3, <2>1, <2>2
  <2>4. e[i] = c[i]
    BY <1>2
  <2> QED BY <1>5, <2>2, <2>3, <2>4
<1> DEFINE h == [i \in 1..n |-> f[i]]
<1>7. Fix(h)
  <2>1. ASSUME NEW i \in 1..n PROVE h[i] = c[i] + (IF i = 1 THEN 0 ELSE h[i - 1] \div 10)
    <3>1. CASE i = 1
      <4>1. f[1] = c[1] + 0 \div 10 /\ 0 \div 10 = 0
        BY <1>5, <1>6, <3>1, 1 - 1 = 0
      <4> QED BY <3>1, <4>1
    <3>2. CASE i # 1
      <4>1. i - 1 \in 1..n
        BY <1>1, <3>2
      <4> QED BY <1>6, <3>2, <4>1
    <3> QED BY <3>1, <3>2
  <2> HIDE DEF h, n
  <2>2. h = [i \in 1..n |-> h[i]]
    BY DEF h
  <2> QED BY <2>1, <2>2
<1> HIDE DEF h
<1> DEFINE column == CHOOSE g : Fix(g)
<1>8. Fix(column)
  <2> HIDE DEF Fix
  <2> QED BY <1>7
<1>9. Carried(c) = Reverse(WithoutCarries(column, n))
  BY DEF Carried, WithoutCarries
<1> HIDE DEF column
<1>10. \A i \in 1..n : column[i] = c[i] + (IF i = 1 THEN 0 ELSE column[i - 1] \div 10)
  BY <1>8
<1> DEFINE Good == {k \in Nat : k + 1 <= n => column[k + 1] \in Nat}
<1>11. 0 \in Good
  BY <1>1, <1>10
<1>12. ASSUME NEW k \in Nat, k \in Good PROVE k + 1 \in Good
  <2> SUFFICES ASSUME (k + 1) + 1 <= n PROVE column[(k + 1) + 1] \in Nat
    OBVIOUS
  <2> DEFINE i == (k + 1) + 1
             y == column[k + 1]
  <2>1. i \in 1..n /\ i # 1 /\ i - 1 = k + 1 /\ k + 1 <= n
    BY <1>1
  <2>2. y \in Nat /\ c[i] \in Nat
    BY <1>1, <1>12, <2>1
  <2>3. column[i] = c[i] + y \div 10
    BY <1>10, <2>1
  <2> HIDE DEF i, y
  <2>4. c[i] + y \div 10 \in Nat
    BY <2>2
  <2> QED BY <2>3, <2>4 DEF i
<1>13. Nat \subseteq Good
  <2> HIDE DEF Good
  <2> QED BY <1>11, <1>12, NatInduct
<1>14. \A i \in 1..n : column[i] \in Nat
  <2> TAKE i \in 1..n
  <2>1. i - 1 \in Nat /\ (i - 1) + 1 = i /\ i <= n
    BY <1>1
  <2> QED BY <1>13, <2>1
<1>15. column \in [1..n -> Nat]
  <2>1. column = [i \in 1..n |-> column[i]]
    BY <1>8
  <2> HIDE DEF Fix
  <2> QED BY <1>14, <2>1
<1>16. Carries(column, c)
  BY <1>10, <1>15 DEF Carries
<1> QED BY <1>9, <1>16

(* It leaves digits, and the value as it was.                                *)
LEMMA CarriedIs ==
  ASSUME NEW p, Powers(p, 10), NEW c \in Seq(Nat), c # <<>>, ValueOf(c) < p[Len(c)]
  PROVE  Carried(c) \in Seq(0..9) /\ Digits(10, Carried(c)) = ValueOf(c)
<1> DEFINE n == Len(c)
<1>1. n \in Nat /\ n >= 1 /\ \A i \in 1..n : c[i] \in Nat
  BY EmptySeq, ElementOfSeq
<1>2. PICK f : Carries(f, c) /\ Carried(c) = Reverse(WithoutCarries(f, n))
  BY CarriedUnfolds
<1> DEFINE out == WithoutCarries(f, n)
           carry(k) == IF k = 0 THEN 0 ELSE f[k] \div 10
<1>3. \A i \in 1..n : f[i] \in Nat /\ f[i] = c[i] + carry(i - 1)
  <2>1. \A i \in 1..n : f[i] \in Nat
    BY <1>2 DEF Carries
  <2>2. ASSUME NEW i \in 1..n PROVE f[i] = c[i] + carry(i - 1)
    <3>1. i = 1 <=> i - 1 = 0
      BY <1>1
    <3> QED BY <1>2, <3>1 DEF Carries
  <2> QED BY <2>1, <2>2
<1>4. /\ out \in Seq(Nat) /\ Len(out) = n
      /\ \A i \in 1..n : out[i] \in Nat /\ out[i] = IF i < n THEN f[i] % 10 ELSE f[i]
  <2>1. \A i \in 1..n : f[i] % 10 \in Nat
    BY <1>3
  <2>2. out = [i \in 1..n |-> IF i < n THEN f[i] % 10 ELSE f[i]]
    BY DEF WithoutCarries
  <2>3. out \in [1..n -> Nat]
    BY <1>3, <2>1, <2>2
  <2> HIDE DEF n, out
  <2> QED BY <1>1, <2>2, <2>3
<1>5. p \in [Nat -> Nat \ {0}] /\ \A k \in Nat : p[k] \in Nat /\ p[k] # 0 /\ p[k + 1] = 10 * p[k]
  BY DEF Powers
<1>6. PICK s : ColumnSums(s, p, c)
  BY <1>5, ColumnSumsExist
<1>7. PICK u : ColumnSums(u, p, out)
  BY <1>4, <1>5, ColumnSumsExist
<1>8. /\ s[0] = 0 /\ \A i \in 0..n : s[i] \in Nat
      /\ \A i \in 1..n : s[i] = s[i - 1] + p[i - 1] * c[i]
      /\ ValueOf(c) = s[n]
  <2>1. ValueOf(c) = s[n]
    BY <1>6, ValueIsSum
  <2> QED BY <1>6, <2>1 DEF ColumnSums
<1> HIDE DEF out, n
<1>9. /\ u[0] = 0 /\ \A i \in 0..n : u[i] \in Nat
      /\ \A i \in 1..n : u[i] = u[i - 1] + p[i - 1] * out[i]
      /\ ValueOf(out) = u[n]
  <2>1. ValueOf(out) = u[Len(out)]
    BY <1>4, <1>7, ValueIsSum
  <2> QED BY <1>4, <1>7, <2>1 DEF ColumnSums
<1>10. \A k \in 0..n : carry(k) \in Nat
  <2> TAKE k \in 0..n
  <2>1. CASE k = 0
    BY <2>1
  <2>2. CASE k # 0
    <3>1. f[k] \in Nat
      BY <1>1, <1>3, <2>2
    <3>2. f[k] \div 10 \in Nat
      BY <3>1
    <3> QED BY <2>2, <3>2
  <2> QED BY <2>1, <2>2
<1> DEFINE Good == {k \in Nat : k < n => u[k] + p[k] * carry(k) = s[k]}
<1>11. 0 \in Good
  <2>1. carry(0) = 0 /\ p[0] = 1
    BY DEF Powers
  <2> QED BY <1>8, <1>9, <2>1
<1>12. ASSUME NEW k \in Nat, k \in Good PROVE k + 1 \in Good
  <2> SUFFICES ASSUME k + 1 < n PROVE u[k + 1] + p[k + 1] * carry(k + 1) = s[k + 1]
    OBVIOUS
  <2> DEFINE q == p[k]
             x == f[k + 1]
             a == x % 10
             b == x \div 10
             y == carry(k)
             z == c[k + 1]
             v == u[k]
  <2>1. k < n /\ k + 1 \in 1..n /\ (k + 1) - 1 = k /\ k \in 0..n
    BY <1>1
  <2>2. v + q * y = s[k]
    BY <1>12, <2>1
  <2>3. u[k + 1] = v + q * a
    BY <1>4, <1>9, <2>1
  <2>4. s[k + 1] = s[k] + q * z
    BY <1>8, <2>1
  <2>5. p[k + 1] = 10 * q /\ carry(k + 1) = b
    BY <1>5
  <2>6. x = z + y
    BY <1>3, <2>1
  <2>7. q \in Nat /\ x \in Nat /\ y \in Nat /\ z \in Nat /\ v \in Nat
    BY <1>1, <1>3, <1>5, <1>9, <1>10, <2>1
  <2> HIDE DEF q, x, y, z, v, carry
  <2>8. x = 10 * b + a /\ a \in Nat /\ b \in Nat
    BY <2>7
  <2> HIDE DEF a, b
  <2>9. (v + q * a) + (10 * q) * b = v + q * (10 * b + a)
    BY <2>7, <2>8
  <2>10. v + q * (z + y) = (v + q * y) + q * z
    BY <2>7
  <2>11. 10 * b + a = z + y
    BY <2>6, <2>8
  <2>12. (v + q * a) + (10 * q) * b = (v + q * y) + q * z
    BY <2>9, <2>10, <2>11
  <2> QED BY <2>2, <2>3, <2>4, <2>5, <2>12
<1>13. Nat \subseteq Good
  <2> HIDE DEF Good
  <2> QED BY <1>11, <1>12, NatInduct
<1> DEFINE m == n - 1
<1>14. m \in Nat /\ m < n /\ m + 1 = n /\ n \in 1..n /\ m \in 0..n /\ n \in 0..n
  BY <1>1
<1>15. u[m] + p[m] * carry(m) = s[m]
  BY <1>13, <1>14
<1> DEFINE q == p[m]
           x == f[n]
           y == carry(m)
           z == c[n]
           v == u[m]
<1>16. q \in Nat /\ q # 0 /\ x \in Nat /\ y \in Nat /\ z \in Nat /\ v \in Nat /\ p[n] = 10 * q
  BY <1>1, <1>3, <1>5, <1>9, <1>10, <1>14
<1>17. u[n] = v + q * x
  BY <1>4, <1>9, <1>14
<1>18. s[n] = (v + q * y) + q * z
  BY <1>8, <1>14, <1>15
<1>19. x = z + y
  BY <1>3, <1>14
<1> HIDE DEF m, q, x, y, z, v, carry
<1>20. u[n] = s[n]
  <2>1. v + q * (z + y) = (v + q * y) + q * z
    BY <1>16
  <2> QED BY <1>17, <1>18, <1>19, <2>1
<1>21. x < 10
  <2> SUFFICES ASSUME 10 <= x PROVE FALSE
    BY <1>16
  <2> DEFINE qx == q * x
             q10 == q * 10
  <2>1. q10 <= qx
    BY <1>16, ProductOrder
  <2>2. qx \in Nat /\ q10 \in Nat /\ 10 * q = q10
    BY <1>16
  <2>3. v + qx < q10
    BY <1>8, <1>16, <1>17, <1>20, <2>2 DEF n
  <2> HIDE DEF qx, q10
  <2> QED BY <1>16, <2>1, <2>2, <2>3
<1>22. \A i \in 1..n : out[i] \in 0..9
  <2> TAKE i \in 1..n
  <2>1. CASE i < n
    <3> DEFINE y1 == f[i]
    <3>1. y1 \in Nat
      BY <1>3
    <3> HIDE DEF y1
    <3>2. y1 % 10 \in 0..9
      BY <3>1
    <3> QED BY <1>4, <2>1, <3>2 DEF y1
  <2>2. CASE ~ (i < n)
    <3>1. i = n
      BY <1>1, <2>2
    <3>2. out[i] = x
      BY <1>4, <2>2, <3>1 DEF x
    <3>3. x \in 0..9
      BY <1>16, <1>21
    <3> QED BY <3>2, <3>3
  <2> QED BY <2>1, <2>2
<1>23. Reverse(out) \in Seq(0..9)
  <2>1. \A i \in 1..n : (n - i) + 1 \in 1..n
    BY <1>1
  <2>2. Reverse(out) = [i \in 1..n |-> out[(n - i) + 1]]
    BY <1>4 DEF Reverse
  <2>3. Reverse(out) \in [1..n -> 0..9]
    BY <1>22, <2>1, <2>2
  <2> QED BY <1>1, <2>3
<1>24. Digits(10, Reverse(out)) = ValueOf(c)
  BY <1>8, <1>9, <1>20 DEF ValueOf
<1> QED BY <1>2, <1>23, <1>24 DEF out

(* The columns of a string: its digits from its end, and then zeros.         *)
Columns(s, length) == [i \in 1..length |-> FromEnd(s, i - 1)]

(* They stand for the same number.                                           *)
LEMMA ColumnsAre ==
  ASSUME NEW s \in Seq(Nat), NEW length \in Nat, Len(s) <= length
  PROVE  /\ Columns(s, length) \in Seq(Nat) /\ Len(Columns(s, length)) = length
         /\ ValueOf(Columns(s, length)) = Digits(10, s)
<1> DEFINE n == Len(s)
           c == Columns(s, length)
           z == Reverse(c)
           m == length - n
<1>1. n \in Nat /\ m \in Nat /\ length = m + n /\ \A i \in 1..n : s[i] \in Nat
  BY ElementOfSeq
<1>2. \A i \in Nat : FromEnd(s, i) \in Nat /\ FromEnd(s, i) = IF i < n THEN s[n - i] ELSE 0
  <2> TAKE i \in Nat
  <2>1. i < n => n - i \in 1..n
    BY <1>1
  <2> QED BY <1>1, <2>1 DEF FromEnd
<1>3. c \in Seq(Nat) /\ Len(c) = length /\ \A i \in 1..length : c[i] = FromEnd(s, i - 1)
  <2>1. \A i \in 1..length : FromEnd(s, i - 1) \in Nat
    BY <1>2
  <2>2. c = [i \in 1..length |-> FromEnd(s, i - 1)]
    BY DEF Columns
  <2>3. c \in [1..length -> Nat]
    BY <2>1, <2>2
  <2> QED BY <2>2, <2>3
<1> HIDE DEF c, n
<1>4. \A j \in 1..length : z[j] = FromEnd(s, length - j)
  <2> TAKE j \in 1..length
  <2> DEFINE i == (length - j) + 1
  <2>1. i \in 1..length /\ i - 1 = length - j
    OBVIOUS
  <2>2. z[j] = c[i]
    BY <1>3 DEF Reverse
  <2> HIDE DEF i
  <2> QED BY <1>3, <2>1, <2>2
<1>5. z \in Seq(Nat) /\ Len(z) = length
  <2>1. \A j \in 1..length : FromEnd(s, length - j) \in Nat
    BY <1>2
  <2>2. z = [j \in 1..length |-> c[(length - j) + 1]]
    BY <1>3 DEF Reverse
  <2>3. \A j \in 1..length : z[j] \in Nat
    BY <1>4, <2>1
  <2> HIDE DEF z
  <2>4. z = [j \in 1..length |-> z[j]]
    BY <2>2
  <2>5. z \in [1..length -> Nat]
    BY <2>3, <2>4
  <2> QED BY <2>2, <2>5
<1> HIDE DEF z, m
<1>6. \A j \in 1..m : z[j] = 0
  <2> TAKE j \in 1..m
  <2>1. j \in 1..length /\ length - j \in Nat /\ ~ (length - j < n)
    BY <1>1
  <2> QED BY <1>2, <1>4, <2>1
<1>7. \A i \in 1..n : z[m + i] = s[i]
  <2> TAKE i \in 1..n
  <2>1. m + i \in 1..length /\ length - (m + i) = n - i /\ n - i \in Nat /\ n - i < n /\ n - (n - i) = i
    BY <1>1
  <2> QED BY <1>2, <1>4, <2>1
<1>8. SubSeq(z, m + 1, Len(z)) = s
  BY <1>1, <1>5, <1>7, SuffixIs DEF n
<1>9. Digits(10, z) = Digits(10, s)
  <2> DEFINE k == m + 1
  <2>1. k \in 1..Len(z) + 1 /\ k - 1 = m /\ 10 \in Nat
    BY <1>1, <1>5
  <2>2. \A j \in 1..k - 1 : z[j] = 0
    BY <1>6, <2>1
  <2> HIDE DEF k
  <2>3. Digits(10, SubSeq(z, k, Len(z))) = Digits(10, z)
    BY <1>5, <2>1, <2>2, DigitsWithoutZeros
  <2> QED BY <1>8, <2>3 DEF k
<1> QED BY <1>3, <1>9 DEF ValueOf, c, z

(* c is a and b, column by column.                                           *)
SumOf(a, b, c) ==
  Len(a) = Len(c) /\ Len(b) = Len(c) /\ \A i \in 1..Len(c) : c[i] = a[i] + b[i]

(* Columns are added one by one.                                             *)
LEMMA ValuesAdd ==
  ASSUME NEW a \in Seq(Nat), NEW b \in Seq(Nat), NEW c \in Seq(Nat), SumOf(a, b, c)
  PROVE  ValueOf(c) = ValueOf(a) + ValueOf(b)
<1> DEFINE n == Len(c)
<1>1. /\ n \in Nat /\ Len(a) = n /\ Len(b) = n
      /\ \A i \in 1..n : c[i] = a[i] + b[i] /\ a[i] \in Nat /\ b[i] \in Nat
  <2>1. Len(a) = n /\ Len(b) = n /\ \A i \in 1..n : c[i] = a[i] + b[i]
    BY DEF SumOf
  <2>2. \A i \in 1..Len(a) : a[i] \in Nat
    BY ElementOfSeq
  <2>3. \A i \in 1..Len(b) : b[i] \in Nat
    BY ElementOfSeq
  <2> QED BY <2>1, <2>2, <2>3
<1>2. PICK p : Powers(p, 10)
  BY PowersExist, 10 \in Nat \ {0}
<1>3. p \in [Nat -> Nat \ {0}]
  BY <1>2 DEF Powers
<1>4. PICK u : ColumnSums(u, p, a)
  BY <1>3, ColumnSumsExist
<1>5. PICK v : ColumnSums(v, p, b)
  BY <1>3, ColumnSumsExist
<1>6. PICK w : ColumnSums(w, p, c)
  BY <1>3, ColumnSumsExist
<1>7. ValueOf(a) = u[n] /\ ValueOf(b) = v[n] /\ ValueOf(c) = w[n]
  BY <1>1, <1>2, <1>4, <1>5, <1>6, ValueIsSum
<1>8. /\ u[0] = 0 /\ v[0] = 0 /\ w[0] = 0
      /\ \A i \in 0..n : u[i] \in Nat /\ v[i] \in Nat /\ w[i] \in Nat
      /\ \A i \in 1..n : /\ u[i] = u[i - 1] + p[i - 1] * a[i]
                         /\ v[i] = v[i - 1] + p[i - 1] * b[i]
                         /\ w[i] = w[i - 1] + p[i - 1] * c[i]
  BY <1>1, <1>4, <1>5, <1>6 DEF ColumnSums
<1> HIDE DEF n
<1> DEFINE Good == {k \in Nat : k <= n => w[k] = u[k] + v[k]}
<1>9. 0 \in Good
  BY <1>8
<1>10. ASSUME NEW k \in Nat, k \in Good PROVE k + 1 \in Good
  <2> SUFFICES ASSUME k + 1 <= n PROVE w[k + 1] = u[k + 1] + v[k + 1]
    OBVIOUS
  <2> DEFINE q == p[k]
             x == a[k + 1]
             y == b[k + 1]
             s == u[k]
             t == v[k]
  <2>1. k <= n /\ k \in 0..n /\ k + 1 \in 1..n /\ (k + 1) - 1 = k
    BY <1>1
  <2>2. w[k] = s + t
    BY <1>10, <2>1
  <2>3. u[k + 1] = s + q * x /\ v[k + 1] = t + q * y /\ w[k + 1] = w[k] + q * (x + y)
    BY <1>1, <1>8, <2>1
  <2>4. q \in Nat /\ x \in Nat /\ y \in Nat /\ s \in Nat /\ t \in Nat
    BY <1>1, <1>3, <1>8, <2>1
  <2> HIDE DEF q, x, y, s, t
  <2>5. (s + t) + q * (x + y) = (s + q * x) + (t + q * y)
    BY <2>4
  <2> QED BY <2>2, <2>3, <2>5
<1>11. Nat \subseteq Good
  <2> HIDE DEF Good
  <2> QED BY <1>9, <1>10, NatInduct
<1>12. w[n] = u[n] + v[n]
  BY <1>1, <1>11
<1> QED BY <1>7, <1>12

(* Digits without a leading zero.                                            *)
Decimal(s) == s \in Seq(0..9) /\ (s = <<>> \/ s[1] # 0)

(* Zeros at the front say nothing.                                           *)
LEMMA RemovedZeros ==
  ASSUME NEW s \in Seq(0..9)
  PROVE  Decimal(removeLeadingZeros(s)) /\ Digits(10, removeLeadingZeros(s)) = Digits(10, s)
<1> DEFINE D == 0..9
<1>1. D \in SUBSET Nat /\ s \in Seq(D) /\ 10 \in Nat
  OBVIOUS
<1>2. removeLeadingZeros(s) = truncate(s)
  BY DEF removeLeadingZeros
<1> HIDE DEF D
<1>3. /\ truncate(s) \in Seq(D) /\ (truncate(s) = <<>> \/ truncate(s)[1] # 0)
      /\ Digits(10, truncate(s)) = Digits(10, s)
  BY <1>1, TruncatedDigits
<1> QED BY <1>2, <1>3 DEF Decimal, D

(* Digits are numbers below ten, and below the power of their length.        *)
LEMMA DecimalDigits ==
  ASSUME NEW s \in Seq(0..9), NEW p, Powers(p, 10)
  PROVE  /\ s \in Seq(Nat) /\ Len(s) \in Nat
         /\ Digits(10, s) \in Nat /\ Digits(10, s) < p[Len(s)]
<1>1. 0..9 = 0..10 - 1 /\ 10 \in Nat \ {0}
  OBVIOUS
<1>2. s \in Seq(0..10 - 1)
  BY <1>1
<1>3. Digits(10, s) \in Nat /\ Digits(10, s) < p[Len(s)]
  BY <1>1, <1>2, DigitsBound
<1>4. s \in Seq(Nat)
  <2>1. 0..9 \subseteq Nat
    OBVIOUS
  <2> QED BY <2>1, SeqMonotonic
<1> QED BY <1>3, <1>4

(* addStrings adds.                                                          *)
LEMMA AddStringsIs ==
  ASSUME NEW lhs \in Seq(0..9), NEW rhs \in Seq(0..9)
  PROVE  /\ Decimal(addStrings(lhs, rhs))
         /\ Digits(10, addStrings(lhs, rhs)) = Digits(10, lhs) + Digits(10, rhs)
<1> DEFINE longest == IF Len(lhs) > Len(rhs) THEN Len(lhs) ELSE Len(rhs)
           length == longest + 1
           a == Columns(lhs, length)
           b == Columns(rhs, length)
           c == [i \in 1..length |-> FromEnd(lhs, i - 1) + FromEnd(rhs, i - 1)]
           A == Digits(10, lhs)
           B == Digits(10, rhs)
<1>1. PICK p : Powers(p, 10)
  BY PowersExist, 10 \in Nat \ {0}
<1>2. lhs \in Seq(Nat) /\ Len(lhs) \in Nat /\ A \in Nat /\ A < p[Len(lhs)]
  BY <1>1, DecimalDigits
<1>3. rhs \in Seq(Nat) /\ Len(rhs) \in Nat /\ B \in Nat /\ B < p[Len(rhs)]
  BY <1>1, DecimalDigits
<1> HIDE DEF A, B
<1>4. /\ longest \in Nat /\ length \in Nat /\ length >= 1
      /\ Len(lhs) <= longest /\ Len(rhs) <= longest /\ Len(lhs) <= length /\ Len(rhs) <= length
  BY <1>2, <1>3
<1>5. addStrings(lhs, rhs) = removeLeadingZeros(Carried(c))
  BY DEF addStrings
<1> HIDE DEF longest
<1>6. a \in Seq(Nat) /\ Len(a) = length /\ ValueOf(a) = A
  <2> HIDE DEF length
  <2> QED BY <1>2, <1>4, ColumnsAre DEF A
<1>7. b \in Seq(Nat) /\ Len(b) = length /\ ValueOf(b) = B
  <2> HIDE DEF length
  <2> QED BY <1>3, <1>4, ColumnsAre DEF B
<1>8. /\ c \in Seq(Nat) /\ Len(c) = length /\ SumOf(a, b, c)
  <2>1. a = [i \in 1..length |-> FromEnd(lhs, i - 1)] /\ b = [i \in 1..length |-> FromEnd(rhs, i - 1)]
    BY DEF Columns
  <2>2. \A i \in 1..length : a[i] = FromEnd(lhs, i - 1) /\ b[i] = FromEnd(rhs, i - 1)
    BY <2>1
  <2> HIDE DEF length, a, b
  <2>3. \A i \in 1..length : a[i] \in Nat /\ b[i] \in Nat
    <3>1. \A i \in 1..Len(a) : a[i] \in Nat
      BY <1>6, ElementOfSeq
    <3>2. \A i \in 1..Len(b) : b[i] \in Nat
      BY <1>7, ElementOfSeq
    <3> QED BY <1>6, <1>7, <3>1, <3>2
  <2>4. c = [i \in 1..length |-> a[i] + b[i]]
    BY <2>2
  <2> HIDE DEF c
  <2>5. c \in [1..length -> Nat]
    BY <2>3, <2>4
  <2>6. c \in Seq(Nat) /\ Len(c) = length
    BY <1>4, <2>4, <2>5
  <2> QED BY <1>6, <1>7, <2>4, <2>6 DEF SumOf
<1> HIDE DEF a, b, c
<1>9. ValueOf(c) = A + B
  BY <1>6, <1>7, <1>8, ValuesAdd
<1>10. A + B < p[length]
  <2> DEFINE m == p[longest]
  <2>1. p[Len(lhs)] <= m /\ p[Len(rhs)] <= m
    BY <1>1, <1>2, <1>3, <1>4, PowersGrow, 10 \in Nat \ {0}
  <2>2. p[length] = 10 * m /\ m \in Nat /\ p[Len(lhs)] \in Nat /\ p[Len(rhs)] \in Nat
    BY <1>1, <1>2, <1>3, <1>4 DEF Powers
  <2> HIDE DEF m, length
  <2> QED BY <1>2, <1>3, <2>1, <2>2
<1>11. c # <<>>
  BY <1>4, <1>8
<1>12. Carried(c) \in Seq(0..9) /\ Digits(10, Carried(c)) = A + B
  <2> HIDE DEF length
  <2> QED BY <1>1, <1>8, <1>9, <1>10, <1>11, CarriedIs
<1> QED BY <1>5, <1>12, RemovedZeros DEF A, B

(* What the product of d and a digit of rhs adds to a column, in the row n:  *)
(* its unit, and the ten of the product before.                              *)
Unit(d, rhs, n, i) == IF i >= n THEN (d * FromEnd(rhs, i - n)) % 10 ELSE 0
Ten(d, rhs, n, i) == IF i > n THEN (d * FromEnd(rhs, i - n - 1)) \div 10 ELSE 0

(* Row n of a product with the digit d.                                      *)
Row(row, d, rhs, n) ==
  /\ row \in Seq(Nat)
  /\ \A i \in 1..Len(row) : row[i] = Unit(d, rhs, n, i) + Ten(d, rhs, n, i)

(* Its value is the product, n - 1 places up.                                *)
RowValue(row, p, d, rhs, n) == ValueOf(row) = p[n - 1] * (d * Digits(10, rhs))

(* Every row has that value.                                                 *)
LEMMA RowIs ==
  ASSUME NEW p, Powers(p, 10), NEW d \in 0..9, NEW rhs \in Seq(0..9), NEW n \in Nat \ {0},
         NEW row, Row(row, d, rhs, n), n + Len(rhs) < Len(row)
  PROVE  RowValue(row, p, d, rhs, n)
<1> DEFINE N == Len(row)
           K == (N - n) + 1
           E == Columns(rhs, K)
           e(k) == FromEnd(rhs, k)
           R == Digits(10, rhs)
<1>1. /\ row \in Seq(Nat) /\ N \in Nat /\ \A i \in 1..N : row[i] \in Nat
      /\ \A i \in 1..N : row[i] = Unit(d, rhs, n, i) + Ten(d, rhs, n, i)
  <2>1. row \in Seq(Nat) /\ \A i \in 1..N : row[i] = Unit(d, rhs, n, i) + Ten(d, rhs, n, i)
    BY DEF Row
  <2> QED BY <2>1, ElementOfSeq
<1>2. rhs \in Seq(Nat) /\ Len(rhs) \in Nat /\ R \in Nat
  BY DecimalDigits
<1>3. /\ K \in Nat /\ Len(rhs) <= K /\ Len(rhs) <= K - 1
      /\ n + (K - 1) = N /\ n <= N /\ K - 1 \in Nat /\ (K - 1) + 1 = K
  BY <1>1, <1>2
<1>4. p[0] = 1 /\ p \in [Nat -> Nat \ {0}] /\ \A k \in Nat : p[k] \in Nat /\ p[k + 1] = 10 * p[k]
  BY DEF Powers
<1> HIDE DEF N, R
<1>5. PICK u : ColumnSums(u, p, row)
  BY <1>1, <1>4, ColumnSumsExist
<1>6. /\ u[0] = 0 /\ \A i \in 0..N : u[i] \in Nat
      /\ \A i \in 1..N : u[i] = u[i - 1] + p[i - 1] * row[i]
      /\ ValueOf(row) = u[N]
  BY <1>1, <1>5, ValueIsSum DEF ColumnSums, N
<1>7. E \in Seq(Nat) /\ Len(E) = K /\ ValueOf(E) = R
  <2> HIDE DEF K
  <2> QED BY <1>2, <1>3, ColumnsAre DEF R
<1>8. \A i \in 1..K : E[i] = e(i - 1)
  BY DEF Columns
<1> HIDE DEF E
<1>9. PICK w : ColumnSums(w, p, E)
  BY <1>4, <1>7, ColumnSumsExist
<1>10. /\ w[0] = 0 /\ \A i \in 0..K : w[i] \in Nat
       /\ \A i \in 1..K : w[i] = w[i - 1] + p[i - 1] * E[i]
       /\ R = w[K]
  BY <1>7, <1>9, ValueIsSum DEF ColumnSums
<1>11. \A k \in Nat : e(k) \in 0..9
  <2> TAKE k \in Nat
  <2>1. \A i \in 1..Len(rhs) : rhs[i] \in 0..9
    BY ElementOfSeq
  <2>2. k < Len(rhs) => Len(rhs) - k \in 1..Len(rhs)
    BY <1>2
  <2> QED BY <2>1, <2>2 DEF FromEnd
<1>12. e(K - 1) = 0
  <2>1. ~ (K - 1 < Len(rhs))
    BY <1>2, <1>3
  <2> QED BY <2>1 DEF FromEnd
<1> HIDE DEF K
<1> DEFINE a(k) == (d * e(k)) % 10
           b(k) == (d * e(k)) \div 10
<1>13. \A k \in Nat : a(k) \in Nat /\ b(k) \in Nat /\ d * e(k) = 10 * b(k) + a(k)
  <2> TAKE k \in Nat
  <2> DEFINE x == e(k)
             y == d * x
  <2>1. x \in Nat
    BY <1>11
  <2> HIDE DEF x
  <2>2. y \in Nat
    BY <2>1
  <2> HIDE DEF y
  <2>3. y % 10 \in Nat /\ y \div 10 \in Nat /\ y = 10 * (y \div 10) + (y % 10)
    BY <2>2
  <2> QED BY <2>3 DEF x, y
<1>14. row[n] = a(0)
  <2>1. n \in 1..N
    BY <1>3
  <2>2. Unit(d, rhs, n, n) = a(0) /\ Ten(d, rhs, n, n) = 0
    <3>1. n >= n /\ n - n = 0 /\ ~ (n > n)
      OBVIOUS
    <3> QED BY <3>1 DEF Unit, Ten
  <2>3. a(0) \in Nat
    BY <1>13
  <2> HIDE DEF a
  <2> QED BY <1>1, <2>1, <2>2, <2>3
<1>15. \A k \in Nat : n + (k + 1) <= N => row[n + (k + 1)] = a(k + 1) + b(k)
  <2> SUFFICES ASSUME NEW k \in Nat, n + (k + 1) <= N PROVE row[n + (k + 1)] = a(k + 1) + b(k)
    OBVIOUS
  <2> DEFINE i == n + (k + 1)
  <2>1. i \in 1..N /\ i >= n /\ i > n /\ i - n = k + 1 /\ i - n - 1 = k
    OBVIOUS
  <2> HIDE DEF i
  <2>2. Unit(d, rhs, n, i) = a(k + 1) /\ Ten(d, rhs, n, i) = b(k)
    BY <2>1 DEF Unit, Ten
  <2> HIDE DEF a, b
  <2>3. row[i] = a(k + 1) + b(k)
    BY <1>1, <2>1, <2>2
  <2> QED BY <2>3 DEF i
<1>16. \A i \in 1..N : i < n => row[i] = 0
  <2> SUFFICES ASSUME NEW i \in 1..N, i < n PROVE row[i] = 0
    OBVIOUS
  <2>1. ~ (i >= n) /\ ~ (i > n)
    OBVIOUS
  <2>2. Unit(d, rhs, n, i) = 0 /\ Ten(d, rhs, n, i) = 0
    BY <2>1 DEF Unit, Ten
  <2> QED BY <1>1, <2>2
<1>17. u[n - 1] = 0
  <2> DEFINE Good == {k \in Nat : k < n => u[k] = 0}
  <2>1. 0 \in Good
    BY <1>6
  <2>2. ASSUME NEW k \in Nat, k \in Good PROVE k + 1 \in Good
    <3> SUFFICES ASSUME k + 1 < n PROVE u[k + 1] = 0
      OBVIOUS
    <3> DEFINE q == p[k]
    <3>1. k + 1 \in 1..N /\ (k + 1) - 1 = k /\ k < n
      BY <1>3
    <3>2. u[k + 1] = 0 + q * 0
      BY <1>6, <1>16, <2>2, <3>1
    <3>3. q \in Nat
      BY <1>4
    <3> HIDE DEF q
    <3>4. 0 + q * 0 = 0
      BY <3>3
    <3> QED BY <3>2, <3>4
  <2>3. Nat \subseteq Good
    <3> HIDE DEF Good
    <3> QED BY <2>1, <2>2, NatInduct
  <2>4. n - 1 \in Nat /\ n - 1 < n
    OBVIOUS
  <2> QED BY <2>3, <2>4
<1> DEFINE q == p[n - 1]
           Good == {k \in Nat : k < K => u[n + k] + p[n + k] * b(k) = q * (d * w[k + 1])}
<1>18. q \in Nat /\ p[n] = 10 * q
  <2>1. n - 1 \in Nat /\ (n - 1) + 1 = n
    OBVIOUS
  <2>2. p[n - 1] \in Nat /\ p[(n - 1) + 1] = 10 * p[n - 1]
    BY <1>4, <2>1
  <2> QED BY <2>1, <2>2
<1> HIDE DEF q
<1>19. 0 \in Good
  <2>1. u[n] = 0 + q * a(0)
    <3>1. n \in 1..N
      BY <1>3
    <3> QED BY <1>6, <1>14, <1>17, <3>1 DEF q
  <2>2. w[0 + 1] = e(0)
    <3>1. 1 \in 1..K /\ 1 - 1 = 0 /\ 0 + 1 = 1
      BY <1>2, <1>3
    <3>2. w[1] = 0 + 1 * E[1] /\ E[1] = e(0)
      BY <1>4, <1>8, <1>10, <3>1
    <3> HIDE DEF e
    <3>3. e(0) \in Nat
      BY <1>11
    <3> QED BY <3>1, <3>2, <3>3
  <2> DEFINE a0 == a(0)
             b0 == b(0)
             y == d * e(0)
  <2>3. y = 10 * b0 + a0 /\ a0 \in Nat /\ b0 \in Nat
    BY <1>13
  <2> HIDE DEF a0, b0
  <2>4. (0 + q * a0) + (10 * q) * b0 = q * (10 * b0 + a0)
    BY <1>18, <2>3
  <2>5. n + 0 = n
    OBVIOUS
  <2> HIDE DEF y, a, b, e
  <2>6. u[n + 0] + p[n + 0] * b(0) = q * y
    BY <1>18, <2>1, <2>3, <2>4, <2>5 DEF a0, b0
  <2> QED BY <2>2, <2>6 DEF y
<1>20. ASSUME NEW k \in Nat, k \in Good PROVE k + 1 \in Good
  <2> SUFFICES ASSUME k + 1 < K
               PROVE  u[n + (k + 1)] + p[n + (k + 1)] * b(k + 1) = q * (d * w[(k + 1) + 1])
    OBVIOUS
  <2> DEFINE t == p[n + k]
             x == p[k + 1]
             v == u[n + k]
             y == w[k + 1]
             bk == b(k)
             a1 == a(k + 1)
             b1 == b(k + 1)
             z == e(k + 1)
  <2>1. /\ k < K /\ k + 1 \in Nat /\ n + (k + 1) \in 1..N /\ (n + (k + 1)) - 1 = n + k
        /\ n + k \in Nat /\ n + k \in 0..N /\ (n + k) + 1 = n + (k + 1) /\ n + (k + 1) <= N
        /\ (k + 1) + 1 \in 1..K /\ ((k + 1) + 1) - 1 = k + 1 /\ k + 1 \in 0..K
    BY <1>1, <1>3
  <2>2. v + t * bk = q * (d * y)
    BY <1>20, <2>1
  <2>3. u[n + (k + 1)] = v + t * (a1 + bk)
    <3>1. row[n + (k + 1)] = a1 + bk
      BY <1>15, <2>1
    <3>2. u[n + (k + 1)] = u[(n + (k + 1)) - 1] + p[(n + (k + 1)) - 1] * row[n + (k + 1)]
      BY <1>6, <2>1
    <3> HIDE DEF a, b
    <3> QED BY <2>1, <3>1, <3>2
  <2>4. p[n + (k + 1)] = 10 * t
    BY <1>4, <2>1
  <2>5. w[(k + 1) + 1] = y + x * z
    <3>1. w[(k + 1) + 1] = w[((k + 1) + 1) - 1] + p[((k + 1) + 1) - 1] * E[(k + 1) + 1]
      BY <1>10, <2>1
    <3>2. E[(k + 1) + 1] = e(k + 1)
      BY <1>8, <2>1
    <3> HIDE DEF e
    <3> QED BY <2>1, <3>1, <3>2
  <2>6. t = q * x
    <3> DEFINE m == n - 1
               j == k + 1
               i == n + k
    <3>1. m \in Nat /\ j \in Nat /\ i = m + j /\ 10 \in Nat \ {0}
      OBVIOUS
    <3> HIDE DEF m, j, i
    <3>2. p[i] = p[m] * p[j]
      BY <3>1, PowersAdd
    <3> QED BY <3>2 DEF q, m, j, i
  <2>7. /\ d * z = 10 * b1 + a1 /\ a1 \in Nat /\ b1 \in Nat /\ bk \in Nat
        /\ z \in Nat /\ d \in Nat
    <3>1. d * z = 10 * b1 + a1 /\ a1 \in Nat /\ b1 \in Nat /\ bk \in Nat
      <4> HIDE DEF a, b, e
      <4> QED BY <1>13, <2>1
    <3>2. z \in 0..9
      <4> HIDE DEF e
      <4> QED BY <1>11, <2>1
    <3> HIDE DEF z, a1, b1, bk
    <3> QED BY <3>1, <3>2
  <2>8. t \in Nat /\ x \in Nat /\ v \in Nat /\ y \in Nat
    BY <1>4, <1>6, <1>10, <2>1
  <2> HIDE DEF t, x, v, y, bk, a1, b1, z, e, a, b
  <2>9. (v + t * (a1 + bk)) + (10 * t) * b1 = (v + t * bk) + t * (10 * b1 + a1)
    BY <2>7, <2>8
  <2>10. q * (d * y) + (q * x) * (d * z) = q * (d * (y + x * z))
    BY <1>18, <2>7, <2>8
  <2>11. (v + t * bk) + t * (10 * b1 + a1) = q * (d * (y + x * z))
    BY <2>2, <2>6, <2>7, <2>10
  <2> QED BY <2>3, <2>4, <2>5, <2>9, <2>11 DEF b1
<1>21. Nat \subseteq Good
  <2> HIDE DEF Good
  <2> QED BY <1>19, <1>20, NatInduct
<1>22. u[N] + p[N] * b(K - 1) = q * (d * R)
  <2>1. K - 1 \in Nat /\ K - 1 < K /\ n + (K - 1) = N /\ (K - 1) + 1 = K
    BY <1>3
  <2> HIDE DEF b
  <2>2. u[n + (K - 1)] + p[n + (K - 1)] * b(K - 1) = q * (d * w[(K - 1) + 1])
    BY <1>21, <2>1
  <2> QED BY <1>10, <2>1, <2>2
<1>23. b(K - 1) = 0
  <2>1. d * 0 = 0 /\ 0 \div 10 = 0
    OBVIOUS
  <2> QED BY <1>12, <2>1
<1>24. u[N] = q * (d * R)
  <2> DEFINE t == p[N]
             v == u[N]
  <2>1. t \in Nat /\ v \in Nat
    <3>1. N \in 0..N
      BY <1>1
    <3> QED BY <1>1, <1>4, <1>6, <3>1
  <2> HIDE DEF t, v, b
  <2>2. v + t * 0 = v
    BY <2>1
  <2> QED BY <1>22, <1>23, <2>2 DEF t, v
<1> QED BY <1>6, <1>24 DEF q, R, RowValue

(* f[n] are the columns behind the first n digits of lhs, from its end.      *)
Products(f, lhs, rhs, length) ==
  /\ f \in [0..Len(lhs) -> [1..length -> Nat]]
  /\ \A i \in 1..length : f[0][i] = 0
  /\ \A n \in 1..Len(lhs), i \in 1..length :
        f[n][i] = f[n - 1][i] + (Unit(FromEnd(lhs, n - 1), rhs, n, i)
                                   + Ten(FromEnd(lhs, n - 1), rhs, n, i))

(* multiplyStrings collects them.                                            *)
LEMMA MultiplyUnfolds ==
  ASSUME NEW lhs \in Seq(0..9), NEW rhs \in Seq(0..9),
         NEW length, length = Len(lhs) + Len(rhs) + 1
  PROVE  \E f : /\ Products(f, lhs, rhs, length)
                /\ multiplyStrings(lhs, rhs) = removeLeadingZeros(Carried(f[Len(lhs)]))
<1> DEFINE la == Len(lhs)
           V == [1..length -> Nat]
           U(n, i) == Unit(FromEnd(lhs, n - 1), rhs, n, i)
           T(n, i) == Ten(FromEnd(lhs, n - 1), rhs, n, i)
           row == [n \in Nat |-> [i \in 1..length |-> IF n = 0 THEN 0 ELSE U(n, i) + T(n, i)]]
           Step == [x \in V \X Nat |-> [i \in 1..length |-> x[1][i] + row[x[2]][i]]]
           Fix(g) == g = [n \in 0..la |-> [i \in 1..length |->
                             IF n = 0 THEN 0 ELSE g[n - 1][i] + U(n, i) + T(n, i)]]
<1>1. la \in Nat /\ Len(rhs) \in Nat /\ length \in Nat
  OBVIOUS
<1>2. ASSUME NEW s \in Seq(0..9), NEW k \in Nat PROVE FromEnd(s, k) \in 0..9
  <2>1. Len(s) \in Nat /\ \A i \in 1..Len(s) : s[i] \in 0..9
    BY ElementOfSeq
  <2>2. k < Len(s) => Len(s) - k \in 1..Len(s)
    BY <2>1
  <2> QED BY <2>1, <2>2 DEF FromEnd
<1>3. ASSUME NEW n \in Nat \ {0}, NEW i \in 1..length PROVE U(n, i) \in Nat /\ T(n, i) \in Nat
  <2> DEFINE d == FromEnd(lhs, n - 1)
  <2>1. d \in Nat
    BY <1>2, n - 1 \in Nat
  <2> HIDE DEF d
  <2>2. ASSUME NEW k \in Nat PROVE (d * FromEnd(rhs, k)) % 10 \in Nat /\ (d * FromEnd(rhs, k)) \div 10 \in Nat
    <3> DEFINE x == FromEnd(rhs, k)
               y == d * x
    <3>1. x \in Nat
      BY <1>2
    <3> HIDE DEF x
    <3>2. y \in Nat
      BY <2>1, <3>1
    <3> HIDE DEF y
    <3>3. y % 10 \in Nat /\ y \div 10 \in Nat
      BY <3>2
    <3> QED BY <3>3 DEF y, x
  <2>3. (i >= n => i - n \in Nat) /\ (i > n => i - n - 1 \in Nat)
    BY <1>1
  <2>4. Unit(d, rhs, n, i) \in Nat
    BY <2>2, <2>3 DEF Unit
  <2>5. Ten(d, rhs, n, i) \in Nat
    BY <2>2, <2>3 DEF Ten
  <2> QED BY <2>4, <2>5 DEF d
<1> HIDE DEF U, T
<1>4. row \in [Nat -> V]
  <2>1. ASSUME NEW n \in Nat, NEW i \in 1..length
        PROVE  (IF n = 0 THEN 0 ELSE U(n, i) + T(n, i)) \in Nat
    <3>1. CASE n = 0
      BY <3>1
    <3>2. CASE n # 0
      <4> DEFINE x == U(n, i)
                 y == T(n, i)
      <4>1. x \in Nat /\ y \in Nat
        BY <1>3, <3>2
      <4> HIDE DEF x, y
      <4>2. x + y \in Nat
        BY <4>1
      <4> QED BY <3>2, <4>2 DEF x, y
    <3> QED BY <3>1, <3>2
  <2> QED BY <2>1
<1>5. \A n \in Nat \ {0}, i \in 1..length : row[n][i] = U(n, i) + T(n, i)
  OBVIOUS
<1> HIDE DEF row
<1>6. ASSUME NEW a \in V, NEW n \in Nat PROVE [i \in 1..length |-> a[i] + row[n][i]] \in V
  <2> DEFINE r == row[n]
  <2>1. a \in [1..length -> Nat] /\ r \in [1..length -> Nat]
    BY <1>4
  <2> HIDE DEF r
  <2>2. \A i \in 1..length : a[i] + r[i] \in Nat
    <3> TAKE i \in 1..length
    <3> DEFINE x == a[i]
               y == r[i]
    <3>1. x \in Nat /\ y \in Nat
      BY <2>1
    <3> HIDE DEF x, y
    <3>2. x + y \in Nat
      BY <3>1
    <3> QED BY <3>2 DEF x, y
  <2> QED BY <2>2 DEF r
<1>7. Step \in [V \X Nat -> V]
  <2>1. ASSUME NEW x \in V \X Nat PROVE [i \in 1..length |-> x[1][i] + row[x[2]][i]] \in V
    <3>1. x[1] \in V /\ x[2] \in Nat
      OBVIOUS
    <3> HIDE DEF V
    <3> QED BY <1>6, <3>1
  <2> HIDE DEF V
  <2> QED BY <2>1
<1>8. \A a \in V, n \in Nat : Step[<<a, n>>] = [i \in 1..length |-> a[i] + row[n][i]]
  <2> TAKE a \in V, n \in Nat
  <2>1. <<a, n>> \in V \X Nat /\ <<a, n>>[1] = a /\ <<a, n>>[2] = n
    OBVIOUS
  <2> HIDE DEF V
  <2> QED BY <2>1
<1> DEFINE zero == [i \in 1..length |-> 0]
<1>9. zero \in V
  OBVIOUS
<1> HIDE DEF Step, V, zero
<1>10. PICK f \in [0..la -> V] : Iterates(f, 1..la, zero, Step)
  BY <1>1, <1>7, <1>9, BoundedRecursion
<1>11. f[0] = zero /\ \A n \in 1..la : f[n] = Step[<<f[n - 1], n>>]
  BY <1>10 DEF Iterates
<1>12. \A n \in 1..la : f[n] = [i \in 1..length |-> f[n - 1][i] + row[n][i]]
  <2> TAKE n \in 1..la
  <2>1. n - 1 \in 0..la /\ n \in Nat
    BY <1>1
  <2>2. f[n - 1] \in V
    BY <2>1
  <2>3. Step[<<f[n - 1], n>>] = [i \in 1..length |-> f[n - 1][i] + row[n][i]]
    BY <1>8, <2>1, <2>2
  <2> QED BY <1>11, <2>3
<1>13. \A i \in 1..length : f[0][i] = 0
  BY <1>11 DEF zero
<1>14. \A n \in 1..la, i \in 1..length : f[n][i] = f[n - 1][i] + (U(n, i) + T(n, i))
  <2> TAKE n \in 1..la, i \in 1..length
  <2>1. n \in Nat \ {0}
    BY <1>1
  <2>2. row[n][i] = U(n, i) + T(n, i)
    BY <1>5, <2>1
  <2>3. f[n][i] = f[n - 1][i] + row[n][i]
    BY <1>12
  <2> QED BY <2>2, <2>3
<1>15. \A n \in 0..la, i \in 1..length : f[n][i] \in Nat
  BY DEF V
<1>16. Fix(f)
  <2> DEFINE g(n) == [i \in 1..length |-> IF n = 0 THEN 0 ELSE f[n - 1][i] + U(n, i) + T(n, i)]
  <2>1. ASSUME NEW n \in 0..la PROVE f[n] = g(n)
    <3>1. f[n] = [i \in 1..length |-> f[n][i]]
      <4>1. f[n] \in V
        OBVIOUS
      <4> QED BY <4>1 DEF V
    <3>2. ASSUME NEW i \in 1..length
          PROVE  f[n][i] = IF n = 0 THEN 0 ELSE f[n - 1][i] + U(n, i) + T(n, i)
      <4>1. CASE n = 0
        BY <1>13, <4>1
      <4>2. CASE n # 0
        <5> DEFINE x == f[n - 1][i]
                   y == U(n, i)
                   z == T(n, i)
        <5>1. n \in 1..la /\ n - 1 \in 0..la /\ n \in Nat \ {0}
          BY <1>1, <4>2
        <5>2. f[n][i] = x + (y + z)
          BY <1>14, <5>1
        <5>3. x \in Nat /\ y \in Nat /\ z \in Nat
          BY <1>3, <1>15, <5>1
        <5> HIDE DEF x, y, z
        <5>4. x + (y + z) = x + y + z
          BY <5>3
        <5> QED BY <4>2, <5>2, <5>4 DEF x, y, z
      <4> QED BY <4>1, <4>2
    <3> QED BY <3>1, <3>2
  <2>2. f = [n \in 0..la |-> f[n]]
    OBVIOUS
  <2> HIDE DEF g
  <2>3. f = [n \in 0..la |-> g(n)]
    BY <2>1, <2>2
  <2> QED BY <2>3 DEF g
<1> DEFINE result == CHOOSE g : Fix(g)
<1>17. Fix(result)
  <2> HIDE DEF Fix
  <2> QED BY <1>16
<1>18. multiplyStrings(lhs, rhs) = removeLeadingZeros(Carried(result[la]))
  BY DEF multiplyStrings, U, T, Unit, Ten
<1> HIDE DEF result
<1>19. result = f
  <2> DEFINE Good == {n \in Nat : n <= la => result[n] = f[n]}
             g(h, n) == [i \in 1..length |-> IF n = 0 THEN 0 ELSE h[n - 1][i] + U(n, i) + T(n, i)]
  <2>1. \A n \in 0..la : result[n] = g(result, n) /\ f[n] = g(f, n)
    BY <1>16, <1>17
  <2>2. 0 \in Good
    <3>1. g(result, 0) = [i \in 1..length |-> 0] /\ g(f, 0) = [i \in 1..length |-> 0]
      OBVIOUS
    <3>2. 0 \in 0..la
      BY <1>1
    <3> HIDE DEF g
    <3>3. result[0] = f[0]
      BY <2>1, <3>1, <3>2
    <3> QED BY <3>3
  <2>3. ASSUME NEW n \in Nat, n \in Good PROVE n + 1 \in Good
    <3> SUFFICES ASSUME n + 1 <= la PROVE result[n + 1] = f[n + 1]
      OBVIOUS
    <3>1. n + 1 \in 0..la /\ (n + 1) - 1 = n /\ n <= la
      BY <1>1
    <3>2. result[n] = f[n]
      BY <2>3, <3>1
    <3>3. g(result, n + 1) = g(f, n + 1)
      BY <3>1, <3>2
    <3> HIDE DEF g
    <3> QED BY <2>1, <3>1, <3>3
  <2>4. Nat \subseteq Good
    <3> HIDE DEF Good
    <3> QED BY <2>2, <2>3, NatInduct
  <2>5. \A n \in 0..la : result[n] = f[n]
    BY <1>1, <2>4
  <2>6. result = [n \in 0..la |-> result[n]] /\ f = [n \in 0..la |-> f[n]]
    BY <1>17
  <2> HIDE DEF g, Fix
  <2> QED BY <2>5, <2>6
<1>20. Products(f, lhs, rhs, length)
  <2>1. f \in [0..Len(lhs) -> [1..length -> Nat]]
    BY DEF V
  <2> QED BY <1>13, <1>14, <2>1 DEF Products, U, T
<1> QED BY <1>18, <1>19, <1>20

(* They stand for the product with these digits.                             *)
LEMMA ProductsAre ==
  ASSUME NEW lhs \in Seq(0..9), NEW rhs \in Seq(0..9),
         NEW length, length = Len(lhs) + Len(rhs) + 1,
         NEW f, Products(f, lhs, rhs, length)
  PROVE  /\ f[Len(lhs)] \in Seq(Nat) /\ Len(f[Len(lhs)]) = length
         /\ ValueOf(f[Len(lhs)]) = Digits(10, lhs) * Digits(10, rhs)
<1> DEFINE la == Len(lhs)
           R == Digits(10, rhs)
           E == Columns(lhs, la)
<1>1. la \in Nat /\ Len(rhs) \in Nat /\ length \in Nat
  OBVIOUS
<1>2. PICK p : Powers(p, 10)
  BY PowersExist, 10 \in Nat \ {0}
<1>3. p \in [Nat -> Nat \ {0}] /\ \A k \in Nat : p[k] \in Nat
  BY <1>2 DEF Powers
<1>4. lhs \in Seq(Nat) /\ R \in Nat
  BY <1>2, DecimalDigits
<1>5. E \in Seq(Nat) /\ Len(E) = la /\ ValueOf(E) = Digits(10, lhs)
  <2> DEFINE n == la
  <2>1. n \in Nat /\ Len(lhs) <= n
    BY <1>1
  <2> HIDE DEF n
  <2>2. /\ Columns(lhs, n) \in Seq(Nat) /\ Len(Columns(lhs, n)) = n
        /\ ValueOf(Columns(lhs, n)) = Digits(10, lhs)
    BY <1>4, <2>1, ColumnsAre
  <2> QED BY <2>2 DEF n
<1>6. \A n \in 1..la : E[n] = FromEnd(lhs, n - 1)
  BY DEF Columns
<1> HIDE DEF E, R
<1>7. PICK s : ColumnSums(s, p, E)
  BY <1>3, <1>5, ColumnSumsExist
<1>8. /\ s[0] = 0 /\ \A n \in 0..la : s[n] \in Nat
      /\ \A n \in 1..la : s[n] = s[n - 1] + p[n - 1] * E[n]
      /\ Digits(10, lhs) = s[la]
  BY <1>2, <1>5, <1>7, ValueIsSum DEF ColumnSums
<1>9. \A n \in 0..la : f[n] \in Seq(Nat) /\ Len(f[n]) = length
  <2> TAKE n \in 0..la
  <2> DEFINE g == f[n]
  <2>1. g \in [1..length -> Nat]
    BY DEF Products
  <2> HIDE DEF g
  <2>2. g \in Seq(Nat) /\ Len(g) = length
    BY <1>1, <2>1
  <2> QED BY <2>2 DEF g
<1>10. \A n \in 1..la : FromEnd(lhs, n - 1) \in 0..9
  <2> TAKE n \in 1..la
  <2>1. \A i \in 1..la : lhs[i] \in 0..9
    BY ElementOfSeq
  <2>2. n - 1 < Len(lhs) /\ la - (n - 1) \in 1..la
    BY <1>1
  <2> QED BY <2>1, <2>2 DEF FromEnd
<1> DEFINE Good == {n \in Nat : n <= la => ValueOf(f[n]) = s[n] * R}
<1>11. 0 \in Good
  <2> DEFINE z == f[0]
             v == ValueOf(z)
  <2>1. z \in Seq(Nat) /\ Len(z) = length
    BY <1>1, <1>9
  <2>2. SumOf(z, z, z)
    <3>1. \A i \in 1..length : z[i] = 0
      BY DEF Products
    <3> HIDE DEF z
    <3> QED BY <2>1, <3>1 DEF SumOf
  <2> HIDE DEF z
  <2>3. v = v + v
    BY <2>1, <2>2, ValuesAdd
  <2>4. v \in Nat
    <3>1. PICK t : ColumnSums(t, p, z)
      BY <1>3, <2>1, ColumnSumsExist
    <3> QED BY <1>2, <2>1, <3>1, ValueIsSum
  <2> HIDE DEF v
  <2>5. v = 0
    BY <2>3, <2>4
  <2>6. 0 * R = 0
    BY <1>4
  <2> QED BY <1>8, <2>5, <2>6 DEF v, z
<1>12. ASSUME NEW n \in Nat, n \in Good PROVE n + 1 \in Good
  <2> SUFFICES ASSUME n + 1 <= la PROVE ValueOf(f[n + 1]) = s[n + 1] * R
    OBVIOUS
  <2> DEFINE m == n + 1
             d == FromEnd(lhs, m - 1)
             row == [i \in 1..length |-> Unit(d, rhs, m, i) + Ten(d, rhs, m, i)]
             a == f[n]
             c == f[m]
             q == p[n]
  <2>1. /\ n <= la /\ n \in 0..la /\ m \in 0..la /\ m \in 1..la /\ m - 1 = n /\ m \in Nat \ {0}
        /\ m + Len(rhs) < length
    BY <1>1
  <2>2. d \in 0..9 /\ E[m] = d
    BY <1>6, <1>10, <2>1
  <2>3. a \in Seq(Nat) /\ Len(a) = length /\ c \in Seq(Nat) /\ Len(c) = length
    BY <1>9, <2>1
  <2>4. \A i \in 1..length : c[i] = a[i] + (Unit(d, rhs, m, i) + Ten(d, rhs, m, i))
    BY <2>1 DEF Products
  <2>5. s[m] = s[n] + q * d
    BY <1>8, <2>1, <2>2
  <2>6. ValueOf(a) = s[n] * R
    BY <1>12, <2>1
  <2> HIDE DEF m, d, a, c
  <2>7. \A i \in 1..length : Unit(d, rhs, m, i) + Ten(d, rhs, m, i) \in Nat
    <3> TAKE i \in 1..length
    <3>1. d \in Nat
      BY <2>2
    <3>2. ASSUME NEW k \in Nat PROVE (d * FromEnd(rhs, k)) % 10 \in Nat /\ (d * FromEnd(rhs, k)) \div 10 \in Nat
      <4> DEFINE x == FromEnd(rhs, k)
                 y == d * x
      <4>1. x \in Nat
        <5>1. \A j \in 1..Len(rhs) : rhs[j] \in 0..9
          BY ElementOfSeq
        <5>2. k < Len(rhs) => Len(rhs) - k \in 1..Len(rhs)
          BY <1>1
        <5> QED BY <5>1, <5>2 DEF FromEnd
      <4> HIDE DEF x
      <4>2. y \in Nat
        BY <3>1, <4>1
      <4> HIDE DEF y
      <4>3. y % 10 \in Nat /\ y \div 10 \in Nat
        BY <4>2
      <4> QED BY <4>3 DEF y, x
    <3>3. (i >= m => i - m \in Nat) /\ (i > m => i - m - 1 \in Nat)
      BY <1>1, <2>1
    <3>4. Unit(d, rhs, m, i) \in Nat
      BY <3>2, <3>3 DEF Unit
    <3>5. Ten(d, rhs, m, i) \in Nat
      BY <3>2, <3>3 DEF Ten
    <3> QED BY <3>4, <3>5
  <2>8. row \in Seq(Nat) /\ Len(row) = length /\ \A i \in 1..length : row[i] = Unit(d, rhs, m, i) + Ten(d, rhs, m, i)
    <3>1. row \in [1..length -> Nat]
      BY <2>7
    <3> QED BY <1>1, <3>1
  <2> HIDE DEF row
  <2>9. Row(row, d, rhs, m)
    BY <2>8 DEF Row
  <2>10. ValueOf(row) = p[m - 1] * (d * R)
    <3>1. m + Len(rhs) < Len(row) /\ m \in Nat \ {0}
      BY <2>1, <2>8
    <3>2. RowValue(row, p, d, rhs, m)
      BY <1>2, <2>2, <2>9, <3>1, RowIs
    <3> QED BY <3>2 DEF R, RowValue
  <2>11. SumOf(a, row, c)
    BY <2>3, <2>4, <2>8 DEF SumOf
  <2>12. ValueOf(c) = s[n] * R + q * (d * R)
    <3>1. ValueOf(c) = ValueOf(a) + ValueOf(row)
      BY <2>3, <2>8, <2>11, ValuesAdd
    <3>2. p[m - 1] = q
      BY <2>1
    <3> HIDE DEF q
    <3> QED BY <2>6, <2>10, <3>1, <3>2
  <2> DEFINE x == s[n]
  <2>13. x \in Nat /\ q \in Nat /\ d \in Nat
    BY <1>3, <1>8, <2>1, <2>2
  <2> HIDE DEF x, q
  <2>14. x * R + q * (d * R) = (x + q * d) * R
    BY <1>4, <2>13
  <2> QED BY <2>5, <2>12, <2>14 DEF x, c, m
<1>13. Nat \subseteq Good
  <2> HIDE DEF Good
  <2> QED BY <1>11, <1>12, NatInduct
<1>14. ValueOf(f[la]) = s[la] * R
  BY <1>1, <1>13
<1>15. f[la] \in Seq(Nat) /\ Len(f[la]) = length
  BY <1>1, <1>9
<1> QED BY <1>8, <1>14, <1>15 DEF R

(* multiplyStrings multiplies.                                               *)
LEMMA MultiplyStringsIs ==
  ASSUME NEW lhs \in Seq(0..9), NEW rhs \in Seq(0..9)
  PROVE  /\ Decimal(multiplyStrings(lhs, rhs))
         /\ Digits(10, multiplyStrings(lhs, rhs)) = Digits(10, lhs) * Digits(10, rhs)
<1> DEFINE la == Len(lhs)
           lb == Len(rhs)
           length == la + lb + 1
           A == Digits(10, lhs)
           B == Digits(10, rhs)
<1>1. PICK p : Powers(p, 10)
  BY PowersExist, 10 \in Nat \ {0}
<1>2. la \in Nat /\ A \in Nat /\ A < p[la]
  BY <1>1, DecimalDigits
<1>3. lb \in Nat /\ B \in Nat /\ B < p[lb]
  BY <1>1, DecimalDigits
<1>4. PICK f : /\ Products(f, lhs, rhs, length)
               /\ multiplyStrings(lhs, rhs) = removeLeadingZeros(Carried(f[la]))
  BY MultiplyUnfolds
<1> DEFINE c == f[la]
<1>5. c \in Seq(Nat) /\ Len(c) = length /\ ValueOf(c) = A * B
  BY <1>4, ProductsAre
<1> HIDE DEF A, B, c
<1>6. A * B < p[length]
  <2> DEFINE s == la + lb
             x == p[la]
             y == p[lb]
  <2>1. s \in Nat /\ length = s + 1 /\ 10 \in Nat \ {0}
    BY <1>2, <1>3
  <2> HIDE DEF s, length
  <2>2. p[s] = x * y
    BY <1>1, <1>2, <1>3, <2>1, PowersAdd DEF s
  <2>3. p[length] = 10 * p[s] /\ x \in Nat \ {0} /\ y \in Nat \ {0}
    BY <1>1, <1>2, <1>3, <2>1 DEF Powers
  <2> HIDE DEF x, y, la, lb
  <2>4. A <= x - 1 /\ B <= y /\ A < x
    BY <1>2, <1>3, <2>3 DEF x, y
  <2> DEFINE ab == A * B
             ay == A * y
             xy == x * y
  <2>5. ab <= ay
    BY <1>2, <1>3, <2>3, <2>4, ProductOrder
  <2>6. ay + y <= xy
    <3>1. x - 1 \in Int /\ A \in Int /\ y \in Nat
      BY <1>2, <2>3
    <3>2. y * A <= y * (x - 1)
      BY <2>4, <3>1, ProductOrder
    <3>3. y * A = ay /\ y * (x - 1) = xy - y
      BY <1>2, <2>3
    <3>4. ay \in Nat /\ xy \in Nat
      BY <1>2, <2>3
    <3> HIDE DEF ay, xy
    <3> QED BY <2>3, <3>2, <3>3, <3>4
  <2>7. ab \in Nat /\ ay \in Nat /\ xy \in Nat
    BY <1>2, <1>3, <2>3
  <2> HIDE DEF ab, ay, xy
  <2>8. ab < 10 * xy
    BY <2>3, <2>5, <2>6, <2>7
  <2> QED BY <2>2, <2>3, <2>8 DEF ab, xy
<1>7. c # <<>>
  BY <1>2, <1>3, <1>5
<1>8. Carried(c) \in Seq(0..9) /\ Digits(10, Carried(c)) = A * B
  <2> HIDE DEF length
  <2> QED BY <1>1, <1>5, <1>6, <1>7, CarriedIs
<1> QED BY <1>4, <1>8, RemovedZeros DEF A, B, c

(* t[i] is number divided by ten i times.                                    *)
Quotients(t, number) ==
  /\ t \in [0..number + 1 -> Nat]
  /\ t[0] = number
  /\ \A i \in 1..number + 1 : t[i] = t[i - 1] \div 10

(* intToChar divides until nothing is left.                                  *)
LEMMA IntToCharUnfolds ==
  ASSUME NEW number \in Nat
  PROVE  \E t : /\ Quotients(t, number)
                /\ \E n \in 1..number + 1 :
                      /\ t[n] = 0
                      /\ intToChar(number) = [i \in 1..n |-> t[n - i] % 10]
<1> DEFINE N == number + 1
           Fix(g) == g = [i \in 0..N |-> IF i = 0 THEN number ELSE g[i - 1] \div 10]
           Step == [x \in Nat \X Nat |-> x[1] \div 10]
<1>1. Step \in [Nat \X Nat -> Nat] /\ \A a \in Nat, i \in Nat : Step[<<a, i>>] = a \div 10
  <2>1. ASSUME NEW x \in Nat \X Nat PROVE x[1] \div 10 \in Nat
    <3> DEFINE a == x[1]
    <3>1. a \in Nat
      OBVIOUS
    <3> HIDE DEF a
    <3>2. a \div 10 \in Nat
      BY <3>1
    <3> QED BY <3>2 DEF a
  <2> QED BY <2>1
<1>2. N \in Nat /\ N >= 1
  OBVIOUS
<1> HIDE DEF Step, N
<1>3. PICK f \in [0..N -> Nat] : Iterates(f, 1..N, number, Step)
  BY <1>1, <1>2, BoundedRecursion
<1>4. f[0] = number /\ \A i \in 1..N : f[i] = Step[<<f[i - 1], i>>]
  BY <1>3 DEF Iterates
<1>5. \A i \in 1..N : f[i] = f[i - 1] \div 10
  <2> TAKE i \in 1..N
  <2>1. i - 1 \in 0..N /\ i \in Nat
    BY <1>2
  <2>2. f[i - 1] \in Nat
    BY <2>1
  <2> QED BY <1>1, <1>4, <2>1, <2>2
<1>6. Fix(f)
  <2>1. ASSUME NEW i \in 0..N PROVE f[i] = IF i = 0 THEN number ELSE f[i - 1] \div 10
    <3>1. CASE i = 0
      BY <1>4, <3>1
    <3>2. CASE i # 0
      <4>1. i \in 1..N
        BY <1>2, <3>2
      <4> QED BY <1>5, <3>2, <4>1
    <3> QED BY <3>1, <3>2
  <2>2. f = [i \in 0..N |-> f[i]]
    OBVIOUS
  <2> QED BY <2>1, <2>2
<1> DEFINE temp == CHOOSE g : Fix(g)
<1>7. Fix(temp)
  <2> HIDE DEF Fix
  <2> QED BY <1>6
<1> DEFINE Ends(n) == temp[n] = 0 /\ (n > 1 => temp[n - 1] # 0)
           n == CHOOSE k \in 1..N : Ends(k)
<1>8. intToChar(number) = [i \in 1..n |-> temp[n - i] % 10]
  BY DEF intToChar, N
<1> HIDE DEF temp
<1>9. temp[0] = number /\ \A i \in 1..N : temp[i] = temp[i - 1] \div 10
  <2>1. \A i \in 0..N : temp[i] = IF i = 0 THEN number ELSE temp[i - 1] \div 10
    BY <1>7
  <2>2. 0 \in 0..N /\ \A i \in 1..N : i \in 0..N /\ i # 0
    BY <1>2
  <2> QED BY <2>1, <2>2
<1>10. \A k \in 0..N : temp[k] \in Nat /\ (temp[k] + k <= number \/ temp[k] = 0)
  <2> DEFINE Fine == {k \in Nat : k <= N => temp[k] \in Nat /\ (temp[k] + k <= number \/ temp[k] = 0)}
  <2>1. 0 \in Fine
    BY <1>9
  <2>2. ASSUME NEW k \in Nat, k \in Fine PROVE k + 1 \in Fine
    <3> SUFFICES ASSUME k + 1 <= N
                 PROVE  temp[k + 1] \in Nat /\ (temp[k + 1] + (k + 1) <= number \/ temp[k + 1] = 0)
      OBVIOUS
    <3> DEFINE x == temp[k]
               y == temp[k + 1]
    <3>1. k + 1 \in 1..N /\ (k + 1) - 1 = k /\ k <= N
      BY <1>2
    <3>2. x \in Nat /\ (x + k <= number \/ x = 0)
      BY <2>2, <3>1
    <3>3. y = x \div 10
      BY <1>9, <3>1
    <3> HIDE DEF x, y
    <3>4. y \in Nat /\ (x = 0 => y = 0) /\ (x # 0 => y + 1 <= x)
      BY <3>2, <3>3
    <3>5. y \in Nat /\ (y + (k + 1) <= number \/ y = 0)
      BY <3>2, <3>4
    <3> QED BY <3>5 DEF y
  <2>3. Nat \subseteq Fine
    <3> HIDE DEF Fine
    <3> QED BY <2>1, <2>2, NatInduct
  <2> QED BY <1>2, <2>3
<1>11. temp[N] = 0
  <2>1. N \in 0..N
    BY <1>2
  <2>2. ~ (temp[N] + N <= number) \/ temp[N] \notin Nat
    BY DEF N
  <2> QED BY <1>10, <2>1, <2>2
<1>12. \E k \in 1..N : Ends(k)
  <2> DEFINE Zeros == {k \in Nat : k >= 1 /\ k <= N /\ temp[k] = 0}
  <2>1. N \in Zeros
    BY <1>2, <1>11
  <2>2. Zeros \in SUBSET Nat /\ Zeros # {}
    BY <2>1
  <2> HIDE DEF Zeros
  <2>3. PICK k \in Zeros : \A m \in Zeros : k <= m
    BY <2>2, NatLeast
  <2>4. k \in 1..N /\ temp[k] = 0
    BY <1>2 DEF Zeros
  <2>5. k > 1 => temp[k - 1] # 0
    <3> SUFFICES ASSUME k > 1, temp[k - 1] = 0 PROVE FALSE
      OBVIOUS
    <3>1. k - 1 \in Zeros
      BY <2>4, <1>2 DEF Zeros
    <3> QED BY <2>3, <2>4, <3>1
  <2> QED BY <2>4, <2>5
<1>13. n \in 1..N /\ temp[n] = 0
  <2> HIDE DEF Ends
  <2>1. n \in 1..N /\ Ends(n)
    BY <1>12
  <2> HIDE DEF n
  <2> QED BY <2>1 DEF Ends
<1> HIDE DEF n
<1>14. temp \in [0..N -> Nat]
  <2>1. temp = [i \in 0..N |-> temp[i]]
    BY <1>7
  <2> HIDE DEF Fix
  <2> QED BY <1>10, <2>1
<1>15. Quotients(temp, number)
  BY <1>9, <1>14 DEF Quotients, N
<1> QED BY <1>8, <1>13, <1>15 DEF N

(* It prints the number.                                                     *)
LEMMA IntToCharIs ==
  ASSUME NEW number \in Nat
  PROVE  intToChar(number) \in Seq(0..9) /\ Digits(10, intToChar(number)) = number
<1> DEFINE s == intToChar(number)
<1>1. PICK t : /\ Quotients(t, number)
               /\ \E n \in 1..number + 1 : t[n] = 0 /\ s = [i \in 1..n |-> t[n - i] % 10]
  BY IntToCharUnfolds
<1>2. PICK n \in 1..number + 1 : t[n] = 0 /\ s = [i \in 1..n |-> t[n - i] % 10]
  BY <1>1
<1> HIDE DEF s
<1>3. /\ n \in Nat /\ n <= number + 1 /\ t[0] = number
      /\ \A i \in 0..n : t[i] \in Nat
      /\ \A i \in 1..n : t[i] = t[i - 1] \div 10
  BY <1>1 DEF Quotients
<1>4. \A i \in 1..n : n - i \in 0..n /\ t[n - i] \in Nat
  BY <1>3
<1>5. \A i \in 1..n : t[n - i] % 10 \in 0..9
  <2> TAKE i \in 1..n
  <2> DEFINE x == t[n - i]
  <2>1. x \in Nat
    BY <1>4
  <2> HIDE DEF x
  <2>2. x % 10 \in 0..9
    BY <2>1
  <2> QED BY <2>2 DEF x
<1>6. s \in Seq(0..9) /\ Len(s) = n /\ \A i \in 1..n : s[i] = t[n - i] % 10
  <2>1. s \in [1..n -> 0..9]
    BY <1>2, <1>5
  <2> QED BY <1>2, <1>3, <2>1
<1>7. s \in Seq(Nat)
  <2>1. 0..9 \subseteq Nat
    OBVIOUS
  <2> QED BY <1>6, <2>1, SeqMonotonic
<1> DEFINE g == [k \in 0..n |-> t[n - k]]
<1>8. PartialValues(g, 10, s)
  <2>1. g \in [0..Len(s) -> Nat]
    <3>1. \A k \in 0..n : n - k \in 0..n
      BY <1>3
    <3>2. \A k \in 0..n : t[n - k] \in Nat
      BY <1>3, <3>1
    <3> QED BY <1>6, <3>2
  <2>2. g[0] = 0
    BY <1>2, <1>3
  <2>3. ASSUME NEW i \in 1..n PROVE g[i] = 10 * g[i - 1] + s[i]
    <3> DEFINE x == t[n - i]
               y == t[(n - i) + 1]
    <3>1. /\ i \in 0..n /\ i - 1 \in 0..n /\ n - (i - 1) = (n - i) + 1
          /\ (n - i) + 1 \in 1..n /\ ((n - i) + 1) - 1 = n - i
      BY <1>3
    <3>2. g[i] = x /\ g[i - 1] = y
      BY <3>1
    <3>3. y = x \div 10
      BY <1>3, <3>1
    <3>4. s[i] = x % 10 /\ x \in Nat
      BY <1>4, <1>6
    <3> HIDE DEF g, x, y
    <3>5. x = 10 * (x \div 10) + (x % 10)
      BY <3>4
    <3> QED BY <3>2, <3>3, <3>4, <3>5
  <2> HIDE DEF g
  <2> QED BY <1>6, <2>1, <2>2, <2>3 DEF PartialValues
<1>9. g[n] = number
  <2>1. n \in 0..n /\ n - n = 0
    BY <1>3
  <2> QED BY <1>3, <2>1
<1> HIDE DEF g
<1>10. Digits(10, s) = g[Len(s)]
  BY <1>7, <1>8, DigitsAre, 10 \in Nat
<1> QED BY <1>6, <1>9, <1>10 DEF s

-----------------------------------------------------------------------------
(* Decimal strings of words.                                                 *)

(* The string a times the factor, m times over.                              *)
Powered(a, factor, m) ==
  LET times[j \in 0..m] == IF j = 0 THEN a ELSE multiplyStrings(times[j - 1], factor)
  IN  times[m]

(* It is the number times a power of the factor.                             *)
LEMMA PoweredIs ==
  ASSUME NEW a \in Seq(0..9), NEW factor \in Seq(0..9), NEW m \in Nat,
         NEW p, Powers(p, Digits(10, factor))
  PROVE  /\ Powered(a, factor, m) \in Seq(0..9)
         /\ Digits(10, Powered(a, factor, m)) = Digits(10, a) * p[m]
<1> DEFINE V == Seq(0..9)
           base == Digits(10, factor)
           Fix(g) == g = [j \in 0..m |-> IF j = 0 THEN a ELSE multiplyStrings(g[j - 1], factor)]
           Step == [x \in V \X Nat |-> multiplyStrings(x[1], factor)]
<1>1. ASSUME NEW s \in V
      PROVE  multiplyStrings(s, factor) \in V /\ Digits(10, multiplyStrings(s, factor)) = Digits(10, s) * base
  BY <1>1, MultiplyStringsIs DEF Decimal
<1>2. Step \in [V \X Nat -> V] /\ \A s \in V, j \in Nat : Step[<<s, j>>] = multiplyStrings(s, factor)
  <2>1. ASSUME NEW x \in V \X Nat PROVE multiplyStrings(x[1], factor) \in V
    <3>1. x[1] \in V
      OBVIOUS
    <3> QED BY <1>1, <3>1
  <2> HIDE DEF V
  <2> QED BY <2>1
<1>3. a \in V
  OBVIOUS
<1>4. \A s \in V : Digits(10, s) \in Nat
  <2>1. PICK q : Powers(q, 10)
    BY PowersExist, 10 \in Nat \ {0}
  <2> QED BY <2>1, DecimalDigits
<1>5. base \in Nat /\ p \in [Nat -> Nat \ {0}] /\ p[0] = 1 /\ \A n \in Nat : p[n + 1] = base * p[n]
  BY <1>4 DEF Powers
<1> HIDE DEF V, Step, base
<1>6. PICK f \in [0..m -> V] : Iterates(f, 1..m, a, Step)
  BY <1>2, <1>3, BoundedRecursion
<1>7. f[0] = a /\ \A j \in 1..m : f[j] = Step[<<f[j - 1], j>>]
  BY <1>6 DEF Iterates
<1>8. \A j \in 1..m : f[j] = multiplyStrings(f[j - 1], factor)
  <2> TAKE j \in 1..m
  <2>1. j - 1 \in 0..m /\ j \in Nat
    OBVIOUS
  <2>2. f[j - 1] \in V
    BY <2>1
  <2> QED BY <1>2, <1>7, <2>1, <2>2
<1>9. Fix(f)
  <2>1. ASSUME NEW j \in 0..m PROVE f[j] = IF j = 0 THEN a ELSE multiplyStrings(f[j - 1], factor)
    <3>1. CASE j = 0
      BY <1>7, <3>1
    <3>2. CASE j # 0
      <4>1. j \in 1..m
        BY <3>2
      <4> QED BY <1>8, <3>2, <4>1
    <3> QED BY <3>1, <3>2
  <2>2. f = [j \in 0..m |-> f[j]]
    OBVIOUS
  <2> QED BY <2>1, <2>2
<1> DEFINE times == CHOOSE g : Fix(g)
<1>10. Fix(times)
  <2> HIDE DEF Fix
  <2> QED BY <1>9
<1>11. Powered(a, factor, m) = times[m]
  BY DEF Powered
<1> HIDE DEF times
<1>12. times[0] = a /\ \A j \in 1..m : times[j] = multiplyStrings(times[j - 1], factor)
  <2>1. \A j \in 0..m : times[j] = IF j = 0 THEN a ELSE multiplyStrings(times[j - 1], factor)
    BY <1>10
  <2>2. 0 \in 0..m /\ \A j \in 1..m : j \in 0..m /\ j # 0
    OBVIOUS
  <2> QED BY <2>1, <2>2
<1> HIDE DEF Fix
<1> DEFINE A == Digits(10, a)
           Fine == {j \in Nat : j <= m => times[j] \in V /\ Digits(10, times[j]) = A * p[j]}
<1>13. A \in Nat
  BY <1>3, <1>4
<1> HIDE DEF A
<1>14. 0 \in Fine
  <2>1. A = A * p[0]
    BY <1>5, <1>13
  <2>2. Digits(10, times[0]) = A /\ times[0] \in V
    BY <1>3, <1>12 DEF A
  <2> QED BY <2>1, <2>2
<1>15. ASSUME NEW j \in Nat, j \in Fine PROVE j + 1 \in Fine
  <2> SUFFICES ASSUME j + 1 <= m
               PROVE  times[j + 1] \in V /\ Digits(10, times[j + 1]) = A * p[j + 1]
    OBVIOUS
  <2> DEFINE s == times[j]
             D == Digits(10, s)
             q == p[j]
  <2>1. j + 1 \in 1..m /\ (j + 1) - 1 = j /\ j <= m
    OBVIOUS
  <2>2. s \in V /\ D = A * q
    BY <1>15, <2>1
  <2>3. times[j + 1] = multiplyStrings(s, factor)
    BY <1>12, <2>1
  <2>4. q \in Nat /\ p[j + 1] = base * q
    BY <1>5
  <2> HIDE DEF s
  <2>5. times[j + 1] \in V /\ Digits(10, times[j + 1]) = D * base
    BY <1>1, <2>2, <2>3
  <2> HIDE DEF D, q
  <2>6. D * base = A * (base * q)
    BY <1>5, <1>13, <2>2, <2>4
  <2> QED BY <2>4, <2>5, <2>6
<1>16. Nat \subseteq Fine
  <2> HIDE DEF Fine
  <2> QED BY <1>14, <1>15, NatInduct
<1>17. times[m] \in V /\ Digits(10, times[m]) = A * p[m]
  BY <1>16
<1> QED BY <1>11, <1>17 DEF V, A

(* Word i of w, as often times the base as words follow.                     *)
Weighted(w, i) == Powered(intToChar(w[i]), intToChar(WordBase), Len(w) - i)

(* GenerateDecimalString adds them up.                                       *)
LEMMA DecimalUnfolds ==
  ASSUME NEW w \in Seq(Word), \A i \in 1..Len(w) : Weighted(w, i) \in Seq(0..9)
  PROVE  \E f : /\ f[0] = <<0>>
                /\ \A i \in 1..Len(w) : f[i] = addStrings(f[i - 1], Weighted(w, i))
                /\ GenerateDecimalString(w) = f[Len(w)]
<1> DEFINE n == Len(w)
           V == Seq(0..9)
           e == [i \in Nat |-> IF i \in 1..n THEN Weighted(w, i) ELSE <<>>]
           Step == [x \in V \X Nat |-> addStrings(x[1], e[x[2]])]
           Fix(g) == g = [i \in 0..n |-> IF i = 0 THEN <<0>> ELSE addStrings(g[i - 1], Weighted(w, i))]
<1>1. n \in Nat
  OBVIOUS
<1>2. e \in [Nat -> V] /\ \A i \in 1..n : e[i] = Weighted(w, i)
  <2>1. <<>> \in V
    OBVIOUS
  <2>2. \A i \in 1..n : i \in Nat
    BY <1>1
  <2> HIDE DEF V
  <2> QED BY <2>1, <2>2 DEF V
<1>3. ASSUME NEW s \in V, NEW i \in Nat PROVE addStrings(s, e[i]) \in V
  <2>1. e[i] \in V
    BY <1>2
  <2> HIDE DEF e
  <2> QED BY <2>1, AddStringsIs DEF Decimal
<1>4. <<0>> \in V
  OBVIOUS
<1> HIDE DEF e, V
<1>5. Step \in [V \X Nat -> V] /\ \A s \in V, i \in Nat : Step[<<s, i>>] = addStrings(s, e[i])
  <2>1. ASSUME NEW x \in V \X Nat PROVE addStrings(x[1], e[x[2]]) \in V
    <3>1. x[1] \in V /\ x[2] \in Nat
      OBVIOUS
    <3> QED BY <1>3, <3>1
  <2> QED BY <2>1
<1> HIDE DEF Step, n
<1>6. PICK f \in [0..n -> V] : Iterates(f, 1..n, <<0>>, Step)
  BY <1>1, <1>4, <1>5, BoundedRecursion
<1>7. f[0] = <<0>> /\ \A i \in 1..n : f[i] = Step[<<f[i - 1], i>>]
  BY <1>6 DEF Iterates
<1>8. \A i \in 1..n : f[i] = addStrings(f[i - 1], Weighted(w, i))
  <2> TAKE i \in 1..n
  <2>1. i - 1 \in 0..n /\ i \in Nat
    BY <1>1
  <2>2. f[i - 1] \in V
    BY <2>1
  <2> QED BY <1>2, <1>5, <1>7, <2>1, <2>2
<1>9. Fix(f)
  <2>1. ASSUME NEW i \in 0..n PROVE f[i] = IF i = 0 THEN <<0>> ELSE addStrings(f[i - 1], Weighted(w, i))
    <3>1. CASE i = 0
      BY <1>7, <3>1
    <3>2. CASE i # 0
      <4>1. i \in 1..n
        BY <1>1, <3>2
      <4> QED BY <1>8, <3>2, <4>1
    <3> QED BY <3>1, <3>2
  <2>2. f = [i \in 0..n |-> f[i]]
    OBVIOUS
  <2> QED BY <2>1, <2>2
<1> DEFINE sum == CHOOSE g : Fix(g)
<1>10. Fix(sum)
  <2> HIDE DEF Fix
  <2> QED BY <1>9
<1>11. GenerateDecimalString(w) = sum[n]
  BY DEF GenerateDecimalString, Weighted, Powered, n
<1> HIDE DEF sum
<1>12. sum[0] = <<0>> /\ \A i \in 1..n : sum[i] = addStrings(sum[i - 1], Weighted(w, i))
  <2>1. \A i \in 0..n : sum[i] = IF i = 0 THEN <<0>> ELSE addStrings(sum[i - 1], Weighted(w, i))
    BY <1>10
  <2>2. 0 \in 0..n /\ \A i \in 1..n : i \in 0..n /\ i # 0
    BY <1>1
  <2> QED BY <2>1, <2>2
<1> QED BY <1>11, <1>12 DEF n

(* The decimal string of words stands for their number.                      *)
LEMMA DecimalIs ==
  ASSUME NEW w \in Seq(Word)
  PROVE  /\ GenerateDecimalString(w) \in Seq(0..9)
         /\ Digits(10, GenerateDecimalString(w)) = Digits(WordBase, w)
         /\ Len(GenerateDecimalString(w)) > 1 => GenerateDecimalString(w)[1] # 0
<1> DEFINE n == Len(w)
           factor == intToChar(WordBase)
<1>1. n \in Nat /\ w \in Seq(Nat) /\ \A i \in 1..n : w[i] \in Nat
  BY WordSequence
<1>2. WordBase \in Nat \ {0} /\ WordBase \in Nat
  BY WordBaseIs
<1>3. PICK p : Powers(p, WordBase)
  BY <1>2, PowersExist
<1>4. p \in [Nat -> Nat \ {0}] /\ p[0] = 1 /\ \A k \in Nat : p[k + 1] = WordBase * p[k]
  BY <1>3 DEF Powers
<1>5. factor \in Seq(0..9) /\ Digits(10, factor) = WordBase
  BY <1>2, IntToCharIs
<1>6. ASSUME NEW i \in 1..n
      PROVE  Weighted(w, i) \in Seq(0..9) /\ Digits(10, Weighted(w, i)) = w[i] * p[n - i]
  <2> DEFINE a == intToChar(w[i])
  <2>1. a \in Seq(0..9) /\ Digits(10, a) = w[i]
    BY <1>1, IntToCharIs
  <2>2. n - i \in Nat
    BY <1>1
  <2>3. Powers(p, Digits(10, factor))
    BY <1>3, <1>5
  <2>4. Weighted(w, i) = Powered(a, factor, n - i)
    BY DEF Weighted
  <2> DEFINE m == n - i
  <2>5. m \in Nat /\ Weighted(w, i) = Powered(a, factor, m)
    BY <2>2, <2>4
  <2> HIDE DEF a, factor, m
  <2>6. Powered(a, factor, m) \in Seq(0..9) /\ Digits(10, Powered(a, factor, m)) = Digits(10, a) * p[m]
    BY <1>5, <2>1, <2>3, <2>5, PoweredIs
  <2>7. Weighted(w, i) \in Seq(0..9) /\ Digits(10, Weighted(w, i)) = w[i] * p[m]
    BY <2>1, <2>6, <2>5
  <2> QED BY <2>7 DEF m
<1>7. PICK f : /\ f[0] = <<0>>
               /\ \A i \in 1..n : f[i] = addStrings(f[i - 1], Weighted(w, i))
               /\ GenerateDecimalString(w) = f[n]
  BY <1>6, DecimalUnfolds
<1>8. PICK u : PartialValues(u, WordBase, w) /\ Digits(WordBase, w) = u[n]
  BY <1>1, <1>2, DigitsUnfold
<1>9. /\ u \in [0..n -> Nat] /\ u[0] = 0
      /\ \A i \in 1..n : u[i] = WordBase * u[i - 1] + w[i]
  BY <1>8 DEF PartialValues
<1> DEFINE Sound(i) == /\ f[i] \in Seq(0..9)
                       /\ Digits(10, f[i]) = u[i] * p[n - i]
                       /\ i > 0 => Decimal(f[i])
           Fine == {i \in Nat : i <= n => Sound(i)}
<1> HIDE DEF n, factor
<1>10. 0 \in Fine
  <2>1. <<0>> \in Seq(0..9)
    OBVIOUS
  <2>2. Digits(10, <<0>>) = 0
    BY ShortDigits, 10 \in Nat, 0 \in Nat
  <2>3. 0 * p[n - 0] = 0
    <3>1. n - 0 \in Nat
      BY <1>1
    <3> DEFINE m == n - 0
    <3> HIDE DEF m
    <3>2. p[m] \in Nat
      BY <1>4, <3>1 DEF m
    <3>3. 0 * p[m] = 0
      BY <3>2
    <3> QED BY <3>3 DEF m
  <2>4. Sound(0)
    BY <1>7, <1>9, <2>1, <2>2, <2>3
  <2> HIDE DEF Sound
  <2> QED BY <2>4
<1>11. ASSUME NEW i \in Nat, i \in Fine PROVE i + 1 \in Fine
  <2> SUFFICES ASSUME i + 1 <= n
               PROVE  Sound(i + 1)
    <3> HIDE DEF Sound
    <3> QED OBVIOUS
  <2> DEFINE k == i + 1
             m == n - k
             q == p[m]
             x == u[i]
             v == w[k]
             D == Digits(10, f[i])
             E == Digits(10, Weighted(w, k))
             s == f[k]
  <2>1. k \in 1..n /\ k - 1 = i /\ i <= n /\ i \in 0..n /\ m \in Nat /\ n - i = m + 1
    BY <1>1
  <2>2. q \in Nat /\ p[n - i] = WordBase * q
    BY <1>4, <2>1
  <2>3. x \in Nat /\ v \in Nat /\ u[k] = WordBase * x + v
    BY <1>1, <1>9, <2>1
  <2>4. f[i] \in Seq(0..9) /\ D = x * (WordBase * q)
    BY <1>11, <2>1, <2>2
  <2>5. Weighted(w, k) \in Seq(0..9) /\ E = v * q
    BY <1>6, <2>1
  <2>6. s = addStrings(f[i], Weighted(w, k))
    BY <1>7, <2>1
  <2> HIDE DEF s, k
  <2>7. Decimal(s) /\ Digits(10, s) = D + E
    BY <2>4, <2>5, <2>6, AddStringsIs
  <2> HIDE DEF D, E, x, v, q, m
  <2>8. D + E = (WordBase * x + v) * q
    BY <1>2, <2>2, <2>3, <2>4, <2>5
  <2>9. Digits(10, s) = u[k] * q
    BY <2>3, <2>7, <2>8
  <2>10. s \in Seq(0..9)
    BY <2>7 DEF Decimal
  <2> QED BY <2>7, <2>9, <2>10 DEF s, k, q, m
<1>12. Nat \subseteq Fine
  <2> HIDE DEF Fine
  <2> QED BY <1>10, <1>11, NatInduct
<1>13. f[n] \in Seq(0..9) /\ Digits(10, f[n]) = u[n] * p[n - n] /\ (n > 0 => Decimal(f[n]))
  BY <1>1, <1>12
<1>14. Digits(10, f[n]) = u[n]
  <2> DEFINE x == u[n]
  <2>1. n - n = 0 /\ n \in 0..n
    BY <1>1
  <2>2. x \in Nat /\ p[n - n] = 1
    BY <1>4, <1>9, <2>1
  <2>3. Digits(10, f[n]) = x * 1
    BY <1>13, <2>2
  <2> HIDE DEF x
  <2>4. x * 1 = x
    BY <2>2
  <2> QED BY <2>3, <2>4 DEF x
<1>15. Len(f[n]) > 1 => f[n][1] # 0
  <2>1. CASE n = 0
    <3>1. Len(f[n]) = 1
      BY <1>7, <2>1
    <3> QED BY <3>1
  <2>2. CASE n # 0
    <3>1. Decimal(f[n])
      BY <1>1, <1>13, <2>2
    <3> DEFINE s == f[n]
    <3> HIDE DEF s
    <3>2. s = <<>> => Len(s) = 0
      OBVIOUS
    <3>3. Len(s) > 1 => s[1] # 0
      BY <3>1, <3>2 DEF Decimal, s
    <3> QED BY <3>3 DEF s
  <2> QED BY <2>1, <2>2
<1> QED BY <1>7, <1>8, <1>13, <1>14, <1>15 DEF n

-----------------------------------------------------------------------------
(* The variable.                                                             *)

(* What every constructor leaves behind.                                     *)
IInv ==
  /\ data \in Seq(Word)
  /\ hexString = HexString(data)
  /\ meant = Digits(WordBase, data)

(* BigNumber.cpp: whatever a number was made from, its words are words that  *)
(* stand for it, and its text is the text of the words.                      *)
THEOREM WordsStandForIt == Spec => []IInv
<1>1. Init => IInv
  <2> SUFFICES ASSUME Init PROVE IInv
    OBVIOUS
  <2>1. data = <<>> /\ hexString = <<>> /\ meant = 0
    BY DEF Init
  <2>2. <<>> \in Seq(Word)
    OBVIOUS
  <2>3. HexString(<<>>) = <<>>
    <3>1. HexString(<<>>) \in Seq(Digit) /\ Len(HexString(<<>>)) = WordDigits * Len(<<>>)
      BY <2>2, HexStringIs
    <3>2. WordDigits * Len(<<>>) = 0
      BY WordBaseIs
    <3> QED BY <3>1, <3>2, EmptySeq
  <2>4. Digits(WordBase, <<>>) = 0
    <3>1. WordBase \in Nat /\ 0 \in Nat
      BY WordBaseIs
    <3> QED BY <3>1, ShortDigits
  <2> QED BY <2>1, <2>2, <2>3, <2>4 DEF IInv
<1>2. ASSUME NEW words \in Seq(Word), Becomes(words, Digits(WordBase, words))
      PROVE  IInv'
  BY <1>2 DEF Becomes, IInv
<1>3. IInv /\ [Next]_vars => IInv'
  <2> SUFFICES ASSUME IInv, [Next]_vars PROVE IInv'
    OBVIOUS
  <2>1. ASSUME NEW value \in Uints, SetUint(value) PROVE IInv'
    <3>1. value \in 0..UintMax
      BY WordAssumption
    <3>2. FromUint(value) \in Seq(Word) /\ Digits(WordBase, FromUint(value)) = value
      BY <3>1, FromUintIs
    <3>3. Becomes(FromUint(value), Digits(WordBase, FromUint(value)))
      BY <2>1, <3>2 DEF SetUint
    <3> QED BY <1>2, <3>2, <3>3
  <2>2. ASSUME NEW words \in Words, SetWords(words) PROVE IInv'
    <3>1. words \in Seq(Word)
      BY WordAssumption DEF Word
    <3> QED BY <1>2, <2>2, <3>1 DEF SetWords
  <2>3. ASSUME NEW t \in Texts, SetText(t) PROVE IInv'
    <3> DEFINE text == t.blanks \o t.prefix \o t.digits
    <3>1. Numeral(t.blanks, t.prefix, t.digits)
      BY WordAssumption DEF Numeral
    <3>2. /\ FromHex(text) \in Seq(Word)
          /\ Digits(WordBase, FromHex(text)) = Digits(16, t.digits)
      BY <3>1, FromHexIs, Zenon
    <3>3. Becomes(FromHex(text), Digits(16, t.digits))
      BY <2>3 DEF SetText
    <3> HIDE DEF text
    <3>4. Becomes(FromHex(text), Digits(WordBase, FromHex(text)))
      BY <3>2, <3>3
    <3> QED BY <1>2, <3>2, <3>4
  <2>4. CASE UNCHANGED vars
    BY <2>4 DEF vars, IInv
  <2> QED BY <2>1, <2>2, <2>3, <2>4 DEF Next
<1> QED BY <1>1, <1>3, PTL DEF Spec

(* Words stay words; every byte of Bytes is a byte.                          *)
THEOREM WordsStayWords == Spec => []TypeOK
<1>1. IInv => TypeOK
  <2> SUFFICES ASSUME IInv PROVE TypeOK
    OBVIOUS
  <2>1. DOMAIN data = 1..Len(data) /\ \A i \in 1..Len(data) : data[i] \in 0..WordBase - 1
    BY WordSequence DEF IInv, Word
  <2>2. BytesOf(data) \in Seq(Byte)
    BY BytesOfIs DEF IInv
  <2>3. \A i \in DOMAIN BytesOf(data) : BytesOf(data)[i] \in Byte
    BY <2>2, ByteSequence
  <2> QED BY <2>1, <2>3 DEF TypeOK
<1> QED BY <1>1, WordsStandForIt, PTL

(* The words, the bytes and the printed text all stand for the number that   *)
(* was given, and a number read back from its own text has the same words.   *)
THEOREM NumbersKeepTheirValue == Spec => []KeepsItsValue
<1>1. IInv => KeepsItsValue
  <2> SUFFICES ASSUME IInv PROVE KeepsItsValue
    OBVIOUS
  <2>1. data \in Seq(Word) /\ hexString = HexString(data) /\ meant = Digits(WordBase, data)
    BY DEF IInv
  <2>2. Number(BytesOf(data)) = Digits(WordBase, data)
    BY <2>1, BytesOfIs
  <2>3. Digits(16, HexString(data)) = Digits(WordBase, data)
    BY <2>1, HexStringValue
  <2>4. FromHex(HexString(data)) = data
    BY <2>1, TextGivesWordsBack
  <2> QED BY <2>1, <2>2, <2>3, <2>4 DEF KeepsItsValue
<1> QED BY <1>1, WordsStandForIt, PTL

(* A number of one digit is that digit.                                      *)
LEMMA OneDigit ==
  ASSUME NEW base \in Nat, NEW s \in Seq(Nat), Len(s) = 1
  PROVE  Digits(base, s) = s[1]
<1> DEFINE a == s[1]
<1>1. a \in Nat
  <2>1. 1 \in 1..Len(s)
    OBVIOUS
  <2> QED BY <2>1, ElementOfSeq
<1>2. s = <<a>>
  OBVIOUS
<1> HIDE DEF a
<1>3. Digits(base, <<a>>) = a
  BY <1>1, ShortDigits
<1>4. Digits(base, s) = a
  BY <1>2, <1>3
<1> QED BY <1>4 DEF a

(* GenerateDecimalString prints every number above zero, digit by digit and  *)
(* without leading zeros.                                                    *)
THEOREM DecimalsAreTheNumber == Spec => []NonZeroDecimals
<1>1. IInv => NonZeroDecimals
  <2> DEFINE decimal == GenerateDecimalString(data)
  <2> SUFFICES ASSUME IInv, meant > 0
               PROVE  /\ \A i \in DOMAIN decimal : decimal[i] \in 0..9
                      /\ Digits(10, decimal) = meant
                      /\ decimal # <<>> /\ decimal[1] # 0
    BY DEF NonZeroDecimals
  <2>1. data \in Seq(Word) /\ meant = Digits(WordBase, data)
    BY DEF IInv
  <2>2. /\ decimal \in Seq(0..9) /\ Digits(10, decimal) = Digits(WordBase, data)
        /\ Len(decimal) > 1 => decimal[1] # 0
    BY <2>1, DecimalIs
  <2> HIDE DEF decimal
  <2>3. \A i \in DOMAIN decimal : decimal[i] \in 0..9
    BY <2>2, ElementOfSeq, LenProperties
  <2>4. Digits(10, decimal) = meant
    BY <2>1, <2>2
  <2>5. decimal \in Seq(Nat) /\ Len(decimal) \in Nat
    BY <2>2
  <2>6. decimal # <<>>
    <3>1. Digits(10, <<>>) = 0
      BY ShortDigits
    <3> QED BY <2>4, <3>1
  <2>7. decimal[1] # 0
    <3>1. CASE Len(decimal) > 1
      BY <2>2, <3>1
    <3>2. CASE ~ (Len(decimal) > 1)
      <4>1. Len(decimal) = 1
        <5> DEFINE n == Len(decimal)
        <5>1. n \in Nat /\ n # 0 /\ ~ (n > 1)
          BY <2>5, <2>6, <3>2, EmptySeq
        <5> HIDE DEF n
        <5>2. n = 1
          BY <5>1
        <5> QED BY <5>2 DEF n
      <4>2. Digits(10, decimal) = decimal[1]
        BY <2>5, <4>1, OneDigit
      <4> QED BY <2>4, <4>2
    <3> QED BY <3>1, <3>2
  <2> QED BY <2>3, <2>4, <2>6, <2>7
<1> QED BY <1>1, WordsStandForIt, PTL

(* Up to two words ToUInt32 returns the number, or the greatest long for     *)
(* what is beyond it; above two words it throws.                             *)
THEOREM ConversionsAreRight == Spec => []ConvertsOrSaturates
<1>1. IInv => ConvertsOrSaturates
  <2> DEFINE result == IF meant <= LongMax THEN meant ELSE LongMax
  <2> SUFFICES ASSUME IInv
               PROVE  ToUInt32(data) = IF Len(data) > 2 THEN Threw ELSE result
    BY DEF ConvertsOrSaturates
  <2> DEFINE B == WordBase
             value == Digits(10, GenerateDecimalString(data))
  <2>1. data \in Seq(Word) /\ meant = Digits(B, data)
    BY DEF IInv
  <2>2. B \in Nat \ {0} /\ B \in Nat /\ UintMax = B * B - 1
    BY WordBaseIs DEF UintMax
  <2>3. data \in Seq(Nat) /\ Len(data) \in Nat
    BY <2>1, WordSequence
  <2>4. value = meant
    BY <2>1, DecimalIs
  <2>5. ToUInt32(data) = IF Len(data) > 2 THEN Threw
                         ELSE IF Len(data) = 0 THEN 0
                         ELSE (IF value > LongMax THEN LongMax ELSE value) % (UintMax + 1)
    BY DEF ToUInt32
  <2>6. PICK p : Powers(p, B)
    BY <2>2, PowersExist
  <2>7. p \in [Nat -> Nat \ {0}] /\ p[0] = 1 /\ \A n \in Nat : p[n + 1] = B * p[n]
    BY <2>6 DEF Powers
  <2>8. data \in Seq(0..B - 1)
    BY <2>1 DEF Word
  <2> HIDE DEF B, value
  <2>9. meant \in Nat /\ meant < p[Len(data)]
    BY <2>1, <2>2, <2>6, <2>8, DigitsBound
  <2>10. p[2] = B * B
    <3>1. p[0 + 1] = B * p[0] /\ p[1 + 1] = B * p[1]
      BY <2>7
    <3> QED BY <2>2, <2>7, <3>1
  <2>11. CASE Len(data) > 2
    BY <2>5, <2>11
  <2>12. CASE Len(data) = 0
    <3>1. meant = 0
      BY <2>7, <2>9, <2>12
    <3>2. result = 0
      BY <3>1, WordAssumption
    <3> QED BY <2>5, <2>12, <3>2
  <2>13. CASE ~ (Len(data) > 2) /\ Len(data) # 0
    <3> DEFINE n == Len(data)
               b == p[n]
               S == UintMax + 1
    <3>1. n \in Nat /\ n <= 2
      BY <2>3, <2>13
    <3>2. b <= p[2]
      BY <2>2, <2>6, <3>1, PowersGrow
    <3>3. S \in Nat \ {0} /\ S = p[2] /\ b \in Nat
      <4> DEFINE m == B * B
      <4>1. p[2] = m /\ p[2] \in Nat \ {0} /\ UintMax = m - 1
        BY <2>2, <2>7, <2>10
      <4>2. m \in Nat
        BY <2>2
      <4> HIDE DEF m
      <4>3. S = m
        BY <4>1, <4>2
      <4>4. b \in Nat
        BY <2>7, <3>1
      <4> QED BY <4>1, <4>3, <4>4
    <3>4. ToUInt32(data) = result % S
      <4>1. ToUInt32(data) = (IF value > LongMax THEN LongMax ELSE value) % S
        BY <2>5, <2>13
      <4>2. (IF value > LongMax THEN LongMax ELSE value) = result
        BY <2>4, <2>9, WordAssumption
      <4> QED BY <4>1, <4>2
    <3>5. result \in Nat /\ result <= meant
      BY <2>9, WordAssumption
    <3> HIDE DEF S, b, result
    <3>6. result < S
      BY <2>9, <3>2, <3>3, <3>5 DEF b
    <3>7. result % S = result
      BY <3>3, <3>5, <3>6
    <3> QED BY <2>13, <3>4, <3>7
  <2> QED BY <2>11, <2>12, <2>13
<1> QED BY <1>1, WordsStandForIt, PTL
=============================================================================
