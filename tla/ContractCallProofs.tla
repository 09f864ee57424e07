------------------------- MODULE ContractCallProofs -------------------------
(* The invariants of ContractCall, for all items, calls and widths.          *)
EXTENDS ContractCall, BytesProofs

-----------------------------------------------------------------------------
(* Byte arrays and their parts.                                              *)

(* A function on 1..n is a byte array.                                       *)
LEMMA ByteArray ==
  ASSUME NEW n \in Nat, NEW f \in [1..n -> Byte]
  PROVE  f \in Seq(Byte) /\ Len(f) = n /\ DOMAIN f = 1..n
<1>1. f \in Seq(Byte)
  OBVIOUS
<1> QED BY <1>1

(* The n bytes behind the first a ones.                                      *)
LEMMA Slice ==
  ASSUME NEW s \in Seq(Byte), NEW a \in Nat, NEW n \in Nat, a + n <= Len(s)
  PROVE  /\ SubSeq(s, a + 1, a + n) \in Seq(Byte)
         /\ Len(SubSeq(s, a + 1, a + n)) = n
         /\ \A i \in 1..n : SubSeq(s, a + 1, a + n)[i] = s[a + i]
<1> DEFINE m == a + 1
           k == a + n
<1>1. Len(s) \in Nat /\ m \in Int /\ k \in Int /\ m >= 1 /\ k <= Len(s) /\ k - m + 1 = n
  OBVIOUS
<1>2. \A i \in m..k : s[i] \in Byte
  <2>1. \A i \in 1..Len(s) : s[i] \in Byte
    BY ElementOfSeq
  <2> HIDE DEF m, k
  <2> QED BY <1>1, <2>1
<1>3. \A i \in Nat : m + i - 1 = a + i
  OBVIOUS
<1>4. m <= k \/ n = 0
  OBVIOUS
<1> HIDE DEF m, k
<1>5. /\ SubSeq(s, m, k) \in Seq(Byte)
      /\ Len(SubSeq(s, m, k)) = IF m <= k THEN k - m + 1 ELSE 0
      /\ \A i \in 1..k - m + 1 : SubSeq(s, m, k)[i] = s[m + i - 1]
  BY <1>1, <1>2, SubSeqProperties
<1>6. Len(SubSeq(s, m, k)) = n
  BY <1>1, <1>4, <1>5
<1>7. \A i \in 1..n : SubSeq(s, m, k)[i] = s[a + i]
  <2> TAKE i \in 1..n
  <2>1. i \in 1..k - m + 1 /\ i \in Nat
    BY <1>1
  <2> QED BY <1>3, <1>5, <2>1
<1> QED BY <1>5, <1>6, <1>7 DEF m, k

(* They are t when they agree with it one by one.                            *)
LEMMA SliceIs ==
  ASSUME NEW s \in Seq(Byte), NEW a \in Nat, NEW t \in Seq(Byte),
         a + Len(t) <= Len(s), \A i \in 1..Len(t) : s[a + i] = t[i]
  PROVE  SubSeq(s, a + 1, a + Len(t)) = t
<1> DEFINE n == Len(t)
<1>1. n \in Nat /\ a + n <= Len(s)
  OBVIOUS
<1> HIDE DEF n
<1>2. /\ SubSeq(s, a + 1, a + n) \in Seq(Byte)
      /\ Len(SubSeq(s, a + 1, a + n)) = n
      /\ \A i \in 1..n : SubSeq(s, a + 1, a + n)[i] = s[a + i]
  BY <1>1, Slice
<1> DEFINE r == SubSeq(s, a + 1, a + n)
<1>3. r \in Seq(Byte) /\ Len(r) = Len(t) /\ \A i \in 1..Len(t) : r[i] = t[i]
  BY <1>2 DEF n
<1> HIDE DEF r
<1>4. r = t
  BY <1>3, SeqEqual
<1> QED BY <1>4 DEF r, n

LEMMA ConcatBytes ==
  ASSUME NEW a \in Seq(Byte), NEW b \in Seq(Byte)
  PROVE  /\ a \o b \in Seq(Byte) /\ Len(a \o b) = Len(a) + Len(b)
         /\ Len(a) \in Nat /\ Len(b) \in Nat
         /\ \A i \in 1..Len(a) : (a \o b)[i] = a[i]
         /\ \A i \in 1..Len(b) : (a \o b)[Len(a) + i] = b[i]
OBVIOUS

(* Where each of the byte arrays s begins when they are joined.              *)
Offsets(o, s) ==
  /\ o \in [0..Len(s) -> Nat]
  /\ o[0] = 0
  /\ \A i \in 1..Len(s) : o[i] = o[i - 1] + Len(s[i])

(* The first j arrays of s are found in v, each from its offset on.          *)
Holds(v, s, o, j) ==
  /\ v \in Seq(Byte) /\ Len(v) = o[j]
  /\ \A i \in 1..j : o[i - 1] + Len(s[i]) <= o[j]
  /\ \A i \in 1..j : \A k \in 1..Len(s[i]) :
        o[i - 1] + k <= o[j] /\ v[o[i - 1] + k] = s[i][k]

LEMMA JoinedHolds ==
  ASSUME NEW s \in Seq(Seq(Byte)), NEW o, Offsets(o, s)
  PROVE  Holds(FlattenSeq(s), s, o, Len(s))
<1> DEFINE N == Len(s)
<1>1. N \in Nat /\ \A i \in 1..N : s[i] \in Seq(Byte) /\ Len(s[i]) \in Nat
  BY ElementOfSeq
<1>2. CASE s = <<>>
  <2>1. FlattenSeq(s) = <<>> /\ N = 0 /\ o[0] = 0
    BY <1>2 DEF FlattenSeq, Offsets
  <2> QED BY <2>1 DEF Holds
<1>3. CASE s # <<>>
  <2>1. PICK u : Joined(u, s) /\ FlattenSeq(s) = u[N]
    BY <1>3, FlattenUnfolds
  <2>2. /\ o \in [0..N -> Nat] /\ o[0] = 0
        /\ \A i \in 1..N : o[i] = o[i - 1] + Len(s[i])
    BY DEF Offsets
  <2>3. /\ u \in [1..N -> Seq(Byte)] /\ u[1] = s[1]
        /\ \A i \in 2..N : u[i] = u[i - 1] \o s[i]
    BY <2>1 DEF Joined
  <2>4. N >= 1
    BY <1>1, <1>3, EmptySeq
  <2> HIDE DEF N
  <2> DEFINE T == {m \in Nat : m + 1 <= N => Holds(u[m + 1], s, o, m + 1)}
  <2>5. 0 \in T
    <3>1. o[1] = Len(s[1]) /\ o[1 - 1] = 0 /\ 1 \in 1..N
      BY <1>1, <2>2, <2>4
    <3>2. u[1] \in Seq(Byte) /\ Len(u[1]) = o[1]
      BY <2>3, <3>1
    <3>3. \A k \in 1..Len(s[1]) : o[1 - 1] + k <= o[1] /\ u[1][o[1 - 1] + k] = s[1][k]
      <4> TAKE k \in 1..Len(s[1])
      <4>1. k <= Len(s[1]) /\ k \in Nat /\ Len(s[1]) \in Nat
        BY <1>1, <3>1
      <4>2. 0 + k = k
        BY <4>1
      <4> QED BY <2>3, <3>1, <4>1, <4>2
    <3>4. \A i \in 1..1 : i = 1
      OBVIOUS
    <3>5. o[1 - 1] + Len(s[1]) <= o[1]
      <4> DEFINE d == Len(s[1])
                 c == o[1]
                 a == o[1 - 1]
      <4>1. d \in Nat /\ c = d /\ a = 0
        BY <1>1, <3>1
      <4> HIDE DEF a, c, d
      <4>2. a + d <= c
        BY <4>1
      <4> QED BY <4>2 DEF a, c, d
    <3>6. Holds(u[1], s, o, 1)
      BY <3>2, <3>3, <3>4, <3>5 DEF Holds
    <3> QED BY <3>6
  <2>6. ASSUME NEW m \in Nat, m \in T PROVE m + 1 \in T
    <3> SUFFICES ASSUME (m + 1) + 1 <= N PROVE Holds(u[(m + 1) + 1], s, o, (m + 1) + 1)
      OBVIOUS
    <3> DEFINE j == m + 1
               n == j + 1
    <3>1. /\ j \in 1..N /\ n \in 2..N /\ n \in 1..N /\ n - 1 = j
          /\ j \in 0..N /\ n \in 0..N /\ 1..n = (1..j) \cup {n}
      BY <1>1
    <3>2. Holds(u[j], s, o, j)
      BY <2>6, <3>1
    <3> HIDE DEF j, n
    <3>3. /\ u[n] = u[j] \o s[n] /\ o[n] = o[j] + Len(s[n])
          /\ u[j] \in Seq(Byte) /\ s[n] \in Seq(Byte) /\ Len(s[n]) \in Nat
          /\ o[j] \in Nat /\ o[n] \in Nat /\ Len(u[j]) = o[j]
      BY <1>1, <2>2, <2>3, <3>1, <3>2 DEF Holds
    <3>4. /\ u[n] \in Seq(Byte) /\ Len(u[n]) = o[n]
          /\ \A i \in 1..Len(u[j]) : u[n][i] = u[j][i]
          /\ \A i \in 1..Len(s[n]) : u[n][Len(u[j]) + i] = s[n][i]
      <4> DEFINE a == u[j]
                 b == s[n]
                 c == u[n]
      <4>1. a \in Seq(Byte) /\ b \in Seq(Byte) /\ c = a \o b /\ o[n] = Len(a) + Len(b)
        BY <3>3
      <4> HIDE DEF a, b, c
      <4>2. /\ c \in Seq(Byte) /\ Len(c) = o[n]
            /\ \A i \in 1..Len(a) : c[i] = a[i]
            /\ \A i \in 1..Len(b) : c[Len(a) + i] = b[i]
        BY <4>1, ConcatBytes
      <4> QED BY <4>2 DEF a, b, c
    <3>5. ASSUME NEW i \in 1..j, NEW k \in 1..Len(s[i])
          PROVE  o[i - 1] + k <= o[n] /\ u[n][o[i - 1] + k] = s[i][k]
      <4>1. o[i - 1] + k <= o[j] /\ u[j][o[i - 1] + k] = s[i][k]
        BY <3>2, <3>5 DEF Holds
      <4> DEFINE x == o[i - 1]
                 y == x + k
      <4>2. x \in Nat
        <5>1. i - 1 \in 0..N
          BY <1>1, <3>1
        <5> QED BY <2>2, <5>1
      <4>3. k \in Nat /\ k >= 1
        <5>1. i \in 1..N
          BY <1>1, <3>1
        <5>2. Len(s[i]) \in Nat
          BY <1>1, <5>1
        <5> QED BY <5>2
      <4> HIDE DEF x
      <4>4. y \in 1..Len(u[j]) /\ y <= o[n]
        <5>1. x + k <= o[j]
          BY <4>1 DEF x
        <5> DEFINE a == o[j]
                   c == o[n]
                   d == Len(s[n])
        <5>2. a \in Nat /\ c = a + d /\ d \in Nat /\ Len(u[j]) = a /\ x + k <= a
          BY <3>3, <5>1
        <5> HIDE DEF a, c, d
        <5>3. x + k \in 1..a /\ x + k <= c
          BY <4>2, <4>3, <5>2
        <5> QED BY <5>2, <5>3 DEF c
      <4> HIDE DEF y
      <4>5. u[n][y] = u[j][y]
        BY <3>4, <4>4
      <4> QED BY <4>1, <4>4, <4>5 DEF x, y
    <3>6. ASSUME NEW k \in 1..Len(s[n])
          PROVE  o[n - 1] + k <= o[n] /\ u[n][o[n - 1] + k] = s[n][k]
      <4> DEFINE x == o[j]
      <4>1. x \in Nat /\ k \in Nat /\ k >= 1 /\ k <= Len(s[n]) /\ o[n - 1] = x
        BY <3>1, <3>3
      <4>2. u[n][Len(u[j]) + k] = s[n][k]
        BY <3>4
      <4>3. Len(u[j]) = x /\ o[n] = x + Len(s[n]) /\ Len(s[n]) \in Nat
        BY <3>3
      <4> HIDE DEF x
      <4>4. x + k <= o[n]
        BY <4>1, <4>3
      <4> QED BY <4>1, <4>2, <4>3, <4>4
    <3>7. ASSUME NEW i \in 1..n PROVE o[i - 1] + Len(s[i]) <= o[n]
      <4> DEFINE x == o[i - 1]
                 d == Len(s[i])
                 a == o[j]
                 c == o[n]
      <4>1. i \in 1..N /\ i - 1 \in 0..N
        BY <1>1, <3>1
      <4>2. x \in Nat /\ d \in Nat /\ a \in Nat /\ c \in Nat /\ a <= c
        <5> DEFINE l == Len(s[n])
        <5>1. a \in Nat /\ c \in Nat /\ l \in Nat /\ c = a + l
          BY <3>3
        <5>2. x \in Nat /\ d \in Nat
          BY <1>1, <2>2, <4>1
        <5> HIDE DEF l, x, d, a, c
        <5>3. a <= c
          BY <5>1
        <5> QED BY <5>1, <5>2, <5>3
      <4>3. x + d <= a \/ x + d = c
        BY <2>2, <3>1, <3>2, <4>1 DEF Holds
      <4> HIDE DEF x, d, a, c
      <4>4. x + d <= c
        BY <4>2, <4>3
      <4> QED BY <4>4 DEF x, d, a, c
    <3>8. Holds(u[n], s, o, n)
      BY <3>1, <3>4, <3>5, <3>6, <3>7 DEF Holds
    <3> QED BY <3>8 DEF j, n
  <2>7. Nat \subseteq T
    <3> HIDE DEF T
    <3> QED BY <2>5, <2>6, NatInduct
  <2>8. N - 1 \in Nat /\ (N - 1) + 1 = N
    BY <1>1, <2>4
  <2>9. N - 1 \in T
    <3> HIDE DEF T
    <3> QED BY <2>7, <2>8
  <2>10. Holds(u[N], s, o, N)
    BY <2>8, <2>9
  <2> QED BY <2>1, <2>10 DEF N
<1> QED BY <1>2, <1>3

LEMMA FlattenedBytes ==
  ASSUME NEW s \in Seq(Seq(Byte))
  PROVE  FlattenSeq(s) \in Seq(Byte)
<1>1. CASE s = <<>>
  BY <1>1 DEF FlattenSeq
<1>2. CASE s # <<>>
  <2>1. PICK u : Joined(u, s) /\ FlattenSeq(s) = u[Len(s)]
    BY <1>2, FlattenUnfolds
  <2>2. Len(s) \in 1..Len(s)
    BY <1>2, EmptySeq
  <2> QED BY <2>1, <2>2 DEF Joined
<1> QED BY <1>1, <1>2

-----------------------------------------------------------------------------
(* Words: 32 bytes, the value at the end.                                    *)

(* w ends, after 32 bytes, in v, with zeros before it.                       *)
EndsIn(w, v) ==
  \A i \in 1..32 : w[i] = IF i >= 33 - Len(v) THEN v[i - (32 - Len(v))] ELSE 0

(* pad, padx and Write leave an array its size, and bytes are bytes.         *)
LEMMA Padded ==
  ASSUME NEW n \in Nat, NEW a \in [1..n -> Byte], NEW v \in Seq(Byte)
  PROVE  /\ pad(a, v) \in [1..n -> Byte] /\ padx(a, v) \in [1..n -> Byte]
         /\ \A k \in Nat : Write(a, k, v) \in [1..n -> Byte]
<1>1. Len(v) \in Nat /\ DOMAIN a = 1..n /\ \A j \in 1..Len(v) : v[j] \in Byte
  BY ByteSequence
<1>2. pad(a, v) \in [1..n -> Byte]
  <2> DEFINE start == 32 - Len(v)
  <2>1. start \in Int
    BY <1>1
  <2>2. ASSUME NEW i \in 1..n PROVE (IF i \in start + 1..32 THEN v[i - start] ELSE a[i]) \in Byte
    <3>1. i \in start + 1..32 => i - start \in 1..Len(v)
      BY <1>1
    <3> HIDE DEF start
    <3> QED BY <1>1, <3>1
  <2> HIDE DEF start
  <2>3. [i \in 1..n |-> IF i \in start + 1..32 THEN v[i - start] ELSE a[i]] \in [1..n -> Byte]
    BY <2>2
  <2> QED BY <1>1, <2>3 DEF pad, start, ARGUMENT_LENGTH
<1>3. padx(a, v) \in [1..n -> Byte]
  <2> DEFINE start == 32 - Len(v)
             At(i) == Len(v) - (start + 1 - i)
  <2>1. ASSUME NEW i \in 1..n
        PROVE  (IF i \in start + 2 - Len(v)..start + 1 THEN v[At(i)] ELSE a[i]) \in Byte
    <3>1. i \in start + 2 - Len(v)..start + 1 => At(i) \in 1..Len(v)
      BY <1>1
    <3> HIDE DEF start, At
    <3> QED BY <1>1, <3>1
  <2>2. [i \in 1..n |-> IF i \in start + 2 - Len(v)..start + 1 THEN v[At(i)] ELSE a[i]]
          \in [1..n -> Byte]
    <3> HIDE DEF start, At
    <3> QED BY <2>1
  <2> QED BY <1>1, <2>2 DEF padx, ARGUMENT_LENGTH
<1>4. ASSUME NEW k \in Nat PROVE Write(a, k, v) \in [1..n -> Byte]
  <2>1. ASSUME NEW i \in 1..n PROVE (IF i \in k + 1..k + Len(v) THEN v[i - k] ELSE a[i]) \in Byte
    <3>1. i \in k + 1..k + Len(v) => i - k \in 1..Len(v)
      BY <1>1
    <3> QED BY <1>1, <3>1
  <2>2. [i \in 1..n |-> IF i \in k + 1..k + Len(v) THEN v[i - k] ELSE a[i]] \in [1..n -> Byte]
    BY <2>1
  <2> QED BY <1>1, <2>2 DEF Write
<1> QED BY <1>2, <1>3, <1>4

LEMMA ZerosAreBytes ==
  ASSUME NEW n \in Nat
  PROVE  Zeros(n) \in [1..n -> Byte] /\ \A i \in 1..n : Zeros(n)[i] = 0
BY DEF Zeros, Byte

(* The first word of a padded array of zeros.                                *)
LEMMA PaddedEndsIn ==
  ASSUME NEW n \in Nat, n >= 32, NEW v \in Seq(Byte), Len(v) <= 32
  PROVE  EndsIn(pad(Zeros(n), v), v)
<1> DEFINE a == Zeros(n)
           start == 32 - Len(v)
<1>1. a \in [1..n -> Byte] /\ DOMAIN a = 1..n /\ \A i \in 1..n : a[i] = 0
  BY ZerosAreBytes
<1>2. Len(v) \in Nat /\ start \in Nat
  OBVIOUS
<1>3. pad(a, v) = [i \in 1..n |-> IF i \in start + 1..32 THEN v[i - start] ELSE a[i]]
  BY <1>1 DEF pad, ARGUMENT_LENGTH
<1> HIDE DEF a
<1>4. ASSUME NEW i \in 1..32
      PROVE  pad(a, v)[i] = IF i >= 33 - Len(v) THEN v[i - (32 - Len(v))] ELSE 0
  <2>1. i \in 1..n /\ (i \in start + 1..32 <=> i >= 33 - Len(v))
    BY <1>2
  <2>2. pad(a, v)[i] = IF i \in start + 1..32 THEN v[i - start] ELSE a[i]
    BY <1>3, <2>1
  <2> QED BY <1>1, <2>1, <2>2
<1> QED BY <1>4 DEF EndsIn, a

(* For a single byte the place that padx takes is the right one.             *)
LEMMA PaddedOneByte ==
  ASSUME NEW v \in Seq(Byte), Len(v) = 1
  PROVE  EndsIn(padx(Zeros(32), v), v)
<1> DEFINE a == Zeros(32)
<1>1. a \in [1..32 -> Byte] /\ DOMAIN a = 1..32 /\ \A i \in 1..32 : a[i] = 0
  BY ZerosAreBytes
<1>2. padx(a, v) = [i \in 1..32 |-> IF i \in 32 - Len(v) + 2 - Len(v)..32 - Len(v) + 1
                                    THEN v[Len(v) - (32 - Len(v) + 1 - i)] ELSE a[i]]
  BY <1>1 DEF padx, ARGUMENT_LENGTH
<1> HIDE DEF a
<1>3. ASSUME NEW i \in 1..32
      PROVE  padx(a, v)[i] = IF i >= 33 - Len(v) THEN v[i - (32 - Len(v))] ELSE 0
  <2> DEFINE from == 32 - Len(v) + 2 - Len(v)
             to   == 32 - Len(v) + 1
             at   == Len(v) - (32 - Len(v) + 1 - i)
  <2>1. padx(a, v)[i] = IF i \in from..to THEN v[at] ELSE a[i]
    BY <1>2
  <2>2. from = 32 /\ to = 32 /\ at = i - (32 - Len(v)) /\ 33 - Len(v) = 32
    OBVIOUS
  <2> HIDE DEF from, to, at
  <2>3. i \in from..to <=> i >= 33 - Len(v)
    BY <2>2
  <2> QED BY <1>1, <2>1, <2>2, <2>3
<1> QED BY <1>3 DEF EndsIn, a

(* The place of the i-th of n bytes at the end of a word, and those before.  *)
InPlace(n, a, first) ==
  /\ \A i \in Nat : i >= 1 /\ i <= n => a + i \in 1..32 /\ a + i >= first /\ (a + i) - a = i
  /\ \A j \in Nat : j >= 1 /\ j <= first - 1 => j \in 1..32 /\ ~ (j >= first)

LEMMA Places ==
  ASSUME NEW n \in Nat, n <= 32, NEW a, a = 32 - n, NEW first, first = 33 - n
  PROVE  /\ a \in Nat /\ a + n = 32 /\ first \in Nat /\ first >= 1 /\ first <= 33
         /\ a + 1 = first /\ (n >= 1 <=> first <= 32)
         /\ InPlace(n, a, first)
BY DEF InPlace

(* Such a word stands for the number of its value, ends in the value, and    *)
(* truncated is the value.                                                   *)
LEMMA WordEndsIn ==
  ASSUME NEW w \in [1..32 -> Byte], NEW v \in Seq(Byte), Len(v) <= 32, EndsIn(w, v)
  PROVE  /\ w \in Seq(Byte) /\ Len(w) = 32
         /\ SubSeq(w, 33 - Len(v), 32) = v
         /\ Number(w) = Number(v)
         /\ v = <<>> \/ v[1] # 0 => truncate(w) = v
<1>1. w \in Seq(Byte) /\ Len(w) = 32 /\ w \in Seq(Nat)
  <2>1. 32 \in Nat
    OBVIOUS
  <2> QED BY <2>1, ByteArray, ByteSequence
<1> DEFINE n == Len(v)
           a == 32 - n
           first == 33 - n
<1>2. n \in Nat /\ n <= 32
  OBVIOUS
<1>3. \A i \in 1..32 : w[i] = IF i >= first THEN v[i - a] ELSE 0
  BY DEF EndsIn
<1> HIDE DEF n
<1>4. /\ a \in Nat /\ a + n = 32 /\ first \in Nat /\ first >= 1 /\ first <= 33
      /\ a + 1 = first /\ (n >= 1 <=> first <= 32)
  BY <1>2, Places DEF a, first
<1>5. InPlace(n, a, first)
  BY <1>2, Places DEF a, first
<1> HIDE DEF a, first
<1>6. \A i \in 1..n : w[a + i] = v[i]
  <2> TAKE i \in 1..n
  <2>1. i \in Nat /\ i >= 1 /\ i <= n
    BY <1>2, <1>4
  <2>2. a + i \in 1..32 /\ a + i >= first /\ (a + i) - a = i
    BY <1>5, <2>1 DEF InPlace
  <2> QED BY <1>3, <2>2
<1>7. SubSeq(w, first, 32) = v
  <2>1. SubSeq(w, a + 1, a + Len(v)) = v
    <3>1. a + Len(v) <= Len(w) /\ \A i \in 1..Len(v) : w[a + i] = v[i]
      BY <1>1, <1>2, <1>4, <1>6 DEF n
    <3> QED BY <1>1, <1>2, <1>4, <3>1, SliceIs
  <2> QED BY <1>2, <1>4, <2>1 DEF n
<1>8. \A j \in 1..first - 1 : w[j] = 0
  <2> TAKE j \in 1..first - 1
  <2>1. j \in Nat /\ j >= 1 /\ j <= first - 1
    BY <1>2, <1>4
  <2>2. j \in 1..32 /\ ~ (j >= first)
    BY <1>5, <2>1 DEF InPlace
  <2> QED BY <1>3, <2>2
<1>9. Number(w) = Number(v)
  <2>1. first \in 1..Len(w) + 1 /\ 256 \in Nat
    BY <1>1, <1>2, <1>4
  <2>2. Digits(256, SubSeq(w, first, Len(w))) = Digits(256, w)
    BY <1>1, <1>8, <2>1, DigitsWithoutZeros, ZenonT(30)
  <2> QED BY <1>1, <1>7, <2>2 DEF Number
<1>10. ASSUME v = <<>> \/ v[1] # 0 PROVE truncate(w) = v
  <2>1. PICK k \in 1..Len(w) + 1 : FirstNonzero(w, k) /\ truncate(w) = SubSeq(w, k, Len(w))
    BY <1>1, TruncateIs
  <2>2. \A j \in 1..k - 1 : w[j] = 0
    BY <2>1 DEF FirstNonzero
  <2>3. k <= 32 => w[k] # 0
    BY <1>1, <2>1 DEF FirstNonzero
  <2>4. k \in Nat /\ k >= 1 /\ k <= 33
    <3>1. k \in 1..32 + 1
      BY <1>1
    <3> QED BY <3>1
  <2>5. first <= 32 => w[first] # 0
    <3> SUFFICES ASSUME first <= 32 PROVE w[first] # 0
      OBVIOUS
    <3>1. n >= 1 /\ first = a + 1
      BY <1>2, <1>4
    <3>2. 1 \in 1..n /\ v # <<>>
      BY <1>2, <1>4, <3>1 DEF n
    <3> QED BY <1>6, <1>10, <3>1, <3>2
  <2>6. ~ k < first
    <3>1. k < first => k \in 1..first - 1 /\ k <= 32
      BY <1>2, <1>4, <2>4
    <3> QED BY <1>8, <2>3, <3>1
  <2>7. ~ first < k
    <3>1. first < k => first \in 1..k - 1 /\ first <= 32
      BY <1>2, <1>4, <2>4
    <3> QED BY <2>2, <2>5, <3>1
  <2>8. k = first
    BY <1>2, <1>4, <2>4, <2>6, <2>7
  <2> QED BY <1>1, <1>7, <2>1, <2>8
<1> QED BY <1>1, <1>7, <1>9, <1>10 DEF first, n

(* A size below 256 takes at most a byte, and is the number of it.           *)
LEMMA SmallSize ==
  ASSUME NEW n \in 0..255
  PROVE  /\ size_to_bytes(n) \in Seq(Byte) /\ Number(size_to_bytes(n)) = n
         /\ Len(size_to_bytes(n)) <= 1 /\ (n # 0 => Len(size_to_bytes(n)) = 1)
<1>1. SizeWidth \in Nat /\ 1 <= SizeWidth
  BY WidthAssumption
<1>2. Span(1) = 256 /\ Span(1) <= Span(SizeWidth) /\ Span(SizeWidth) \in Nat
  <2>1. Span(0 + 1) = 256 * 1 /\ 0 + 1 = 1
    BY SpanStep
  <2>2. Span(1) <= Span(SizeWidth)
    BY <1>1, SpanOrder
  <2> QED BY <1>1, <2>1, <2>2, SpanStep
<1> DEFINE b == BigEndian(n, SizeWidth)
           t == truncate(b)
<1>3. n \in Nat /\ n < Span(SizeWidth)
  BY <1>2
<1>4. b \in Seq(Byte) /\ Number(b) = n
  BY <1>1, <1>3, BigEndianProperties
<1> HIDE DEF b
<1>5. t \in Seq(Byte) /\ Number(t) = n
  BY <1>4, TruncateProperties
<1>6. Len(t) <= 1
  <2>1. Number(b) < Span(1)
    BY <1>2, <1>4
  <2> QED BY <1>4, <2>1, TruncateLength
<1> HIDE DEF t
<1>7. n # 0 => Len(t) = 1
  <2> SUFFICES ASSUME Len(t) # 1 PROVE n = 0
    OBVIOUS
  <2>1. Len(t) = 0
    <3> DEFINE m == Len(t)
    <3>1. m \in Nat /\ m <= 1 /\ m # 1
      BY <1>5, <1>6
    <3> HIDE DEF m
    <3>2. m = 0
      BY <3>1
    <3> QED BY <3>2 DEF m
  <2>2. Number(t) \in 0..Span(0) - 1
    BY <1>5, <2>1, NumberBounds
  <2> QED BY <1>5, <2>2, SpanStep
<1> QED BY <1>5, <1>6, <1>7 DEF t, b, size_to_bytes

LEMMA SmallLength ==
  ASSUME NEW n \in 0..255
  PROVE  Len(size_to_bytes(n)) <= 32 /\ Len(size_to_bytes(n)) \in Nat
<1> DEFINE s == size_to_bytes(n)
           m == Len(s)
<1>1. m \in Nat /\ m <= 1
  <2>1. s \in Seq(Byte) /\ Len(s) <= 1
    BY SmallSize
  <2> HIDE DEF s
  <2> QED BY <2>1
<1> HIDE DEF m
<1>2. m <= 32 /\ m \in Nat
  BY <1>1
<1> QED BY <1>2 DEF m

LEMMA FitsAByte ==
  ASSUME NEW n \in Nat, n < 256
  PROVE  n \in 0..255
OBVIOUS

(* Any size is bytes.                                                        *)
LEMMA SizesAreBytes ==
  ASSUME NEW n \in Nat
  PROVE  size_to_bytes(n) \in Seq(Byte)
<1>1. SizeWidth \in Nat
  BY WidthAssumption
<1> QED BY <1>1, BigEndianProperties, TruncateProperties DEF size_to_bytes

-----------------------------------------------------------------------------
(* Encode.                                                                   *)

(* The body of Encode, with e for the function it calls.                     *)
Layout(e, item) ==
  LET encoded == Zeros(getVectorSize(item))
      parts   == [n \in DOMAIN item.children |-> e[item.children[n]]]
  IN  IF leftPad(item.type) THEN pad(encoded, item.bytes)
      ELSE IF item.type = "ItemArray"
      THEN WriteAll(pad(encoded, size_to_bytes(Len(item.children))), parts)
      ELSE Write(pad(encoded, size_to_bytes(Len(item.bytes))),
                 ARGUMENT_LENGTH, item.bytes)

(* A word has no children, and an array only words.                          *)
LEMMA Children ==
  ASSUME NEW item \in Items
  PROVE  /\ IsWord(item) => item.children = <<>> /\ ~ isDynamic(item) /\ leftPad(item.type)
         /\ IsText(item) => item.children = <<>> /\ isDynamic(item) /\ ~ leftPad(item.type)
         /\ IsArray(item) => /\ isDynamic(item) /\ ~ leftPad(item.type)
                             /\ Len(item.children) \in Nat
                             /\ DOMAIN item.children = 1..Len(item.children)
                             /\ \A n \in DOMAIN item.children :
                                   item.children[n] \in Items /\ IsWord(item.children[n])
<1>1. ASSUME IsWord(item) PROVE item.children = <<>> /\ ~ isDynamic(item) /\ leftPad(item.type)
  <2>1. item.children = <<>>
    BY <1>1 DEF IsWord, Value
  <2>2. item.type \in {"UnsignedInt", "Bool", "Address"}
    BY <1>1 DEF IsWord
  <2> QED BY <2>1, <2>2 DEF isDynamic, leftPad
<1>2. ASSUME IsText(item) PROVE item.children = <<>> /\ isDynamic(item) /\ ~ leftPad(item.type)
  <2>1. item.children = <<>>
    BY <1>2 DEF IsText, Value
  <2>2. item.type \in {"Binary", "String"}
    BY <1>2 DEF IsText
  <2> QED BY <2>1, <2>2 DEF isDynamic, leftPad
<1>3. ASSUME IsArray(item)
      PROVE  /\ isDynamic(item) /\ ~ leftPad(item.type)
             /\ Len(item.children) \in Nat
             /\ DOMAIN item.children = 1..Len(item.children)
             /\ \A n \in DOMAIN item.children :
                   item.children[n] \in Items /\ IsWord(item.children[n])
  <2> DEFINE W == {child \in Items : IsWord(child)}
             c == item.children
  <2>1. c \in Seq(W) /\ item.type = "ItemArray"
    BY <1>3 DEF IsArray
  <2> HIDE DEF W, c
  <2>2. Len(c) \in Nat /\ DOMAIN c = 1..Len(c) /\ \A n \in 1..Len(c) : c[n] \in W
    BY <2>1, ElementOfSeq
  <2>3. Len(c) \in Nat /\ DOMAIN c = 1..Len(c) /\ \A n \in DOMAIN c : c[n] \in W
    BY <2>2
  <2>4. isDynamic(item) /\ ~ leftPad(item.type)
    BY <2>1 DEF isDynamic, leftPad
  <2> QED BY <2>3, <2>4 DEF c, W
<1> QED BY <1>1, <1>2, <1>3

(* Encode calls itself for the children, so there is such a function.        *)
LEMMA EncodeUnfolds ==
  \A item \in Items : Encode[item] = Layout(Encode, item)
<1> DEFINE E0 == [item \in Items |-> Layout([child \in Items |-> <<>>], item)]
           E1 == [item \in Items |-> Layout(E0, item)]
           Fix(e) == e = [item \in Items |-> Layout(e, item)]
<1>1. \A e, h : \A item \in Items : IsWord(item) => Layout(e, item) = Layout(h, item)
  <2> TAKE e, h
  <2> TAKE item \in Items
  <2> HAVE IsWord(item)
  <2>1. leftPad(item.type)
    BY Children
  <2> QED BY <2>1 DEF Layout
<1>2. \A item \in Items : IsWord(item) => E0[item] = E1[item]
  <2> TAKE item \in Items
  <2> HAVE IsWord(item)
  <2>1. E0[item] = Layout([child \in Items |-> <<>>], item) /\ E1[item] = Layout(E0, item)
    OBVIOUS
  <2> HIDE DEF E0, E1
  <2> QED BY <1>1, <2>1
<1>3. \A item \in Items : Layout(E0, item) = Layout(E1, item)
  <2> HIDE DEF E0, E1
  <2> TAKE item \in Items
  <2>1. CASE leftPad(item.type)
    BY <2>1 DEF Layout
  <2>2. CASE ~ IsArray(item)
    <3>1. item.children = <<>> \/ leftPad(item.type)
      BY <2>2, Children, ItemsAssumption
    <3>2. CASE item.children = <<>>
      <4>1. \A n \in DOMAIN item.children : FALSE
        BY <3>2
      <4>2. [n \in DOMAIN item.children |-> E0[item.children[n]]]
              = [n \in DOMAIN item.children |-> E1[item.children[n]]]
        BY <4>1
      <4> QED BY <4>2 DEF Layout
    <3> QED BY <2>1, <3>1, <3>2
  <2>3. CASE IsArray(item)
    <3>1. \A n \in DOMAIN item.children :
            item.children[n] \in Items /\ IsWord(item.children[n])
      BY <2>3, Children
    <3>2. \A n \in DOMAIN item.children : E0[item.children[n]] = E1[item.children[n]]
      BY <1>2, <3>1
    <3>3. [n \in DOMAIN item.children |-> E0[item.children[n]]]
            = [n \in DOMAIN item.children |-> E1[item.children[n]]]
      BY <3>2
    <3> QED BY <3>3 DEF Layout
  <2> QED BY <2>2, <2>3
<1>4. Fix(E1)
  <2>1. E1 = [item \in Items |-> Layout(E0, item)]
    OBVIOUS
  <2> HIDE DEF E0, E1
  <2> QED BY <1>3, <2>1
<1> HIDE DEF E0, E1
<1> DEFINE F == CHOOSE e : Fix(e)
<1>5. Fix(F)
  <2> HIDE DEF Fix
  <2> QED BY <1>4
<1>6. Encode = F
  BY DEF Encode, Layout
<1> HIDE DEF F
<1>7. F = [item \in Items |-> Layout(F, item)]
  BY <1>5
<1>8. \A item \in Items : F[item] = Layout(F, item)
  BY <1>7
<1> QED BY <1>6, <1>8

(* The array of a word is one word that ends in its bytes.                   *)
LEMMA WordEncoded ==
  ASSUME NEW item \in Items, IsWord(item)
  PROVE  /\ Encode[item] \in [1..32 -> Byte]
         /\ EndsIn(Encode[item], item.bytes)
         /\ item.bytes \in Seq(Byte) /\ Len(item.bytes) <= 32
<1>1. item.bytes \in Seq(Byte) /\ Len(item.bytes) <= 32
  <2> DEFINE v == item.bytes
  <2>1. v \in Seq(Byte) /\ (Len(v) <= 32 \/ Len(v) = 1 \/ Len(v) = 20)
    BY DEF IsWord, ARGUMENT_LENGTH
  <2> HIDE DEF v
  <2> DEFINE l == Len(v)
  <2>2. l \in Nat /\ (l <= 32 \/ l = 1 \/ l = 20)
    BY <2>1
  <2> HIDE DEF l
  <2>3. l <= 32
    BY <2>2
  <2> QED BY <2>1, <2>3 DEF v, l
<1>2. getVectorSize(item) = 32
  <2>1. item.type \in {"UnsignedInt", "Bool", "Address"}
    BY DEF IsWord
  <2> QED BY <2>1 DEF getVectorSize, ARGUMENT_LENGTH
<1>3. Encode[item] = pad(Zeros(32), item.bytes)
  <2>1. leftPad(item.type)
    BY Children
  <2> QED BY <1>2, <2>1, EncodeUnfolds DEF Layout
<1>4. 32 \in Nat /\ 32 >= 32
  OBVIOUS
<1>5. pad(Zeros(32), item.bytes) \in [1..32 -> Byte]
  BY <1>1, <1>4, ZerosAreBytes, Padded
<1>6. EndsIn(pad(Zeros(32), item.bytes), item.bytes)
  BY <1>1, <1>4, PaddedEndsIn
<1> QED BY <1>1, <1>3, <1>5, <1>6

(* An array of whole words.                                                  *)
Sized(e, n) == n \in Nat /\ n >= 32 /\ n % 32 = 0 /\ e \in [1..n -> Byte]

(* A text follows its size, in the words that it needs and one more.         *)
LEMMA TextEncoded ==
  ASSUME NEW item \in Items, IsText(item)
  PROVE  /\ Sized(Encode[item], getVectorSize(item))
         /\ item.bytes \in Seq(Byte) /\ 32 + Len(item.bytes) <= getVectorSize(item)
         /\ Len(item.bytes) < 256 =>
              /\ EndsIn(Encode[item], size_to_bytes(Len(item.bytes)))
              /\ \A i \in 1..Len(item.bytes) : Encode[item][32 + i] = item.bytes[i]
<1> DEFINE v == item.bytes
           l == Len(v)
           n == getVectorSize(item)
           z == size_to_bytes(l)
           a == pad(Zeros(n), z)
<1>1. v \in Seq(Byte) /\ l \in Nat
  BY DEF IsText
<1>2. item.type \in {"Binary", "String"} /\ ~ leftPad(item.type) /\ item.type # "ItemArray"
  BY DEF IsText, leftPad
<1> HIDE DEF l
<1>3. n \in Nat /\ n >= 32 /\ n % 32 = 0 /\ 32 + l <= n
  <2>1. n = 32 + (l \div 32 + 1) * 32
    BY <1>2 DEF getVectorSize, ARGUMENT_LENGTH, l, v
  <2>2. l \div 32 \in Nat /\ l % 32 \in 0..31 /\ l = 32 * (l \div 32) + (l % 32)
    BY <1>1, DivMod
  <2> DEFINE q == l \div 32
             r == l % 32
  <2>3. q \in Nat /\ r \in 0..31 /\ l = 32 * q + r /\ n = 32 + (q + 1) * 32
    BY <2>1, <2>2
  <2> HIDE DEF n, q, r
  <2>4. n = 32 * (q + 2) + 0 /\ n \in Nat /\ n >= 32 /\ q + 2 \in Int /\ 0 \in 0..31 /\ 32 + l <= n
    BY <2>3
  <2>5. n % 32 = 0
    BY <2>4, DivUnique
  <2> QED BY <2>4, <2>5 DEF n
<1>4. Encode[item] = Write(a, 32, v)
  BY <1>2, EncodeUnfolds DEF Layout, ARGUMENT_LENGTH, l
<1>5. z \in Seq(Byte)
  BY <1>1, SizesAreBytes
<1>6. a \in [1..n -> Byte]
  BY <1>3, <1>5, ZerosAreBytes, Padded
<1>7. Write(a, 32, v) \in [1..n -> Byte]
  BY <1>1, <1>3, <1>6, Padded, 32 \in Nat
<1>8. \A i \in 1..n : Write(a, 32, v)[i] = IF i \in 32 + 1..32 + l THEN v[i - 32] ELSE a[i]
  <2> HIDE DEF a, n
  <2>1. DOMAIN a = 1..n
    BY <1>6
  <2> QED BY <2>1 DEF Write, l
<1>9. ASSUME l < 256
      PROVE  /\ EndsIn(Write(a, 32, v), z)
             /\ \A i \in 1..l : Write(a, 32, v)[32 + i] = v[i]
  <2>1. Len(z) <= 32 /\ Len(z) \in Nat
    <3>1. l \in 0..255
      BY <1>1, <1>9
    <3> HIDE DEF z
    <3> QED BY <1>5, <3>1, SmallLength DEF z
  <2>2. EndsIn(a, z)
    BY <1>3, <1>5, <2>1, PaddedEndsIn
  <2> HIDE DEF a, n
  <2>3. \A i \in 1..32 : Write(a, 32, v)[i] = a[i]
    <3> TAKE i \in 1..32
    <3>1. i \in 1..n /\ ~ (i \in 32 + 1..32 + l)
      BY <1>1, <1>3
    <3> QED BY <1>8, <3>1
  <2>4. EndsIn(Write(a, 32, v), z)
    BY <2>2, <2>3 DEF EndsIn
  <2>5. ASSUME NEW i \in 1..l PROVE Write(a, 32, v)[32 + i] = v[i]
    <3>1. 32 + i \in 1..n /\ 32 + i \in 32 + 1..32 + l /\ (32 + i) - 32 = i
      BY <1>1, <1>3
    <3> QED BY <1>8, <3>1
  <2> QED BY <2>4, <2>5
<1> HIDE DEF a, n, z
<1> QED BY <1>1, <1>3, <1>4, <1>7, <1>9 DEF Sized, l, n, z

(* After its first word w has the first m of the parts, in a word for each.  *)
PartsIn(w, a, parts, n, m) ==
  /\ w \in [1..n -> Byte]
  /\ \A i \in 1..32 : w[i] = a[i]
  /\ \A j \in 1..m : \A k \in 1..32 : w[32 * j + k] = parts[j][k]

LEMMA PartPlaces ==
  ASSUME NEW K \in Nat, NEW n \in Nat, n = 32 + K * 32, NEW m \in Nat,
         NEW h \in Nat, h = m + 1, h <= K, NEW x, x = h * 32
  PROVE  /\ x \in Nat
         /\ \A i \in 1..32 : i \in 1..n /\ ~ (i \in x + 1..x + 32)
         /\ \A j \in 1..m : \A k \in 1..32 :
               32 * j + k \in 1..n /\ ~ (32 * j + k \in x + 1..x + 32)
         /\ \A k \in 1..32 : /\ 32 * h + k \in 1..n /\ 32 * h + k \in x + 1..x + 32
                               /\ (32 * h + k) - x = k
         /\ \A j \in 1..h : j = h \/ j \in 1..m
<1>1. x \in Nat /\ \A i \in 1..32 : i \in 1..n /\ ~ (i \in x + 1..x + 32)
  OBVIOUS
<1>2. ASSUME NEW j \in 1..m, NEW k \in 1..32
      PROVE  32 * j + k \in 1..n /\ ~ (32 * j + k \in x + 1..x + 32)
  OBVIOUS
<1>3. ASSUME NEW k \in 1..32
      PROVE  /\ 32 * h + k \in 1..n /\ 32 * h + k \in x + 1..x + 32
             /\ (32 * h + k) - x = k
  OBVIOUS
<1>4. ASSUME NEW j \in 1..h PROVE j = h \/ j \in 1..m
  OBVIOUS
<1> QED BY <1>1, <1>2, <1>3, <1>4

LEMMA PartWritten ==
  ASSUME NEW K \in Nat, NEW n \in Nat, n = 32 + K * 32, NEW m \in Nat,
         NEW h \in Nat, h = m + 1, h <= K, NEW x, x = h * 32,
         NEW a, NEW parts, parts[h] \in [1..32 -> Byte],
         NEW b, PartsIn(b, a, parts, n, m)
  PROVE  PartsIn(Write(b, x, parts[h]), a, parts, n, h)
<1> DEFINE v == parts[h]
           c == Write(b, x, v)
<1>1. v \in Seq(Byte) /\ Len(v) = 32
  <2> HIDE DEF v
  <2> QED BY ByteArray, 32 \in Nat DEF v
<1>2. b \in [1..n -> Byte] /\ DOMAIN b = 1..n
  BY DEF PartsIn
<1>3. /\ x \in Nat
      /\ \A i \in 1..32 : i \in 1..n /\ ~ (i \in x + 1..x + 32)
      /\ \A j \in 1..m : \A k \in 1..32 :
            32 * j + k \in 1..n /\ ~ (32 * j + k \in x + 1..x + 32)
      /\ \A k \in 1..32 : /\ 32 * h + k \in 1..n /\ 32 * h + k \in x + 1..x + 32
                            /\ (32 * h + k) - x = k
      /\ \A j \in 1..h : j = h \/ j \in 1..m
  BY PartPlaces
<1> HIDE DEF v, c
<1>4. c \in [1..n -> Byte]
  BY <1>1, <1>2, <1>3, Padded DEF c
<1>5. \A i \in 1..n : c[i] = IF i \in x + 1..x + 32 THEN v[i - x] ELSE b[i]
  BY <1>1, <1>2 DEF c, Write
<1>6. \A i \in 1..32 : c[i] = a[i]
  BY <1>3, <1>5 DEF PartsIn
<1>7. ASSUME NEW j \in 1..m, NEW k \in 1..32 PROVE c[32 * j + k] = parts[j][k]
  <2> DEFINE y == 32 * j + k
  <2>1. y \in 1..n /\ ~ (y \in x + 1..x + 32)
    BY <1>3
  <2>2. b[y] = parts[j][k]
    BY DEF PartsIn
  <2> HIDE DEF y
  <2>3. c[y] = b[y]
    BY <1>5, <2>1
  <2> QED BY <2>2, <2>3 DEF y
<1>8. ASSUME NEW k \in 1..32 PROVE c[32 * h + k] = v[k]
  <2> DEFINE y == 32 * h + k
  <2>1. y \in 1..n /\ y \in x + 1..x + 32 /\ y - x = k
    BY <1>3
  <2> HIDE DEF y
  <2>2. c[y] = v[k]
    BY <1>5, <2>1
  <2> QED BY <2>2 DEF y
<1>9. \A j \in 1..h : \A k \in 1..32 : c[32 * j + k] = parts[j][k]
  BY <1>3, <1>7, <1>8 DEF v
<1> QED BY <1>4, <1>6, <1>9 DEF PartsIn, c, v

(* WriteAll leaves the first word and puts the j-th part in the one after j. *)
LEMMA PartsWritten ==
  ASSUME NEW K \in Nat, NEW parts \in [1..K -> [1..32 -> Byte]],
         NEW n \in Nat, n = 32 + K * 32, NEW a \in [1..n -> Byte]
  PROVE  PartsIn(WriteAll(a, parts), a, parts, n, K)
<1> DEFINE V == [1..n -> Byte]
           Put(b, m) == Write(b, m * 32, parts[m])
           Fix(g) == g = [m \in 0..K |-> IF m = 0 THEN a ELSE Put(g[m - 1], m)]
           Next1(p) == IF p[2] \in 1..K THEN Put(p[1], p[2]) ELSE p[1]
           Step == [p \in V \X Nat |-> Next1(p)]
<1>1. Len(parts) = K
  <2>1. DOMAIN parts = 1..K
    OBVIOUS
  <2> QED BY <2>1
<1>2. \A j \in 1..K : /\ parts[j] \in [1..32 -> Byte] /\ parts[j] \in Seq(Byte)
                       /\ Len(parts[j]) = 32
  <2> TAKE j \in 1..K
  <2>1. parts[j] \in [1..32 -> Byte] /\ 32 \in Nat
    OBVIOUS
  <2> QED BY <2>1, ByteArray
<1>3. ASSUME NEW b \in V, NEW m \in 1..K PROVE Put(b, m) \in V
  <2> DEFINE x == m * 32
             v == parts[m]
  <2>1. x \in Nat /\ v \in Seq(Byte) /\ b \in [1..n -> Byte]
    BY <1>2
  <2> HIDE DEF x, v
  <2>2. Write(b, x, v) \in [1..n -> Byte]
    BY <2>1, Padded
  <2> QED BY <2>2 DEF x, v
<1>4. a \in V
  OBVIOUS
<1> HIDE DEF V, Put
<1>5. Step \in [V \X Nat -> V]
  <2>1. ASSUME NEW p \in V \X Nat PROVE Next1(p) \in V
    <3>1. p[1] \in V /\ p[2] \in Nat
      OBVIOUS
    <3> QED BY <1>3, <3>1
  <2> HIDE DEF Next1
  <2> QED BY <2>1
<1>6. \A b \in V, m \in 1..K : Step[<<b, m>>] = Put(b, m)
  <2> TAKE b \in V, m \in 1..K
  <2>1. <<b, m>> \in V \X Nat
    <3>1. m \in Nat
      OBVIOUS
    <3> QED BY <3>1, Zenon
  <2>2. Next1(<<b, m>>) = Put(b, m)
    OBVIOUS
  <2> HIDE DEF Next1
  <2> QED BY <2>1, <2>2
<1> HIDE DEF Step
<1>7. PICK f \in [0..K -> V] : Iterates(f, 1..K, a, Step)
  BY <1>4, <1>5, BoundedRecursion
<1>8. f[0] = a /\ \A m \in 1..K : f[m] = Step[<<f[m - 1], m>>]
  BY <1>7 DEF Iterates
<1>9. Fix(f)
  <2>1. ASSUME NEW m \in 0..K PROVE f[m] = IF m = 0 THEN a ELSE Put(f[m - 1], m)
    <3>1. CASE m = 0
      BY <1>8, <3>1
    <3>2. CASE m # 0
      <4>1. m \in 1..K /\ m - 1 \in 0..K
        BY <3>2
      <4>2. f[m - 1] \in V
        BY <1>7, <4>1
      <4> QED BY <1>6, <1>8, <3>2, <4>1, <4>2
    <3> QED BY <3>1, <3>2
  <2>2. f = [m \in 0..K |-> f[m]]
    BY <1>7
  <2> QED BY <2>1, <2>2
<1> DEFINE u == CHOOSE g : Fix(g)
<1>10. Fix(u)
  <2> HIDE DEF Fix
  <2> QED BY <1>9
<1>11. WriteAll(a, parts) = u[K]
  BY <1>1 DEF WriteAll, ARGUMENT_LENGTH, Put
<1> HIDE DEF u
<1>12. u = [m \in 0..K |-> IF m = 0 THEN a ELSE Put(u[m - 1], m)]
  BY <1>10
<1> HIDE DEF Fix
<1>13. \A m \in 0..K : u[m] = IF m = 0 THEN a ELSE Put(u[m - 1], m)
  BY <1>12
<1> DEFINE T == {m \in Nat : m <= K => PartsIn(u[m], a, parts, n, m)}
<1>14. 0 \in T
  <2>1. 0 \in 0..K /\ 1..0 = {}
    OBVIOUS
  <2>2. u[0] = a
    BY <1>13, <2>1
  <2>3. PartsIn(u[0], a, parts, n, 0)
    BY <2>1, <2>2 DEF PartsIn
  <2> QED BY <2>3
<1>15. ASSUME NEW m \in Nat, m \in T PROVE m + 1 \in T
  <2> SUFFICES ASSUME m + 1 <= K PROVE PartsIn(u[m + 1], a, parts, n, m + 1)
    OBVIOUS
  <2> DEFINE h == m + 1
             x == h * 32
  <2>1. /\ h \in 1..K /\ h \in 0..K /\ h \in Nat /\ h <= K /\ h # 0
        /\ h - 1 = m /\ h = m + 1 /\ m <= K
    OBVIOUS
  <2>2. PartsIn(u[m], a, parts, n, m)
    BY <1>15, <2>1
  <2> HIDE DEF h
  <2>3. u[h] = Write(u[m], x, parts[h])
    BY <1>13, <2>1 DEF Put
  <2> HIDE DEF x
  <2>4. parts[h] \in [1..32 -> Byte]
    BY <1>2, <2>1
  <2>5. x = h * 32
    BY DEF x
  <2>6. PartsIn(Write(u[m], x, parts[h]), a, parts, n, h)
    BY <2>1, <2>2, <2>4, <2>5, PartWritten
  <2> QED BY <2>3, <2>6 DEF h
<1>16. Nat \subseteq T
  <2> HIDE DEF T
  <2> QED BY <1>14, <1>15, NatInduct
<1>17. K \in T
  <2> HIDE DEF T
  <2> QED BY <1>16
<1> QED BY <1>11, <1>17

(* An array of values is their number and a word for each.                   *)
LEMMA ArrayEncoded ==
  ASSUME NEW item \in Items, IsArray(item), NEW K \in Nat, K = Len(item.children)
  PROVE  /\ getVectorSize(item) = 32 + K * 32
         /\ Sized(Encode[item], getVectorSize(item))
         /\ K < 256 => EndsIn(Encode[item], size_to_bytes(K))
         /\ \A j \in 1..K : \A k \in 1..32 :
               Encode[item][32 * j + k] = Encode[item.children[j]][k]
<1> DEFINE c == item.children
           n == getVectorSize(item)
           z == size_to_bytes(K)
           a == pad(Zeros(n), z)
           parts == [i \in DOMAIN c |-> Encode[c[i]]]
<1>1. DOMAIN c = 1..K /\ \A i \in 1..K : c[i] \in Items /\ IsWord(c[i])
  BY Children
<1>2. item.type = "ItemArray" /\ ~ leftPad(item.type)
  BY DEF IsArray, leftPad
<1>3. n = 32 + K * 32
  BY <1>2 DEF getVectorSize, ARGUMENT_LENGTH
<1>4. n \in Nat /\ n >= 32 /\ n % 32 = 0
  <2>1. /\ n = 32 * (K + 1) + 0 /\ n \in Nat /\ n >= 32
        /\ K + 1 \in Int /\ 0 \in 0..32 - 1 /\ 32 \in Nat \ {0}
    BY <1>3
  <2> HIDE DEF n
  <2>2. n % 32 = 0
    BY <2>1, DivUnique
  <2> QED BY <2>1, <2>2
<1>5. Encode[item] = WriteAll(a, parts)
  BY <1>2, EncodeUnfolds DEF Layout
<1>6. parts \in [1..K -> [1..32 -> Byte]] /\ \A j \in 1..K : parts[j] = Encode[c[j]]
  <2>1. \A i \in 1..K : Encode[c[i]] \in [1..32 -> Byte]
    BY <1>1, WordEncoded
  <2> HIDE DEF c
  <2> QED BY <1>1, <2>1
<1>7. z \in Seq(Byte)
  BY SizesAreBytes
<1>8. a \in [1..n -> Byte]
  BY <1>4, <1>7, ZerosAreBytes, Padded
<1>9. K < 256 => EndsIn(a, z)
  <2> SUFFICES ASSUME K < 256 PROVE EndsIn(a, z)
    OBVIOUS
  <2>1. K \in 0..255
    BY FitsAByte
  <2>2. Len(z) <= 32
    BY <2>1, SmallLength
  <2> QED BY <1>4, <1>7, <2>2, PaddedEndsIn
<1> HIDE DEF a, n, z, parts, c
<1>10. PartsIn(WriteAll(a, parts), a, parts, n, K)
  BY <1>3, <1>4, <1>6, <1>8, PartsWritten
<1>11. K < 256 => EndsIn(WriteAll(a, parts), z)
  BY <1>9, <1>10 DEF EndsIn, PartsIn
<1>12. /\ Encode[item] \in [1..n -> Byte]
       /\ \A j \in 1..K : \A k \in 1..32 : Encode[item][32 * j + k] = Encode[c[j]][k]
  <2> DEFINE w == Encode[item]
  <2>1. PartsIn(w, a, parts, n, K)
    BY <1>5, <1>10
  <2> HIDE DEF w
  <2>2. w \in [1..n -> Byte] /\ \A j \in 1..K : \A k \in 1..32 : w[32 * j + k] = parts[j][k]
    BY <2>1 DEF PartsIn
  <2>3. ASSUME NEW j \in 1..K, NEW k \in 1..32 PROVE w[32 * j + k] = Encode[c[j]][k]
    <3>1. w[32 * j + k] = parts[j][k] /\ parts[j] = Encode[c[j]]
      BY <1>6, <2>2
    <3> QED BY <3>1, Zenon
  <2> QED BY <2>2, <2>3 DEF w
<1>13. Sized(Encode[item], n)
  BY <1>4, <1>12 DEF Sized
<1> QED BY <1>3, <1>5, <1>11, <1>12, <1>13 DEF n, z, c

-----------------------------------------------------------------------------
(* What the contract finds.                                                  *)

(* What is behind the first a bytes: n of them, beginning at `from'.         *)
Cut(r, s, a, from, n) ==
  /\ a \in Nat /\ a <= Len(s) /\ from = a + 1 /\ n = Len(s) - a
  /\ r = SubSeq(s, from, Len(s))

IsBehind(r, s, a, n) ==
  r \in Seq(Byte) /\ Len(r) = n /\ \A i \in 1..n : r[i] = s[a + i]

LEMMA Behind ==
  ASSUME NEW s \in Seq(Byte), NEW r, NEW a, NEW from, NEW n, Cut(r, s, a, from, n)
  PROVE  IsBehind(r, s, a, n)
<1> DEFINE l == Len(s)
<1>1. a \in Nat /\ l \in Nat /\ a <= l /\ n = l - a /\ r = SubSeq(s, a + 1, l)
  BY DEF Cut
<1> HIDE DEF l
<1>2. n \in Nat /\ a + n = l
  BY <1>1
<1>3. a + n <= Len(s)
  BY <1>1, <1>2 DEF l
<1>4. /\ SubSeq(s, a + 1, a + n) \in Seq(Byte)
      /\ Len(SubSeq(s, a + 1, a + n)) = n
      /\ \A i \in 1..n : SubSeq(s, a + 1, a + n)[i] = s[a + i]
  BY <1>1, <1>2, <1>3, Slice
<1> QED BY <1>1, <1>2, <1>4 DEF IsBehind

(* The n-th word of b, when b has it.                                        *)
LEMMA WordIs ==
  ASSUME NEW b \in Seq(Byte), NEW n \in Nat, 32 * n + 32 <= Len(b)
  PROVE  /\ Word(b, n) \in [1..32 -> Byte]
         /\ \A k \in 1..32 : Word(b, n)[k] = b[32 * n + k]
<1> DEFINE l == Len(b)
<1>1. l \in Nat /\ 32 * n + 32 <= l /\ \A k \in 1..l : b[k] \in Byte
  BY ByteSequence
<1> HIDE DEF l
<1>2. \A k \in 1..32 : 32 * n + k \in 1..l /\ 32 * n + k <= l
  BY <1>1
<1>3. \A k \in 1..32 : b[32 * n + k] \in Byte
  BY <1>1, <1>2
<1>4. Word(b, n) = [k \in 1..32 |-> IF 32 * n + k <= l THEN b[32 * n + k] ELSE 0]
  BY DEF Word, l
<1>5. Word(b, n) = [k \in 1..32 |-> b[32 * n + k]]
  BY <1>2, <1>4
<1> QED BY <1>3, <1>5

(* A word is read by its type.                                               *)
LEMMA StaticArrives ==
  ASSUME NEW item \in Items, IsWord(item), NEW b, NEW n,
         Word(b, n) \in [1..32 -> Byte], EndsIn(Word(b, n), item.bytes)
  PROVE  Static(item.type, b, n) = item
<1> DEFINE w == Word(b, n)
           v == item.bytes
           t == item.type
<1>1. v \in Seq(Byte) /\ Len(v) <= 32
  BY WordEncoded
<1>2. item = [type |-> t, bytes |-> v, children |-> <<>>]
  BY DEF IsWord, Value
<1>3. \/ t = "UnsignedInt" /\ (v = <<>> \/ v[1] # 0)
      \/ t = "Bool" /\ Len(v) = 1
      \/ t = "Address" /\ Len(v) = 20
  BY DEF IsWord
<1> HIDE DEF w, v, t
<1>4. SubSeq(w, 33 - Len(v), 32) = v /\ (v = <<>> \/ v[1] # 0 => truncate(w) = v)
  BY <1>1, WordEndsIn DEF w, v
<1>5. (IF t = "UnsignedInt" THEN truncate(w)
       ELSE SubSeq(w, IF t = "Address" THEN 13 ELSE 32, 32)) = v
  <2>1. CASE t = "UnsignedInt" /\ (v = <<>> \/ v[1] # 0)
    BY <1>4, <2>1
  <2>2. CASE t = "Bool" /\ Len(v) = 1
    <3>1. 33 - Len(v) = 32
      BY <2>2
    <3> QED BY <1>4, <2>2, <3>1
  <2>3. CASE t = "Address" /\ Len(v) = 20
    <3>1. 33 - Len(v) = 13
      BY <2>3
    <3> QED BY <1>4, <2>3, <3>1
  <2> QED BY <1>3, <2>1, <2>2, <2>3
<1>6. Static(t, b, n) = [type |-> t, children |-> <<>>,
                         bytes |-> IF t = "UnsignedInt" THEN truncate(w)
                                   ELSE SubSeq(w, IF t = "Address" THEN 13 ELSE 32, 32)]
  BY DEF Static, w
<1>7. Static(t, b, n) = [type |-> t, children |-> <<>>, bytes |-> v]
  BY <1>5, <1>6
<1> QED BY <1>2, <1>7 DEF t

(* b has the n bytes of e from there on.                                     *)
Has(b, at, e, n) == at + n <= Len(b) /\ \A k \in 1..n : b[at + k] = e[k]

(* What begins there, and what follows its first word.                       *)
There(b, at) == SubSeq(b, at + 1, Len(b))
Rest(there) == SubSeq(there, 33, Len(there))

(* Where an encoding of n bytes begins, the contract reads its first word as *)
(* a size and the others behind it.                                          *)
Follows(rest, e, n) ==
  /\ rest \in Seq(Byte) /\ n - 32 <= Len(rest)
  /\ \A k \in 1..n - 32 : rest[k] = e[32 + k]

LEMMA Found ==
  ASSUME NEW b \in Seq(Byte), NEW at \in Nat, NEW n \in Nat, n >= 32,
         NEW e \in [1..n -> Byte], Has(b, at, e, n),
         NEW v \in Seq(Byte), Len(v) <= 32, EndsIn(e, v),
         NEW there, there = There(b, at), NEW rest, rest = Rest(there)
  PROVE  WordNumber(there, 0) = Number(v) /\ Follows(rest, e, n)
<1> DEFINE l == Len(b)
           m == Len(there)
<1>1. l \in Nat /\ at <= l /\ n <= l - at /\ l - at >= 32
  BY DEF Has
<1> HIDE DEF l
<1>2. /\ there \in Seq(Byte) /\ m = l - at
      /\ \A i \in 1..l - at : there[i] = b[at + i]
  <2> DEFINE from == at + 1
             x == l - at
  <2>1. Cut(there, b, at, from, x)
    BY <1>1 DEF l, There, Cut
  <2> HIDE DEF from, x
  <2>2. IsBehind(there, b, at, x)
    BY <2>1, Behind
  <2> QED BY <2>2 DEF IsBehind, x
<1> HIDE DEF m
<1>3. m \in Nat /\ m >= 32 /\ n <= m /\ 32 * 0 + 32 <= m /\ 1..n \subseteq 1..m
  BY <1>1, <1>2
<1>4. \A i \in 1..n : there[i] = e[i]
  BY <1>1, <1>2, <1>3 DEF Has
<1>5. WordNumber(there, 0) = Number(v)
  <2> DEFINE w == Word(there, 0)
  <2>1. w \in [1..32 -> Byte] /\ \A k \in 1..32 : w[k] = there[32 * 0 + k]
    <3>1. 0 \in Nat /\ 32 * 0 + 32 <= Len(there)
      BY <1>3 DEF m
    <3> QED BY <1>2, <3>1, WordIs
  <2>2. \A k \in 1..32 : w[k] = e[k]
    <3> TAKE k \in 1..32
    <3>1. 32 * 0 + k = k /\ k \in 1..n
      OBVIOUS
    <3> HIDE DEF w
    <3> QED BY <1>4, <2>1, <3>1
  <2> HIDE DEF w
  <2>3. EndsIn(w, v)
    BY <2>2 DEF EndsIn
  <2>4. Number(w) = Number(v)
    BY <2>1, <2>3, WordEndsIn
  <2> QED BY <2>4 DEF w, WordNumber
<1>6. Follows(rest, e, n)
  <2>1. /\ rest \in Seq(Byte) /\ Len(rest) = m - 32
        /\ \A i \in 1..m - 32 : rest[i] = there[32 + i]
    <3> DEFINE a == 32
               from == 33
               x == m - 32
    <3>1. Cut(rest, there, a, from, x) /\ there \in Seq(Byte)
      BY <1>2, <1>3 DEF Cut, m, Rest
    <3> HIDE DEF a, from, x
    <3>2. IsBehind(rest, there, a, x)
      BY <3>1, Behind
    <3> QED BY <3>2 DEF x, a, IsBehind
  <2>2. ASSUME NEW k \in 1..n - 32 PROVE rest[k] = e[32 + k]
    <3>1. k \in 1..m - 32 /\ 32 + k \in 1..n
      BY <1>3
    <3> QED BY <1>4, <2>1, <3>1
  <2>3. n - 32 <= Len(rest)
    BY <1>3, <2>1
  <2> QED BY <2>1, <2>2, <2>3 DEF Follows
<1> QED BY <1>5, <1>6

(* There it reads a text.                                                    *)
LEMMA TextArrives ==
  ASSUME NEW item \in Items, IsText(item), NEW b \in Seq(Byte), NEW i \in Nat,
         NEW at \in Nat, WordNumber(b, i) = at,
         Has(b, at, Encode[item], getVectorSize(item)), Len(b) < 256
  PROVE  Argument(item, b, i) = item
<1> DEFINE v == item.bytes
           s == Len(v)
           n == getVectorSize(item)
           e == Encode[item]
           z == size_to_bytes(s)
           there == There(b, at)
           rest == Rest(there)
<1>1. /\ Sized(e, n) /\ v \in Seq(Byte) /\ 32 + s <= n
      /\ s < 256 => EndsIn(e, z) /\ \A k \in 1..s : e[32 + k] = v[k]
  BY TextEncoded
<1>2. n \in Nat /\ n >= 32 /\ e \in [1..n -> Byte] /\ s \in Nat
  BY <1>1 DEF Sized
<1>3. Has(b, at, e, n) /\ at + n <= Len(b)
  BY DEF Has
<1>4. Len(b) \in Nat
  OBVIOUS
<1> HIDE DEF n, e
<1>5. s < 256 /\ n < 256
  <2> DEFINE l == Len(b)
  <2>1. l \in Nat /\ at + n <= l /\ l < 256
    BY <1>3, <1>4
  <2> HIDE DEF l, s
  <2> QED BY <1>1, <1>2, <2>1
<1>6. EndsIn(e, z) /\ \A k \in 1..s : e[32 + k] = v[k]
  BY <1>1, <1>5
<1>7. z \in Seq(Byte) /\ Len(z) <= 32 /\ Number(z) = s
  <2>1. s \in 0..255
    BY <1>2, <1>5, FitsAByte
  <2> HIDE DEF s
  <2> QED BY <2>1, SmallSize, SmallLength
<1> HIDE DEF z, there, rest, s, v
<1>8. there = There(b, at) /\ rest = Rest(there)
  BY DEF there, rest
<1>9. WordNumber(there, 0) = Number(z) /\ Follows(rest, e, n)
  BY <1>2, <1>3, <1>6, <1>7, <1>8, Found
<1>10. /\ rest \in Seq(Byte) /\ s <= Len(rest)
       /\ \A k \in 1..s : rest[k] = v[k]
  <2> DEFINE r == Len(rest)
  <2>1. r \in Nat /\ n - 32 <= r /\ rest \in Seq(Byte) /\ \A k \in 1..n - 32 : rest[k] = e[32 + k]
    BY <1>9 DEF Follows
  <2> HIDE DEF r
  <2>2. s <= r /\ 1..s \subseteq 1..n - 32
    BY <1>1, <1>2, <2>1
  <2> QED BY <1>6, <2>1, <2>2 DEF r
<1>11. SubSeq(rest, 1, s) = v
  <2>1. 0 + Len(v) <= Len(rest) /\ \A k \in 1..Len(v) : rest[0 + k] = v[k]
    <3>1. \A k \in 1..s : 0 + k = k
      BY <1>2
    <3>2. 0 + s = s
      BY <1>2
    <3> QED BY <1>10, <3>1, <3>2 DEF s
  <2>2. SubSeq(rest, 0 + 1, 0 + Len(v)) = v
    BY <1>1, <1>10, <2>1, SliceIs
  <2>3. 0 + 1 = 1 /\ 0 + s = s
    BY <1>2
  <2> QED BY <2>2, <2>3 DEF s
<1>12. ~ (at + 32 > Len(b)) /\ ~ (s > Len(rest))
  <2> DEFINE l == Len(b)
             r == Len(rest)
  <2>1. l \in Nat /\ r \in Nat /\ at + n <= l /\ s <= r
    BY <1>3, <1>4, <1>10
  <2> HIDE DEF l, r
  <2>2. ~ (at + 32 > l) /\ ~ (s > r)
    BY <1>2, <2>1
  <2> QED BY <2>2 DEF l, r
<1>13. isDynamic(item) /\ item.type # "ItemArray" /\ item = Value(item.type, v)
  <2>1. item.type \in {"Binary", "String"} /\ item = Value(item.type, v)
    BY DEF IsText, v
  <2> QED BY <2>1 DEF isDynamic
<1>14. WordNumber(there, 0) = s
  BY <1>7, <1>9
<1>15. Argument(item, b, i) = Value(item.type, SubSeq(rest, 1, s))
  BY <1>8, <1>12, <1>13, <1>14 DEF Argument, There, Rest
<1> QED BY <1>11, <1>13, <1>15

LEMMA RowPlaces ==
  ASSUME NEW s \in Nat, NEW n \in Nat, NEW r \in Nat, n - 32 = s * 32, n - 32 <= r,
         NEW j \in Nat, j >= 1, j <= s
  PROVE  /\ j - 1 \in Nat /\ 32 * (j - 1) + 32 <= r
         /\ \A k \in 1..32 : /\ 32 * (j - 1) + k \in 1..n - 32
                               /\ 32 + (32 * (j - 1) + k) = 32 * j + k
OBVIOUS

(* And there an array of words.                                              *)
LEMMA ArrayArrives ==
  ASSUME NEW item \in Items, IsArray(item), NEW b \in Seq(Byte), NEW i \in Nat,
         NEW at \in Nat, WordNumber(b, i) = at,
         Has(b, at, Encode[item], getVectorSize(item)), Len(b) < 256
  PROVE  Argument(item, b, i) = item
<1> DEFINE c == item.children
           s == Len(c)
           n == getVectorSize(item)
           e == Encode[item]
           z == size_to_bytes(s)
           there == There(b, at)
           rest == Rest(there)
<1>1. s \in Nat /\ DOMAIN c = 1..s /\ \A j \in 1..s : c[j] \in Items /\ IsWord(c[j])
  BY Children
<1>2. /\ n = 32 + s * 32 /\ Sized(e, n)
      /\ s < 256 => EndsIn(e, z)
      /\ \A j \in 1..s : \A k \in 1..32 : e[32 * j + k] = Encode[c[j]][k]
  <2>1. s = Len(item.children)
    OBVIOUS
  <2> HIDE DEF s
  <2> QED BY <1>1, <2>1, ArrayEncoded
<1>3. n \in Nat /\ n >= 32 /\ e \in [1..n -> Byte]
  BY <1>2 DEF Sized
<1>4. Has(b, at, e, n) /\ at + n <= Len(b)
  BY DEF Has
<1>5. Len(b) \in Nat
  OBVIOUS
<1> HIDE DEF n, e, s
<1>6. s < 256 /\ at + 32 <= Len(b)
  <2> DEFINE l == Len(b)
  <2>1. l \in Nat /\ at + n <= l /\ l < 256
    BY <1>4, <1>5
  <2> HIDE DEF l
  <2>2. s < 256 /\ at + 32 <= l
    BY <1>1, <1>2, <2>1
  <2> QED BY <2>2 DEF l
<1>7. z \in Seq(Byte) /\ Len(z) <= 32 /\ Number(z) = s
  <2>1. s \in 0..255
    BY <1>1, <1>6, FitsAByte
  <2> QED BY <2>1, SmallSize, SmallLength
<1> HIDE DEF z, there, rest
<1>8. there = There(b, at) /\ rest = Rest(there)
  BY DEF there, rest
<1>9. WordNumber(there, 0) = Number(z) /\ Follows(rest, e, n)
  <2>1. EndsIn(e, z)
    BY <1>2, <1>6
  <2> QED BY <1>3, <1>4, <1>7, <1>8, <2>1, Found
<1> DEFINE r == Len(rest)
<1>10. /\ rest \in Seq(Byte) /\ r \in Nat /\ n - 32 <= r
       /\ \A k \in 1..n - 32 : rest[k] = e[32 + k]
  BY <1>9 DEF Follows
<1> HIDE DEF r
<1>11. n - 32 = s * 32 /\ s <= r
  BY <1>1, <1>2, <1>10
<1>12. ASSUME NEW j \in 1..s PROVE Static(c[j].type, rest, j - 1) = c[j]
  <2> DEFINE w == Word(rest, j - 1)
             child == c[j]
  <2>1. child \in Items /\ IsWord(child)
    BY <1>1
  <2>2. j \in Nat /\ j >= 1 /\ j <= s
    BY <1>1
  <2>3. /\ j - 1 \in Nat /\ 32 * (j - 1) + 32 <= r
        /\ \A k \in 1..32 : /\ 32 * (j - 1) + k \in 1..n - 32
                              /\ 32 + (32 * (j - 1) + k) = 32 * j + k
    BY <1>1, <1>3, <1>10, <1>11, <2>2, RowPlaces
  <2>4. w \in [1..32 -> Byte] /\ \A k \in 1..32 : w[k] = rest[32 * (j - 1) + k]
    BY <1>10, <2>3, WordIs DEF r
  <2> HIDE DEF w
  <2>5. \A k \in 1..32 : w[k] = Encode[child][k]
    <3> TAKE k \in 1..32
    <3> DEFINE x == 32 * (j - 1) + k
    <3>1. x \in 1..n - 32 /\ 32 + x = 32 * j + k /\ w[k] = rest[x]
      BY <2>3, <2>4
    <3> HIDE DEF x
    <3>2. w[k] = e[32 * j + k]
      BY <1>10, <3>1
    <3> QED BY <1>2, <3>2
  <2>6. EndsIn(Encode[child], child.bytes)
    BY <2>1, WordEncoded
  <2>7. EndsIn(w, child.bytes)
    BY <2>5, <2>6 DEF EndsIn
  <2> HIDE DEF child
  <2>8. Static(child.type, rest, j - 1) = child
    BY <2>1, <2>4, <2>7, StaticArrives DEF w
  <2> QED BY <2>8 DEF child
<1>13. [j \in 1..s |-> Static(c[j].type, rest, j - 1)] = c
  <2> DEFINE W == {child \in Items : IsWord(child)}
  <2>1. c \in Seq(W)
    BY DEF IsArray
  <2>2. c = [j \in 1..s |-> c[j]]
    <3> HIDE DEF W, c
    <3>1. c = [j \in 1..Len(c) |-> c[j]]
      BY <2>1
    <3> QED BY <3>1 DEF s
  <2> HIDE DEF W, c
  <2> QED BY <1>12, <2>2
<1>14. isDynamic(item) /\ item.type = "ItemArray" /\ item = ItemArray(c)
  BY Children DEF IsArray
<1>15. ~ (at + 32 > Len(b)) /\ ~ (s > Len(rest))
  <2> DEFINE l == Len(b)
  <2>1. l \in Nat /\ at + 32 <= l
    BY <1>5, <1>6
  <2> HIDE DEF l
  <2>2. ~ (at + 32 > l) /\ ~ (s > r)
    BY <1>1, <1>10, <1>11, <2>1
  <2> QED BY <2>2 DEF l, r
<1>16. WordNumber(there, 0) = s /\ s = Len(item.children)
  BY <1>7, <1>9 DEF s
<1>17. Argument(item, b, i)
         = ItemArray([j \in 1..s |-> Static(item.children[j].type, rest, j - 1)])
  BY <1>8, <1>14, <1>15, <1>16 DEF Argument, There, Rest
<1> QED BY <1>13, <1>14, <1>17

-----------------------------------------------------------------------------
(* The call data.                                                            *)

(* The names that AsData gives to its parts.                                 *)
Params(args) == [i \in DOMAIN args |-> Encode[args[i]]]
HeadsSize(args) == Sum([i \in DOMAIN args |-> Head32(args[i])])
Tail32(args, i) == IF isDynamic(args[i]) THEN Params(args)[i] ELSE <<>>
Position(args, i) == HeadsSize(args) + Sum([j \in 1..i - 1 |-> Len(Tail32(args, j))])
HeadWord(args, i) ==
  IF isDynamic(args[i])
  THEN padx(Zeros(ARGUMENT_LENGTH), size_to_bytes(Position(args, i)))
  ELSE Params(args)[i]
Heads(args) == [i \in DOMAIN args |-> HeadWord(args, i)]
Tails(args) == [i \in DOMAIN args |-> Tail32(args, i)]

LEMMA AsDataIs ==
  ASSUME NEW h, NEW args
  PROVE  AsData(h, args) = h \o FlattenSeq(Heads(args)) \o FlattenSeq(Tails(args))
BY DEF AsData, Heads, Tails, HeadWord, Tail32, Position, HeadsSize, Params

(* Every item is encoded in whole words; a static one in one word.           *)
LEMMA ItemEncoded ==
  ASSUME NEW item \in Items
  PROVE  /\ Sized(Encode[item], getVectorSize(item))
         /\ Head32(item) = 32
         /\ isDynamic(item) \/ (IsWord(item) /\ getVectorSize(item) = 32)
<1>1. CASE IsWord(item)
  <2>1. Encode[item] \in [1..32 -> Byte] /\ ~ isDynamic(item)
    BY <1>1, WordEncoded, Children
  <2>2. getVectorSize(item) = 32
    <3>1. item.type \in {"UnsignedInt", "Bool", "Address"}
      BY <1>1 DEF IsWord
    <3> QED BY <3>1 DEF getVectorSize, ARGUMENT_LENGTH
  <2>3. Len(Encode[item]) = 32
    BY <2>1, ByteArray, 32 \in Nat
  <2>4. 32 % 32 = 0 /\ 32 >= 32 /\ 32 \in Nat
    OBVIOUS
  <2> QED BY <1>1, <2>1, <2>2, <2>3, <2>4 DEF Head32, Sized
<1>2. CASE IsText(item)
  <2>1. isDynamic(item) /\ Sized(Encode[item], getVectorSize(item))
    BY <1>2, TextEncoded, Children
  <2> QED BY <2>1 DEF Head32, ARGUMENT_LENGTH
<1>3. CASE IsArray(item)
  <2>1. isDynamic(item) /\ Len(item.children) \in Nat
    BY <1>3, Children
  <2>2. Sized(Encode[item], getVectorSize(item))
    BY <1>3, <2>1, ArrayEncoded
  <2> QED BY <2>1, <2>2 DEF Head32, ARGUMENT_LENGTH
<1> QED BY <1>1, <1>2, <1>3, ItemsAssumption

LEMMA WholeWords ==
  ASSUME NEW n \in Nat, n % 32 = 0
  PROVE  \E q \in Nat : n = 32 * q
<1> DEFINE q == n \div 32
           r == n % 32
<1>1. q \in Nat /\ n = 32 * q + r /\ r = 0
  BY DivMod
<1> HIDE DEF q, r
<1>2. n = 32 * q
  BY <1>1
<1> QED BY <1>1, <1>2

LEMMA TailEncoded ==
  ASSUME NEW args \in Seq(Items), NEW i \in 1..Len(args)
  PROVE  /\ args[i] \in Items /\ Params(args)[i] = Encode[args[i]]
         /\ Tail32(args, i) \in Seq(Byte)
         /\ isDynamic(args[i]) => /\ Tail32(args, i) = Encode[args[i]]
                                  /\ Len(Tail32(args, i)) = getVectorSize(args[i])
         /\ \E q \in Nat : Len(Tail32(args, i)) = 32 * q
<1> DEFINE item == args[i]
           n == getVectorSize(item)
           e == Encode[item]
<1>1. item \in Items /\ Params(args)[i] = e
  BY ElementOfSeq DEF Params
<1> HIDE DEF item
<1>2. Sized(e, n)
  BY <1>1, ItemEncoded
<1> HIDE DEF e, n
<1>3. n \in Nat /\ n % 32 = 0 /\ e \in Seq(Byte) /\ Len(e) = n
  BY <1>2, ByteArray DEF Sized
<1>4. \E q \in Nat : n = 32 * q
  BY <1>3, WholeWords
<1>5. CASE isDynamic(item)
  <2>1. Tail32(args, i) = e
    BY <1>1, <1>5 DEF Tail32, item
  <2> QED BY <1>1, <1>3, <1>4, <2>1 DEF item, e, n
<1>6. CASE ~ isDynamic(item)
  <2>1. Tail32(args, i) = <<>> /\ <<>> \in Seq(Byte) /\ Len(<<>>) = 32 * 0 /\ 0 \in Nat
    BY <1>6 DEF Tail32, item
  <2> QED BY <1>1, <1>6, <2>1 DEF item, e, n
<1> QED BY <1>5, <1>6

(* The heads take a word each.                                               *)
LEMMA HeadsTaken ==
  ASSUME NEW args \in Seq(Items)
  PROVE  HeadsSize(args) = 32 * Len(args)
<1> DEFINE N == Len(args)
           f == [i \in DOMAIN args |-> Head32(args[i])]
           u == [k \in 0..N |-> 32 * k]
<1>1. N \in Nat /\ DOMAIN args = 1..N /\ \A i \in 1..N : args[i] \in Items
  BY ElementOfSeq
<1> HIDE DEF N
<1>2. \A i \in 1..N : f[i] = 32
  BY <1>1, ItemEncoded
<1>3. f \in [1..N -> Nat]
  <2>1. f = [i \in 1..N |-> f[i]]
    BY <1>1
  <2> HIDE DEF f
  <2> QED BY <1>2, <2>1
<1> HIDE DEF f
<1>4. f \in Seq(Nat) /\ Len(f) = N
  BY <1>1, <1>3
<1>5. PartialValues(u, 1, f)
  <2>1. u \in [0..N -> Nat] /\ u[0] = 0
    BY <1>1
  <2>2. ASSUME NEW i \in 1..N PROVE u[i] = 1 * u[i - 1] + f[i]
    <3>1. u[i] = 32 * i /\ u[i - 1] = 32 * (i - 1)
      BY <1>1
    <3> DEFINE x == u[i]
               y == u[i - 1]
    <3>2. x = 32 * i /\ y = 32 * (i - 1) /\ f[i] = 32
      BY <1>2, <3>1
    <3> HIDE DEF x, y, u
    <3>3. x = 1 * y + 32
      BY <1>1, <3>2
    <3> QED BY <3>2, <3>3 DEF x, y
  <2> QED BY <1>4, <2>1, <2>2 DEF PartialValues
<1>6. Digits(1, f) = u[N]
  <2> HIDE DEF u
  <2> QED BY <1>4, <1>5, DigitsAre, 1 \in Nat
<1>7. u[N] = 32 * N
  BY <1>1
<1> QED BY <1>6, <1>7 DEF HeadsSize, Sum, f, N

(* Where the tails are: o[i - 1] bytes behind the heads.                     *)
LEMMA TailOffsets ==
  ASSUME NEW args \in Seq(Items), NEW N \in Nat, N = Len(args)
  PROVE  /\ Tails(args) \in Seq(Seq(Byte)) /\ Len(Tails(args)) = N
         /\ \A i \in 1..N : Tails(args)[i] = Tail32(args, i)
         /\ \E o \in [0..N -> Nat] :
               /\ Offsets(o, Tails(args))
               /\ \A i \in 1..N : Position(args, i) = 32 * N + o[i - 1]
               /\ \E q \in Nat : o[N] = 32 * q
<1> DEFINE t == Tails(args)
           f == [i \in 1..N |-> Len(Tail32(args, i))]
<1>1. DOMAIN args = 1..N
  OBVIOUS
<1>2. t = [i \in 1..N |-> Tail32(args, i)]
  BY <1>1 DEF Tails
<1>3. \A i \in 1..N : /\ Tail32(args, i) \in Seq(Byte) /\ Len(Tail32(args, i)) \in Nat
                      /\ \E q \in Nat : Len(Tail32(args, i)) = 32 * q
  <2> TAKE i \in 1..N
  <2>1. i \in 1..Len(args)
    OBVIOUS
  <2>2. Tail32(args, i) \in Seq(Byte) /\ \E q \in Nat : Len(Tail32(args, i)) = 32 * q
    BY <2>1, TailEncoded
  <2>3. Len(Tail32(args, i)) \in Nat
    BY <2>2
  <2> QED BY <2>2, <2>3
<1> HIDE DEF t
<1>4. t \in Seq(Seq(Byte)) /\ Len(t) = N /\ \A i \in 1..N : t[i] = Tail32(args, i)
  <2>1. t \in [1..N -> Seq(Byte)] /\ \A i \in 1..N : t[i] = Tail32(args, i)
    BY <1>2, <1>3
  <2> QED BY <2>1
<1>5. f \in Seq(Nat) /\ Len(f) = N /\ \A i \in 1..N : f[i] = Len(Tail32(args, i))
  <2>1. f \in [1..N -> Nat]
    BY <1>3
  <2>2. \A i \in 1..N : f[i] = Len(Tail32(args, i))
    OBVIOUS
  <2> HIDE DEF f
  <2> QED BY <2>1, <2>2
<1> HIDE DEF f
<1>6. PICK o : PartialValues(o, 1, f)
  BY <1>5, DigitsUnfold, 1 \in Nat
<1>7. /\ o \in [0..N -> Nat] /\ o[0] = 0
      /\ \A i \in 1..N : o[i] = 1 * o[i - 1] + f[i]
  BY <1>5, <1>6 DEF PartialValues
<1>8. \A i \in 1..N : o[i] = o[i - 1] + f[i]
  <2> TAKE i \in 1..N
  <2> DEFINE x == o[i - 1]
  <2>1. i - 1 \in 0..N
    OBVIOUS
  <2>2. x \in Nat /\ o[i] = 1 * x + f[i]
    BY <1>7, <2>1
  <2> HIDE DEF x
  <2>3. 1 * x = x
    BY <2>2
  <2> QED BY <2>2, <2>3 DEF x
<1>9. Offsets(o, t)
  BY <1>4, <1>5, <1>7, <1>8 DEF Offsets
<1>10. ASSUME NEW i \in 1..N PROVE Position(args, i) = 32 * N + o[i - 1]
  <2> DEFINE m == i - 1
             g == [j \in 1..i - 1 |-> Len(Tail32(args, j))]
             w == [k \in 0..m |-> o[k]]
  <2>1. m \in Nat /\ m <= N /\ 1..m \subseteq 1..N /\ 0..m \subseteq 0..N /\ m \in 0..m
    OBVIOUS
  <2>2. g = [j \in 1..m |-> Len(Tail32(args, j))]
    OBVIOUS
  <2> HIDE DEF g, m
  <2>3. g \in Seq(Nat) /\ Len(g) = m /\ \A j \in 1..m : g[j] = f[j]
    <3>1. g \in [1..m -> Nat]
      BY <1>3, <2>1, <2>2
    <3>2. \A j \in 1..m : g[j] = f[j]
      BY <1>5, <2>1, <2>2
    <3> QED BY <2>1, <3>1, <3>2
  <2>4. PartialValues(w, 1, g)
    <3>1. w \in [0..m -> Nat] /\ w[0] = 0
      BY <1>7, <2>1
    <3>2. ASSUME NEW j \in 1..m PROVE w[j] = 1 * w[j - 1] + g[j]
      <4>1. j - 1 \in 0..m /\ j \in 0..m /\ j \in 1..N
        BY <2>1
      <4>2. w[j] = o[j] /\ w[j - 1] = o[j - 1]
        BY <4>1
      <4>3. o[j] = 1 * o[j - 1] + g[j]
        BY <1>7, <2>3, <4>1
      <4> HIDE DEF w
      <4> QED BY <4>2, <4>3
    <3> HIDE DEF w
    <3> QED BY <2>3, <3>1, <3>2 DEF PartialValues
  <2>5. Digits(1, g) = w[m]
    <3> HIDE DEF w
    <3> QED BY <2>3, <2>4, DigitsAre, 1 \in Nat
  <2>6. w[m] = o[m]
    BY <2>1
  <2>7. Position(args, i) = HeadsSize(args) + Digits(1, g)
    BY DEF Position, Sum, g
  <2>8. HeadsSize(args) = 32 * N
    BY HeadsTaken
  <2> QED BY <2>5, <2>6, <2>7, <2>8 DEF m
<1>11. \E q \in Nat : o[N] = 32 * q
  <2> DEFINE T == {k \in Nat : k <= N => \E q \in Nat : o[k] = 32 * q}
  <2>1. 0 \in T
    <3>1. o[0] = 32 * 0 /\ 0 \in Nat
      BY <1>7
    <3> QED BY <3>1
  <2>2. ASSUME NEW k \in Nat, k \in T PROVE k + 1 \in T
    <3> SUFFICES ASSUME k + 1 <= N PROVE \E q \in Nat : o[k + 1] = 32 * q
      OBVIOUS
    <3> DEFINE h == k + 1
    <3>1. h \in 1..N /\ h - 1 = k /\ k <= N
      OBVIOUS
    <3>2. PICK p \in Nat : o[k] = 32 * p
      BY <2>2, <3>1
    <3> HIDE DEF h
    <3>3. PICK q \in Nat : f[h] = 32 * q
      BY <1>3, <1>5, <3>1
    <3>4. o[h] = o[k] + f[h]
      BY <1>8, <3>1
    <3>5. o[h] = 32 * p + 32 * q
      BY <3>2, <3>3, <3>4
    <3>6. o[h] = 32 * (p + q) /\ p + q \in Nat
      BY <3>5
    <3> QED BY <3>6 DEF h
  <2>3. Nat \subseteq T
    <3> HIDE DEF T
    <3> QED BY <2>1, <2>2, NatInduct
  <2>4. N \in T
    <3> HIDE DEF T
    <3> QED BY <2>3
  <2> QED BY <2>4
<1> QED BY <1>4, <1>7, <1>9, <1>10, <1>11 DEF t

LEMMA HeadPlaces ==
  ASSUME NEW N \in Nat, NEW i \in Nat, i >= 1, i <= N, NEW p, p = 32 * (i - 1)
  PROVE  /\ p \in Nat /\ p + 32 <= 32 * N
         /\ \A k \in 1..32 : p + k \in 1..32 * N
OBVIOUS

(* The call data behind the signature: every head in its word, and every     *)
(* tail where its position says.                                             *)
LEMMA Laid ==
  ASSUME NEW args \in Seq(Items), NEW N \in Nat, N = Len(args),
         NEW b, b = FlattenSeq(Heads(args)) \o FlattenSeq(Tails(args))
  PROVE  /\ b \in Seq(Byte) /\ Len(b) % 32 = 0
         /\ \A i \in 1..N :
               /\ HeadWord(args, i) \in [1..32 -> Byte]
               /\ Has(b, 32 * (i - 1), HeadWord(args, i), 32)
               /\ Position(args, i) \in Nat /\ Position(args, i) >= 32
               /\ Has(b, Position(args, i), Tail32(args, i), Len(Tail32(args, i)))
<1> DEFINE t == Tails(args)
           h == Heads(args)
           A == FlattenSeq(h)
           B == FlattenSeq(t)
           u == [k \in 0..N |-> 32 * k]
<1>1. t \in Seq(Seq(Byte)) /\ Len(t) = N /\ \A i \in 1..N : t[i] = Tail32(args, i)
  BY TailOffsets
<1>2. PICK o \in [0..N -> Nat] :
         /\ Offsets(o, t)
         /\ \A i \in 1..N : Position(args, i) = 32 * N + o[i - 1]
         /\ \E q \in Nat : o[N] = 32 * q
  BY TailOffsets
<1>3. ASSUME NEW i \in 1..N
      PROVE  /\ Position(args, i) \in Nat /\ Position(args, i) >= 32
             /\ HeadWord(args, i) \in [1..32 -> Byte]
  <2> DEFINE x == o[i - 1]
             p == Position(args, i)
  <2>1. i - 1 \in 0..N /\ N >= 1
    OBVIOUS
  <2>2. x \in Nat /\ p = 32 * N + x
    BY <1>2, <2>1
  <2> HIDE DEF x, p
  <2>3. p \in Nat /\ p >= 32
    BY <2>1, <2>2
  <2>4. i \in 1..Len(args)
    OBVIOUS
  <2>5. args[i] \in Items /\ Params(args)[i] = Encode[args[i]]
    BY <2>4, TailEncoded
  <2>6. CASE isDynamic(args[i])
    <3> DEFINE z == size_to_bytes(p)
    <3>1. z \in Seq(Byte) /\ 32 \in Nat
      BY <2>3, SizesAreBytes
    <3> HIDE DEF z
    <3>2. padx(Zeros(32), z) \in [1..32 -> Byte]
      BY <3>1, ZerosAreBytes, Padded
    <3> QED BY <2>3, <2>6, <3>2 DEF HeadWord, ARGUMENT_LENGTH, z, p
  <2>7. CASE ~ isDynamic(args[i])
    <3>1. IsWord(args[i])
      BY <2>5, <2>7, ItemEncoded
    <3>2. Encode[args[i]] \in [1..32 -> Byte]
      BY <2>5, <3>1, WordEncoded
    <3> QED BY <2>3, <2>5, <2>7, <3>2 DEF HeadWord, p
  <2> QED BY <2>6, <2>7
<1>4. h \in Seq(Seq(Byte)) /\ Len(h) = N
      /\ \A i \in 1..N : h[i] = HeadWord(args, i) /\ Len(h[i]) = 32
  <2>1. DOMAIN args = 1..N
    OBVIOUS
  <2>2. \A i \in 1..N : HeadWord(args, i) \in Seq(Byte) /\ Len(HeadWord(args, i)) = 32
    BY <1>3, ByteArray, 32 \in Nat
  <2>3. h = [i \in 1..N |-> HeadWord(args, i)]
    BY <2>1 DEF Heads
  <2> HIDE DEF h
  <2>4. h \in [1..N -> Seq(Byte)] /\ \A i \in 1..N : h[i] = HeadWord(args, i)
    BY <2>2, <2>3
  <2>5. h \in Seq(Seq(Byte)) /\ Len(h) = N
    BY <2>4
  <2>6. \A i \in 1..N : h[i] = HeadWord(args, i) /\ Len(h[i]) = 32
    BY <2>2, <2>4, Zenon
  <2> QED BY <2>5, <2>6
<1>5. Offsets(u, h)
  <2>1. u \in [0..N -> Nat] /\ u[0] = 0
    OBVIOUS
  <2>2. ASSUME NEW i \in 1..N PROVE u[i] = u[i - 1] + 32
    <3>1. u[i] = 32 * i /\ u[i - 1] = 32 * (i - 1)
      OBVIOUS
    <3> HIDE DEF u
    <3>2. 32 * i = 32 * (i - 1) + 32
      OBVIOUS
    <3> QED BY <3>1, <3>2
  <2> HIDE DEF u, h
  <2> QED BY <1>4, <2>1, <2>2 DEF Offsets
<1>6. u[N] = 32 * N /\ \A i \in 1..N : u[i - 1] = 32 * (i - 1)
  OBVIOUS
<1> HIDE DEF t, h, A, B, u
<1>7. Holds(A, h, u, N) /\ Holds(B, t, o, N)
  BY <1>1, <1>2, <1>4, <1>5, JoinedHolds DEF A, B
<1>8. A \in Seq(Byte) /\ Len(A) = 32 * N /\ B \in Seq(Byte) /\ Len(B) = o[N]
  BY <1>6, <1>7 DEF Holds
<1>9. b = A \o B
  BY DEF A, B, h, t
<1>10. /\ b \in Seq(Byte) /\ Len(b) = Len(A) + Len(B)
       /\ \A i \in 1..Len(A) : b[i] = A[i]
       /\ \A i \in 1..Len(B) : b[Len(A) + i] = B[i]
  <2>1. /\ A \o B \in Seq(Byte) /\ Len(A \o B) = Len(A) + Len(B)
        /\ \A i \in 1..Len(A) : (A \o B)[i] = A[i]
        /\ \A i \in 1..Len(B) : (A \o B)[Len(A) + i] = B[i]
    BY <1>8, ConcatBytes
  <2> QED BY <1>9, <2>1, Zenon
<1> DEFINE H == 32 * N
           M == o[N]
<1>11. /\ b \in Seq(Byte) /\ Len(b) = H + M /\ H \in Nat /\ M \in Nat
       /\ \A i \in 1..H : b[i] = A[i]
       /\ \A i \in 1..M : b[H + i] = B[i]
  <2>1. N \in 0..N
    OBVIOUS
  <2>2. o[N] \in Nat
    BY <2>1
  <2> QED BY <1>8, <1>10, <2>2
<1>12. Len(b) % 32 = 0
  <2>1. PICK q \in Nat : M = 32 * q
    BY <1>2
  <2> DEFINE l == Len(b)
  <2>2. l = 32 * (N + q) + 0 /\ l \in Nat /\ N + q \in Int /\ 0 \in 0..32 - 1 /\ 32 \in Nat \ {0}
    BY <1>11, <2>1
  <2> HIDE DEF l
  <2>3. l % 32 = 0
    BY <2>2, DivUnique
  <2> QED BY <2>3 DEF l
<1>13. ASSUME NEW i \in 1..N PROVE Has(b, 32 * (i - 1), HeadWord(args, i), 32)
  <2> DEFINE p == 32 * (i - 1)
  <2>1. p \in Nat /\ p + 32 <= H /\ \A k \in 1..32 : p + k \in 1..H
    BY HeadPlaces
  <2>2. p = u[i - 1]
    BY <1>6
  <2> HIDE DEF p, H, M
  <2>3. p + 32 <= Len(b)
    BY <1>11, <2>1
  <2>4. \A k \in 1..32 : b[p + k] = HeadWord(args, i)[k]
    <3> TAKE k \in 1..32
    <3>1. b[p + k] = A[p + k]
      BY <1>11, <2>1
    <3>2. A[p + k] = h[i][k]
      BY <1>4, <1>7, <2>2 DEF Holds
    <3> QED BY <1>4, <3>1, <3>2
  <2>5. Has(b, p, HeadWord(args, i), 32)
    BY <2>3, <2>4 DEF Has
  <2> QED BY <2>5 DEF p
<1>14. ASSUME NEW i \in 1..N
       PROVE  Has(b, Position(args, i), Tail32(args, i), Len(Tail32(args, i)))
  <2> DEFINE x == o[i - 1]
             y == o[i]
             v == Tail32(args, i)
             n == Len(v)
  <2>1. x \in Nat /\ y \in Nat /\ y = x + n /\ n \in Nat
    <3>1. i - 1 \in 0..N /\ i \in 0..N
      OBVIOUS
    <3>2. x \in Nat /\ y \in Nat
      BY <3>1
    <3>3. i \in 1..Len(t) /\ t[i] = v
      BY <1>1
    <3>4. y = x + n
      BY <1>2, <3>3 DEF Offsets
    <3>5. v \in Seq(Byte)
      <4>1. i \in 1..Len(args)
        OBVIOUS
      <4> QED BY <4>1, TailEncoded
    <3>6. n \in Nat
      BY <3>5
    <3> QED BY <3>2, <3>4, <3>6
  <2>2. \A k \in 1..n : x + k <= M /\ B[x + k] = v[k]
    BY <1>1, <1>7 DEF Holds
  <2>3. Position(args, i) = H + x
    BY <1>2
  <2> HIDE DEF v, n, x, y, H, M
  <2>4. \A k \in 1..n : b[(H + x) + k] = v[k]
    <3> TAKE k \in 1..n
    <3> DEFINE j == x + k
    <3>1. j <= M /\ B[j] = v[k]
      BY <2>2
    <3>2. k \in Nat /\ k >= 1 /\ H \in Nat /\ M \in Nat
      BY <1>11, <2>1
    <3>3. j \in 1..M /\ (H + x) + k = H + j
      BY <2>1, <3>1, <3>2
    <3> HIDE DEF j
    <3> QED BY <1>11, <3>1, <3>3
  <2>5. x + n <= M
    BY <1>1, <1>7 DEF Holds, M, x, n, v
  <2>6. (H + x) + n <= Len(b)
    BY <1>11, <2>1, <2>5
  <2>7. Has(b, H + x, v, n)
    BY <2>4, <2>6 DEF Has
  <2> QED BY <2>3, <2>7 DEF v, n
<1> QED BY <1>3, <1>11, <1>12, <1>13, <1>14

(* Below 256 bytes every argument is read as it was passed.                  *)
LEMMA Arrives ==
  ASSUME NEW args \in Seq(Items), NEW N \in Nat, N = Len(args),
         NEW b, b = FlattenSeq(Heads(args)) \o FlattenSeq(Tails(args)),
         Len(b) < 256, NEW i \in 1..N
  PROVE  Argument(args[i], b, i - 1) = args[i]
<1> DEFINE item == args[i]
           m == i - 1
           w == Word(b, m)
           h == HeadWord(args, i)
           p == Position(args, i)
           v == Tail32(args, i)
           n == Len(v)
           x == 32 * m
<1>1. /\ b \in Seq(Byte) /\ h \in [1..32 -> Byte] /\ Has(b, x, h, 32)
      /\ p \in Nat /\ p >= 32 /\ Has(b, p, v, n)
  BY Laid
<1>2. i \in 1..Len(args)
  OBVIOUS
<1>3. /\ item \in Items /\ Params(args)[i] = Encode[item] /\ v \in Seq(Byte)
      /\ isDynamic(item) => v = Encode[item] /\ n = getVectorSize(item)
  BY <1>2, TailEncoded
<1>4. m \in Nat
  OBVIOUS
<1>5. /\ isDynamic(item) => h = padx(Zeros(32), size_to_bytes(p))
      /\ ~ isDynamic(item) => h = Encode[item]
  BY <1>3 DEF HeadWord, ARGUMENT_LENGTH
<1> HIDE DEF item, h, p, v, n, x, m
<1>6. w \in [1..32 -> Byte] /\ \A k \in 1..32 : w[k] = h[k]
  <2>1. x + 32 <= Len(b) /\ \A k \in 1..32 : b[x + k] = h[k]
    BY <1>1 DEF Has
  <2>2. w \in [1..32 -> Byte] /\ \A k \in 1..32 : w[k] = b[32 * m + k]
    BY <1>1, <1>4, <2>1, WordIs DEF x
  <2> HIDE DEF w
  <2>3. \A k \in 1..32 : w[k] = b[x + k]
    BY <2>2 DEF x
  <2> QED BY <2>1, <2>2, <2>3
<1>7. CASE ~ isDynamic(item)
  <2>1. IsWord(item)
    BY <1>3, <1>7, ItemEncoded
  <2>2. EndsIn(Encode[item], item.bytes)
    BY <1>3, <2>1, WordEncoded
  <2>3. EndsIn(w, item.bytes)
    <3> HIDE DEF w
    <3> QED BY <1>5, <1>6, <1>7, <2>2 DEF EndsIn
  <2>4. Static(item.type, b, m) = item
    BY <1>3, <1>6, <2>1, <2>3, StaticArrives
  <2>5. Argument(item, b, m) = Static(item.type, b, m)
    BY <1>7 DEF Argument
  <2> QED BY <2>4, <2>5 DEF item, m
<1>8. CASE isDynamic(item)
  <2> DEFINE z == size_to_bytes(p)
  <2>1. Len(b) \in Nat /\ n \in Nat
    <3>1. Len(b) \in Nat
      BY <1>1
    <3>2. Len(v) \in Nat
      BY <1>3
    <3> QED BY <3>1, <3>2 DEF n
  <2>2. p \in 0..255 /\ p # 0
    <3> DEFINE l == Len(b)
    <3>1. l \in Nat /\ p + n <= l /\ l < 256
      BY <1>1, <2>1 DEF Has
    <3> HIDE DEF l
    <3>2. p \in Nat /\ p >= 32 /\ n \in Nat
      BY <1>1, <2>1
    <3>3. p < 256 /\ p # 0
      BY <3>1, <3>2
    <3> QED BY <3>2, <3>3, FitsAByte
  <2>3. z \in Seq(Byte) /\ Len(z) = 1 /\ Number(z) = p /\ Len(z) <= 32
    BY <2>2, SmallSize, SmallLength
  <2> HIDE DEF z
  <2>4. EndsIn(h, z)
    BY <1>5, <1>8, <2>3, PaddedOneByte DEF z
  <2>5. WordNumber(b, m) = p
    <3> HIDE DEF w
    <3>1. EndsIn(w, z)
      BY <1>6, <2>4 DEF EndsIn
    <3>2. Number(w) = Number(z)
      BY <1>6, <2>3, <3>1, WordEndsIn
    <3> QED BY <2>3, <3>2 DEF w, WordNumber
  <2>6. Has(b, p, Encode[item], getVectorSize(item))
    BY <1>1, <1>3, <1>8
  <2>7. ~ IsWord(item)
    BY <1>3, <1>8, Children
  <2>8. Argument(item, b, m) = item
    BY <1>1, <1>3, <1>4, <2>5, <2>6, <2>7, TextArrives, ArrayArrives, ItemsAssumption
  <2> QED BY <2>8 DEF item, m
<1> QED BY <1>7, <1>8

-----------------------------------------------------------------------------
(* The specification.                                                        *)

(* Beside the types: the call data are those of the arguments, which nobody  *)
(* changes any more once they are there.                                     *)
IInv ==
  /\ arguments \in Seq(Items) /\ Len(arguments) <= MaxArguments
  /\ callData # <<>> => callData = AsData(SignatureHash, arguments)

LEMMA BodyIs ==
  ASSUME NEW h \in Seq(Byte), NEW A \in Seq(Byte), NEW c, c = h \o A
  PROVE  c \in Seq(Byte) /\ SubSeq(c, Len(h) + 1, Len(c)) = A
<1> DEFINE a == Len(h)
<1>1. /\ h \o A \in Seq(Byte) /\ Len(h \o A) = Len(h) + Len(A)
      /\ Len(h) \in Nat /\ Len(A) \in Nat
      /\ \A i \in 1..Len(A) : (h \o A)[Len(h) + i] = A[i]
  BY ConcatBytes
<1>2. c \in Seq(Byte) /\ Len(c) = a + Len(A) /\ a \in Nat /\ Len(A) \in Nat
      /\ \A i \in 1..Len(A) : c[a + i] = A[i]
  BY <1>1, Zenon
<1> HIDE DEF a
<1>3. a + Len(A) <= Len(c)
  BY <1>2
<1>4. SubSeq(c, a + 1, a + Len(A)) = A
  BY <1>2, <1>3, SliceIs
<1> QED BY <1>2, <1>4 DEF a

(* What is behind the signature are the heads and the tails.                 *)
LEMMA BodyLaid ==
  ASSUME IInv, callData # <<>>
  PROVE  /\ callData \in Seq(Byte)
         /\ Body = FlattenSeq(Heads(arguments)) \o FlattenSeq(Tails(arguments))
<1> DEFINE A == FlattenSeq(Heads(arguments))
           B == FlattenSeq(Tails(arguments))
<1>1. arguments \in Seq(Items) /\ SignatureHash \in Seq(Byte)
  BY CallAssumption DEF IInv
<1>2. callData = SignatureHash \o A \o B
  BY AsDataIs DEF IInv
<1>3. A \in Seq(Byte) /\ B \in Seq(Byte) /\ A \o B \in Seq(Byte)
  <2> DEFINE N == Len(arguments)
             t == Tails(arguments)
             h == Heads(arguments)
  <2>1. N \in Nat
    BY <1>1
  <2> HIDE DEF N
  <2>2. N = Len(arguments)
    BY DEF N
  <2>3. \A i \in 1..N : HeadWord(arguments, i) \in [1..32 -> Byte]
    BY <1>1, <2>1, <2>2, Laid
  <2>4. h \in Seq(Seq(Byte))
    <3>1. \A i \in 1..N : HeadWord(arguments, i) \in Seq(Byte)
      BY <2>3, ByteArray, 32 \in Nat
    <3>2. DOMAIN arguments = 1..N
      BY <1>1, <2>2
    <3>3. h \in [1..N -> Seq(Byte)]
      BY <3>1, <3>2 DEF Heads
    <3> HIDE DEF h
    <3> QED BY <2>1, <3>3
  <2>5. t \in Seq(Seq(Byte))
    BY <1>1, <2>1, <2>2, TailOffsets
  <2> HIDE DEF t, h
  <2>6. A \in Seq(Byte) /\ B \in Seq(Byte)
    BY <2>4, <2>5, FlattenedBytes DEF t, h
  <2> HIDE DEF A, B
  <2> QED BY <2>6
<1> HIDE DEF A, B
<1>4. callData = SignatureHash \o (A \o B)
  BY <1>1, <1>2, <1>3, ConcatAssociative
<1>5. callData \in Seq(Byte) /\ Body = A \o B
  BY <1>1, <1>3, <1>4, BodyIs DEF Body
<1> QED BY <1>5 DEF A, B

(* Listing and calling keep it.                                              *)
LEMMA IInvHolds == Spec => []IInv
<1>1. Init => IInv
  <2> SUFFICES ASSUME Init PROVE IInv
    OBVIOUS
  <2>1. arguments = <<>> /\ callData = <<>> /\ MaxArguments \in Nat
    BY CallAssumption DEF Init
  <2>2. <<>> \in Seq(Items) /\ Len(<<>>) <= MaxArguments
    BY <2>1
  <2> QED BY <2>1, <2>2 DEF IInv
<1>2. IInv /\ [Next]_vars => IInv'
  <2> SUFFICES ASSUME IInv, [Next]_vars PROVE IInv'
    OBVIOUS
  <2>1. ASSUME NEW item \in Items, List(item) PROVE IInv'
    <3>1. /\ callData = <<>> /\ callData' = <<>> /\ Len(arguments) < MaxArguments
          /\ arguments' = Append(arguments, item) /\ arguments \in Seq(Items)
          /\ MaxArguments \in Nat
      BY <2>1, CallAssumption DEF List, IInv
    <3>2. arguments' \in Seq(Items) /\ Len(arguments') = Len(arguments) + 1
      BY <3>1
    <3>3. Len(arguments') <= MaxArguments
      <4> DEFINE l == Len(arguments)
      <4>1. l \in Nat /\ l < MaxArguments /\ Len(arguments') = l + 1
        BY <3>1, <3>2
      <4> HIDE DEF l
      <4> QED BY <3>1, <4>1
    <3> QED BY <3>1, <3>2, <3>3 DEF IInv
  <2>2. CASE Call
    BY <2>2 DEF Call, IInv
  <2>3. CASE UNCHANGED vars
    BY <2>3 DEF vars, IInv
  <2> QED BY <2>1, <2>2, <2>3 DEF Next
<1> QED BY <1>1, <1>2, PTL DEF Spec

(* TypeOK: the call data are bytes, whole words behind the signature.        *)
THEOREM Typed == Spec => []TypeOK
<1>1. IInv => TypeOK
  <2> SUFFICES ASSUME IInv PROVE TypeOK
    OBVIOUS
  <2>1. CASE callData = <<>>
    <3>1. 1..Len(callData) = {}
      BY <2>1
    <3> QED BY <2>1, <3>1 DEF TypeOK, IInv
  <2>2. CASE callData # <<>>
    <3>1. /\ callData \in Seq(Byte)
          /\ Body = FlattenSeq(Heads(arguments)) \o FlattenSeq(Tails(arguments))
      BY <2>2, BodyLaid
    <3>2. arguments \in Seq(Items) /\ Len(arguments) \in Nat
      BY DEF IInv
    <3>3. Len(Body) % 32 = 0
      BY <3>1, <3>2, Laid
    <3>4. \A i \in 1..Len(callData) : callData[i] \in Byte
      BY <3>1, ElementOfSeq
    <3> QED BY <3>3, <3>4 DEF TypeOK, IInv
  <2> QED BY <2>1, <2>2
<1> QED BY <1>1, IInvHolds, PTL

(* The contract reads every argument as it was passed, as long as the call   *)
(* data behind the signature stay below 256 bytes.                           *)
THEOREM ShortCallsArrive == Spec => []ShortArgumentsArrive
<1>1. IInv => ShortArgumentsArrive
  <2> SUFFICES ASSUME IInv, Len(Body) < 256, callData # <<>>, NEW i \in DOMAIN arguments
               PROVE  Argument(arguments[i], Body, i - 1) = arguments[i]
    BY DEF ShortArgumentsArrive, ArgumentsArrive
  <2>1. Body = FlattenSeq(Heads(arguments)) \o FlattenSeq(Tails(arguments))
    BY BodyLaid
  <2> DEFINE N == Len(arguments)
  <2>2. arguments \in Seq(Items) /\ N \in Nat /\ i \in 1..N
    BY DEF IInv
  <2>3. N = Len(arguments)
    OBVIOUS
  <2> HIDE DEF N
  <2> QED BY <2>1, <2>2, <2>3, Arrives
<1> QED BY <1>1, IInvHolds, PTL
=============================================================================
