----------------------------- MODULE BigNumber -----------------------------
(* Shared/BigNumber.cpp: numbers as words, read from hexadecimal text and    *)
(* printed in hexadecimal or decimal, and a BigNumber variable of an         *)
(* application, set again and again from what the constructors take.  A      *)
(* character is a number: 0..15 for the digits, then x and the blank.        *)
EXTENDS Bytes, SequencesExt

X     == 16
Blank == 17
Digit == 0..15

(* How many numbers have so many hexadecimal digits.                         *)
HexSpan(count) == 2^(4 * count)

CONSTANTS WordDigits,  \* hexadecimal digits of a word: four for uint16_t
          LongMax,     \* the greatest long
          Uints,       \* values of type uint32_t
          Words,       \* vectors of words
          Texts        \* hexadecimal numbers: their blanks, prefix and digits

WordBase == HexSpan(WordDigits)
UintMax  == WordBase * WordBase - 1  \* a uint32_t is two words

(* A word is some bytes; a text has blanks or a prefix in front, not both.   *)
ASSUME WordAssumption ==
    /\ WordDigits \in Nat \ {0} /\ WordDigits % 2 = 0 /\ LongMax \in Nat
    /\ Uints \subseteq 0..UintMax
    /\ Words \subseteq Seq(0..WordBase - 1)
    /\ \A t \in Texts : /\ t.blanks \in Seq({Blank})
                        /\ t.prefix \in {<<>>, <<0, X>>}
                        /\ t.digits \in Seq(Digit)
                        /\ t.blanks = <<>> \/ t.prefix = <<>>

-----------------------------------------------------------------------------
(* Text.                                                                     *)

IsBlank(c) == c = Blank

(* string_info: a piece of a string, begin being 0-based.                    *)
Info(text, begin, length) ==
    [value |-> text, begin |-> begin, length |-> length]

Piece(info) == SubSeq(info.value, info.begin + 1, info.begin + info.length)

ltrim(v) ==
    LET solid == {i \in 1..v.length : ~IsBlank(v.value[i])}
        first == CHOOSE i \in solid : \A j \in solid : i <= j
    IN  IF solid = {} THEN v
        ELSE Info(v.value, first - 1, v.length - (first - 1))

(* The prefix is looked for behind the blanks, and then two characters are   *)
(* dropped from the untrimmed string.                                        *)
remove_hex_prefix(v) ==
    LET trimmed == ltrim(v)
    IN  IF trimmed.length < 2 THEN v
        ELSE IF SubSeq(Piece(trimmed), 1, 2) = <<0, X>>
        THEN Info(v.value, v.begin + 2, v.length - 2)
        ELSE trimmed

(* strtol(text, nullptr, 16): blanks, a prefix if a digit follows it, and    *)
(* the digits up to the first other character.                               *)
strtol16(text) ==
    LET solid  == Piece(ltrim(Info(text, 0, Len(text))))
        digits == IF Len(solid) > 2 /\ SubSeq(solid, 1, 2) = <<0, X>> /\ solid[3] \in Digit
                  THEN SubSeq(solid, 3, Len(solid)) ELSE solid
        end    == CHOOSE n \in 0..Len(digits) :
                     /\ \A i \in 1..n : digits[i] \in Digit
                     /\ n < Len(digits) => digits[n + 1] \notin Digit
    IN  Digits(16, SubSeq(digits, 1, end))

-----------------------------------------------------------------------------
(* Constructors: the words of the number, the highest first.                 *)

\* A broken twin of the next definition.
FromUintInOneWord(value) == <<value>>

FromUint(value) ==
    IF value >= WordBase THEN <<value \div WordBase, value % WordBase>>
                         ELSE <<value % WordBase>>

\* A broken twin of the next definition.
FromHexFromTheFront(text) ==
    LET letters == Piece(remove_hex_prefix(Info(text, 0, Len(text))))
        count   == (Len(letters) + WordDigits - 1) \div WordDigits
        end(k)  == IF k < count THEN k * WordDigits ELSE Len(letters)
    IN  [k \in 1..count |-> strtol16(SubSeq(letters, (k - 1) * WordDigits + 1, end(k)))]

(* Words are cut off from the end of the text; the first has what is left.   *)
FromHex(text) ==
    LET letters == Piece(remove_hex_prefix(Info(text, 0, Len(text))))
        count   == (Len(letters) + WordDigits - 1) \div WordDigits
        end(k)  == Len(letters) - (count - k) * WordDigits
        begin(k) == IF end(k) > WordDigits THEN end(k) - WordDigits + 1 ELSE 1
    IN  [k \in 1..count |-> strtol16(SubSeq(letters, begin(k), end(k)))]

(* GenerateHexString: every word with all its digits.                        *)
HexString(data) ==
    [i \in 1..WordDigits * Len(data) |->
        LET word  == data[(i - 1) \div WordDigits + 1]
            place == (WordDigits - 1) - ((i - 1) % WordDigits)
        IN  (word \div HexSpan(place)) % 16]

-----------------------------------------------------------------------------
(* Decimal strings, the highest digit first.                                 *)

removeLeadingZeros(str) == truncate(str)

(* Divided by ten as often as a quotient is left.                            *)
intToChar(number) ==
    LET temp[i \in 0..number + 1] ==
            IF i = 0 THEN number ELSE temp[i - 1] \div 10
        length == CHOOSE n \in 1..number + 1 :
                     /\ temp[n] = 0
                     /\ n > 1 => temp[n - 1] # 0
    IN  [i \in 1..length |-> temp[length - i] % 10]

(* Columns of sums, the lowest first, with the carries passed on.            *)
Carried(columns) ==
    LET column[i \in 1..Len(columns)] ==
            columns[i] + (IF i = 1 THEN 0 ELSE column[i - 1] \div 10)
    IN  Reverse([i \in 1..Len(columns) |->
                    IF i < Len(columns) THEN column[i] % 10 ELSE column[i]])

(* Digit i from the end of str, from 0; no digit counts as zero.             *)
FromEnd(str, i) == IF i < Len(str) THEN str[Len(str) - i] ELSE 0

addStrings(lhs, rhs) ==
    LET length == (IF Len(lhs) > Len(rhs) THEN Len(lhs) ELSE Len(rhs)) + 1
    IN  removeLeadingZeros(Carried(
            [i \in 1..length |-> FromEnd(lhs, i - 1) + FromEnd(rhs, i - 1)]))

\* A broken twin of the next definition.
multiplyStringsDigitwise(lhs, rhs) ==
    LET length == Len(lhs) + Len(rhs) + 1
        result[n \in 0..Len(lhs)] ==
            [i \in 1..length |->
                IF n = 0 THEN 0
                ELSE result[n - 1][i]
                     + (IF i >= n THEN (FromEnd(lhs, n - 1) * FromEnd(rhs, i - n)) % 10 ELSE 0)]
    IN  removeLeadingZeros(Carried(result[Len(lhs)]))

(* The columns behind the first n digits of lhs.  A product of two digits is *)
(* split at once: the unit goes to the column of both places, the ten to the *)
(* next.                                                                     *)
multiplyStrings(lhs, rhs) ==
    LET length == Len(lhs) + Len(rhs) + 1
        val(ia, ib) == FromEnd(lhs, ia) * FromEnd(rhs, ib)
        result[n \in 0..Len(lhs)] ==
            [i \in 1..length |->
                IF n = 0 THEN 0
                ELSE result[n - 1][i]
                     + (IF i >= n THEN val(n - 1, i - n) % 10 ELSE 0)
                     + (IF i > n THEN val(n - 1, i - n - 1) \div 10 ELSE 0)]
    IN  removeLeadingZeros(Carried(result[Len(lhs)]))

(* Each word times the factor as often as words follow, added up.            *)
GenerateDecimalString(data) ==
    LET factor == intToChar(WordBase)
        weighted(i) ==
            LET times[j \in 0..Len(data) - i] ==
                    IF j = 0 THEN intToChar(data[i])
                    ELSE multiplyStrings(times[j - 1], factor)
            IN  times[Len(data) - i]
        sum[i \in 0..Len(data)] ==
            IF i = 0 THEN <<0>> ELSE addStrings(sum[i - 1], weighted(i))
    IN  sum[Len(data)]

(* BigNumber::Bytes, where a word is WordDigits / 2 bytes.                   *)
BytesOf(data) ==
    FlattenSeq([i \in DOMAIN data |-> BigEndian(data[i], WordDigits \div 2)])

(* THROW instead of a result.                                                *)
Threw == -1

\* A broken twin of the next definition.
ToUInt32InHex(data) ==
    IF Len(data) > 2 THEN Threw ELSE Digits(16, GenerateDecimalString(data))

(* ToUInt32: strtol of the decimal string stops at the greatest long.        *)
ToUInt32(data) ==
    IF Len(data) > 2 THEN Threw
    ELSE IF Len(data) = 0 THEN 0
    ELSE LET value == Digits(10, GenerateDecimalString(data))
         IN  (IF value > LongMax THEN LongMax ELSE value) % (UintMax + 1)
-----------------------------------------------------------------------------
(* The variable.                                                             *)
VARIABLES data,       \* BigNumber::data
          hexString,  \* BigNumber::hexString
          meant       \* history: the number that was given

vars == <<data, hexString, meant>>

(* BigNumber(): no word at all.                                              *)
Init == data = <<>> /\ hexString = <<>> /\ meant = 0

(* operator= of a number just constructed.                                   *)
Becomes(words, number) ==
    /\ data' = words
    /\ hexString' = HexString(words)
    /\ meant' = number

SetUint(value) == Becomes(FromUint(value), value)
SetWords(words) == Becomes(words, Digits(WordBase, words))
SetText(t) == Becomes(FromHex(t.blanks \o t.prefix \o t.digits),
                      Digits(16, t.digits))

Next == \/ \E value \in Uints : SetUint(value)
        \/ \E words \in Words : SetWords(words)
        \/ \E t \in Texts : SetText(t)

Spec == Init /\ [][Next]_vars

-----------------------------------------------------------------------------
(* Words stay words; every byte of Bytes is a byte.                          *)
TypeOK ==
    /\ \A i \in DOMAIN data : data[i] \in 0..WordBase - 1
    /\ \A i \in DOMAIN BytesOf(data) : BytesOf(data)[i] \in Byte

(* The words, the bytes and the printed text all stand for the number that   *)
(* was given, and a number read back from its own text has the same words.   *)
KeepsItsValue ==
    /\ Digits(WordBase, data) = meant
    /\ Number(BytesOf(data)) = meant
    /\ Digits(16, hexString) = meant
    /\ FromHex(hexString) = data

(* GenerateDecimalString prints every number above zero, digit by digit and  *)
(* without leading zeros.  Of zero this says nothing.                        *)
NonZeroDecimals ==
    meant > 0 =>
        LET decimal == GenerateDecimalString(data)
        IN  /\ \A i \in DOMAIN decimal : decimal[i] \in 0..9
            /\ Digits(10, decimal) = meant
            /\ decimal # <<>> /\ decimal[1] # 0

(* BigNumber.h:114.  GenerateDecimalString generates "a decimal              *)
(* representation of the number", which has at least one digit.              *)
DecimalHasDigits == GenerateDecimalString(data) # <<>>

(* Up to two words ToUInt32 returns the number, or the greatest long for     *)
(* what is beyond it; above two words it throws.                             *)
ConvertsOrSaturates ==
    ToUInt32(data) = IF Len(data) > 2 THEN Threw
                     ELSE IF meant <= LongMax THEN meant
                     ELSE LongMax

(* BigNumber.h:110.  ToUInt32 "generates an 32-bit integer value" and throws *)
(* only above four bytes, whatever the width of long.                        *)
UInt32IsTheNumber == Len(data) <= 2 => ToUInt32(data) = meant
=============================================================================
