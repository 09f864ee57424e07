------------------------------- MODULE Bytes -------------------------------
(* Byte arrays and the conversions of Shared/Common.cpp that the encoders    *)
(* use.  A std::vector<uint8_t> is a sequence of numbers below 256.          *)
EXTENDS Integers, Sequences

CONSTANTS UintWidth,  \* sizeof(uint32_t)
          SizeWidth   \* sizeof(size_t)

ASSUME WidthAssumption == UintWidth \in Nat \ {0} /\ SizeWidth \in Nat \ {0}

Byte == 0..255

(* How many numbers have so many bytes.                                      *)
Span(width) == 2^(8 * width)

(* byte_array::truncate: drops the leading zeros.                            *)
truncate(v) ==
    LET first == CHOOSE i \in 1..Len(v) + 1 :
                    /\ \A j \in 1..i - 1 : v[j] = 0
                    /\ i <= Len(v) => v[i] # 0
    IN  SubSeq(v, first, Len(v))

(* v in `width' bytes, the most significant one first; what does not fit is  *)
(* cut off.                                                                  *)
BigEndian(v, width) == [i \in 1..width |-> (v \div Span(width - i)) % 256]

uint_to_bytes(v) == truncate(BigEndian(v, UintWidth))
size_to_bytes(v) == truncate(BigEndian(v, SizeWidth))

(* The arithmetic of uint32_t.                                               *)
AsUint(v) == v % Span(UintWidth)

(* The number that digits stand for, the highest first, and big-endian bytes *)
(* are digits to the base 256: the reference that encoders are compared with.*)
Digits(base, s) ==
    LET upTo[i \in 0..Len(s)] == IF i = 0 THEN 0 ELSE base * upTo[i - 1] + s[i]
    IN  upTo[Len(s)]

Number(v) == Digits(256, v)
=============================================================================
