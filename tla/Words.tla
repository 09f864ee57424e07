------------------------------- MODULE Words --------------------------------
(* Words and bytes are the sets of the positions of their ones, the lowest   *)
(* bit being 0: words of 64 bits are wider than the integers of the checker. *)
(* What uses an argument often is a function, whose arguments are evaluated  *)
(* once.                                                                     *)
EXTENDS Integers, Sequences, SequencesExt

Byte == SUBSET (0..7)
Word == SUBSET (0..63)

XorW[x \in Word, y \in Word] == (x \ y) \cup (y \ x)

(* The sum modulo the word: the ones of both carry.                          *)
PlusW[bits \in Nat, x \in Word, y \in Word] ==
    IF y = {} THEN x
    ELSE PlusW[bits, (x \ y) \cup (y \ x), {i + 1 : i \in (x \cap y) \ {bits - 1}}]

SumW[bits \in Nat, words \in Seq(Word)] ==
    IF words = <<>> THEN {} ELSE PlusW[bits, Head(words), SumW[bits, Tail(words)]]

Rotl[bits \in Nat, n \in Nat, x \in Word] == {(i + n) % bits : i \in x}
Rotr(bits, n, x) == Rotl[bits, bits - n, x]
ShrW(n, x)       == {i - n : i \in {k \in x : k >= n}}

(* A small number.                                                           *)
WordOf(n) == {k \in 0..30 : (n \div 2^k) % 2 = 1}

(* A word and its bytes, the lowest first.                                   *)
WordBytes(x, bytes) == [i \in 1..bytes |-> {k \in 0..7 : 8 * (i - 1) + k \in x}]
BytesWord(b) == UNION {{8 * (i - 1) + k : k \in b[i]} : i \in DOMAIN b}
=============================================================================
