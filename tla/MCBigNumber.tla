---------------------------- MODULE MCBigNumber -----------------------------
(* Words of two hexadecimal digits; numbers of up to three words.            *)
EXTENDS BigNumber

SomeUints == {0, 1, 9, 10, 99, 255, 256, 1000, 4095, 65535}
SomeWords == UNION {[1..n -> {0, 1, 99, 100, 255}] : n \in 0..3}

DigitsOf(D, lengths) == UNION {[1..k -> D] : k \in lengths}

SomeTexts ==
    [blanks: {<<>>}, prefix: {<<>>, <<0, X>>},
     digits: DigitsOf({0, 1, 9, 15}, 0..3) \cup DigitsOf({0, 10}, 4..6)]
        \cup [blanks: {<<Blank>>}, prefix: {<<>>}, digits: DigitsOf({0, 15}, 0..4)]

=============================================================================
