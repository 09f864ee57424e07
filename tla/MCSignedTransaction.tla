------------------------ MODULE MCSignedTransaction ------------------------
(* A uint32_t of two bytes, so that its end is within reach.                 *)
EXTENDS SignedTransaction

Address(last) == [i \in 1..20 |-> IF i = 20 THEN last ELSE 0]
Calldata(n) == [i \in 1..n |-> 7]

(* 32749 is the last id whose recovery values fit in two bytes, 393 and 137  *)
(* are the same modulo 256, 32764 is an id whose recovery values come out as *)
(* 27 and 28, and 65673 is 137 modulo 65536.                                 *)
AllChains   == {0, 1, 137, 393, 32749, 32764, 65673}
SomeChains  == {1, 393, 32749, 32764, 65673}

(* Data around every change of form: no byte, the number zero, one byte that *)
(* is its own form or is not, 55 and 56 bytes, 255 and 256 bytes; with 17    *)
(* bytes the whole transaction has 55 bytes or a few more or less.           *)
SomeData ==
    {<<>>, <<0>>, <<127>>, <<128>>, <<0, 0>>} \cup
    {Calldata(n) : n \in {17, 55, 56, 255, 256}}

SomeTransactions ==
    [nonce: {0, 127, 128, 300}, gasPrice: {<<>>, <<0, 200>>, <<1, 0>>},
     gasLimit: {21000}, address: {Address(0), Address(5)},
     value: {<<0>>, <<256>>}, data: SomeData]

SomeHalves == {<<1, 2>>, <<0, 200>>, <<0, 5>>}
=============================================================================
