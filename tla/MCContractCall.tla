--------------------------- MODULE MCContractCall ---------------------------
(* Sizes around a word and, together, around an offset of one byte.          *)
EXTENDS ContractCall

FourBytes == <<1, 2, 3, 4>>

Text(n) == [i \in 1..n |-> 7]
Uint(bytes) == Value("UnsignedInt", bytes)

FlatItems ==
    {Uint(<<>>), Uint(<<1, 0>>), Value("Bool", <<1>>), Value("Bool", <<0>>),
     Value("Address", [i \in 1..20 |-> i - 1])} \cup
    {Value("Binary", Text(n)) : n \in {0, 1, 32, 33}} \cup
    {Value("String", Text(n)) : n \in {5, 31}} \cup
    {ItemArray(<<>>), ItemArray(<<Uint(<<>>), Uint(<<1, 0>>)>>)}

LongItems == {Uint(<<1>>), Value("Binary", Text(100))}
=============================================================================
