------------------------------- MODULE MCJson -------------------------------
(***************************************************************************)
(* The documents that are worked with, and the texts that are only read:   *)
(* all short sequences of the bytes that the parser tells apart, whether   *)
(* they are JSON or not.                                                   *)
(***************************************************************************)
EXTENDS Json

Upto(n, S) == UNION {[1..k -> S] : k \in 0..n}
Around(a, S, b) == {a \o s \o b : s \in S}

(* [1,1,[]], {"a":1,"A":{}} and [{"a":"b"}].                                 *)
TheEdited == { <<91, 49, 44, 49, 44, 91, 93, 93>>,
               <<123, 34, 97, 34, 58, 49, 44, 34, 65, 34, 58, 123, 125, 125>>,
               <<91, 123, 34, 97, 34, 58, 34, 98, 34, 125, 93>> }

(* Structure, the mark of UTF-8 and blanks.                                  *)
Anything ==
    Upto(3, {32, Quote, Comma, 49, OpenArray, CloseArray, OpenObject, CloseObject})
    \cup Around(<<239, 187, 191>>, Upto(2, {32, 49}), <<>>)
    \cup Around(<<13, 10>>, {null_text, true_text, false_text, <<110, 117>>}, <<9>>)

SomeNumbers ==
    Upto(4, {Minus, Plus, Point, 48, 49, 101})
    \cup { <<49, 50, 51, 52, 53, 54, 55>>, <<Minus, 49, 50, 56>>, <<Minus, 49, 50, 57>>,
           <<49, 101, 50, 48>>, <<49, Point, 50, 51, 101, Minus, 57>>, <<48, Point, 48, 48, 49, 50>> }

SomeStrings == Around(<<Quote>>, Upto(3, {Quote, Backslash, Slash, 98, 110, 1, 195, 117}), <<Quote>>)

(* Escaped code units, and pairs of them.                                    *)
Units == { <<48, 48, 52, 49>>, <<48, 48, 69, 57>>, <<50, 48, 97, 99>>, <<100, 56, 51, 100>>,
           <<68, 69, 48, 48>>, <<48, 48, 48, 48>>, <<48, 48, 120, 49>> }
Escapes == {<<>>} \cup Around(<<Backslash, 117>>, Units, <<>>)
SomeEscapes == {<<Quote>> \o u \o v \o <<Quote>> : u, v \in Escapes}

(* Lists of parts, one and two levels deep.                                  *)
Parts == Upto(2, {OpenArray, CloseArray, OpenObject, CloseObject, 49})
           \cup { <<91, 91, 93, 93>>, <<91, 91, 91, 93, 93, 93>>, <<123, 34, 34, 58, 91, 93, 125>> }
SomeLists ==
    Around(<<OpenArray>>, Parts, <<CloseArray>>)
    \cup {<<OpenArray>> \o x \o <<Comma, 32>> \o x \o <<CloseArray>> : x \in Parts}
    \cup Around(<<OpenObject, Quote, Quote, Colon>>, Parts, <<CloseObject>>)
    \cup {<<OpenObject, Quote, 97, Quote, Colon>> \o x \o <<Comma, Quote, 65, Quote, 32, Colon>>
            \o x \o <<CloseObject>> : x \in Parts}

TheTexts   == TheEdited \cup Anything \cup SomeNumbers \cup SomeStrings \cup SomeEscapes \cup SomeLists
TheNames   == {<<97>>, <<65>>}
TheNumbers == {[m |-> 25, e |-> -7]}
TheStrings == {<<99>>, <<Quote, 10, 1, 195>>}
=============================================================================
