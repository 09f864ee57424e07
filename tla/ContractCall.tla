---------------------------- MODULE ContractCall ----------------------------
(* A ContractCall and the contract that gets it.  The application lists the  *)
(* arguments (ENC); AsData turns them into call data; the contract reads     *)
(* them back by the types in the signature.                                  *)
EXTENDS Abi

CONSTANTS MaxArguments,   \* bound on the arguments of a call
          SignatureHash   \* the four bytes that name the function

ASSUME CallAssumption == MaxArguments \in Nat /\ SignatureHash \in Seq(Byte)

VARIABLES arguments,  \* those listed so far
          callData    \* what AsData returned, or nothing yet

vars == <<arguments, callData>>

Init == arguments = <<>> /\ callData = <<>>

List(item) ==
    /\ callData = <<>> /\ Len(arguments) < MaxArguments
    /\ arguments' = Append(arguments, item)
    /\ UNCHANGED callData

Call ==
    /\ callData = <<>>
    /\ callData' = AsData(SignatureHash, arguments)
    /\ UNCHANGED arguments

Next == Call \/ \E item \in Items : List(item)

Spec == Init /\ [][Next]_vars

-----------------------------------------------------------------------------
(* The contract.                                                             *)

Body == SubSeq(callData, Len(SignatureHash) + 1, Len(callData))

(* The n-th word, from 0, of data b; the zero word behind its end.           *)
Word(b, n) == [i \in 1..32 |-> IF 32 * n + i <= Len(b) THEN b[32 * n + i] ELSE 0]

WordNumber(b, n) == Number(Word(b, n))

(* A static argument in the n-th word, as EncodableItem would have it.       *)
Static(type, b, n) ==
    [type |-> type, children |-> <<>>,
     bytes |-> IF type = "UnsignedInt" THEN truncate(Word(b, n))
               ELSE SubSeq(Word(b, n), IF type = "Address" THEN 13 ELSE 32, 32)]

Unreadable == Value("none", <<>>)

(* The value of the shape of `like' whose head is the n-th word of b.  The   *)
(* head of a dynamic value says where it is, from the start of b, and there  *)
(* its size comes first.                                                     *)
Argument(like, b, n) ==
    LET at    == WordNumber(b, n)
        there == SubSeq(b, at + 1, Len(b))
        size  == WordNumber(there, 0)
        rest  == SubSeq(there, 33, Len(there))
    IN  IF ~isDynamic(like) THEN Static(like.type, b, n)
        ELSE IF at + 32 > Len(b) \/ size > Len(rest) THEN Unreadable
        ELSE IF like.type # "ItemArray"
        THEN Value(like.type, SubSeq(rest, 1, size))
        ELSE IF size # Len(like.children) THEN Unreadable
        ELSE ItemArray([i \in 1..size |-> Static(like.children[i].type, rest, i - 1)])

-----------------------------------------------------------------------------
(* Call data are words behind the signature.                                 *)
TypeOK ==
    /\ Len(arguments) <= MaxArguments
    /\ \A i \in 1..Len(callData) : callData[i] \in Byte
    /\ callData # <<>> => Len(Body) % 32 = 0

(* The contract reads every argument as it was passed: ABIEncoder.h promises *)
(* "an item and its sub-content" in a form the EVM understands.              *)
ArgumentsArrive ==
    callData # <<>> =>
        \A i \in DOMAIN arguments :
            Argument(arguments[i], Body, i - 1) = arguments[i]

(* The same for calls whose offsets all fit in one byte.                     *)
ShortArgumentsArrive == Len(Body) < 256 => ArgumentsArrive
=============================================================================
