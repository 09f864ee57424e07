-------------------------------- MODULE Abi --------------------------------
(* ABIEncoder and ContractCall::AsData: the arguments of a contract call.    *)
EXTENDS Bytes, SequencesExt

CONSTANT Items  \* the items an application makes, those in arrays among them

ARGUMENT_LENGTH == 32

(* EncodableItem: its type, its bytes, its children.                         *)
Value(type, bytes)   == [type |-> type, bytes |-> bytes, children |-> <<>>]
ItemArray(children)  == [type |-> "ItemArray", bytes |-> <<>>,
                         children |-> children]

(* What the constructors make of a number, a flag and an address: one word.  *)
IsWord(item) ==
    /\ item.bytes \in Seq(Byte)
    /\ item = Value(item.type, item.bytes)
    /\ \/ /\ item.type = "UnsignedInt" /\ Len(item.bytes) <= ARGUMENT_LENGTH
          /\ item.bytes # <<>> => item.bytes[1] # 0
       \/ item.type = "Bool" /\ Len(item.bytes) = 1
       \/ item.type = "Address" /\ Len(item.bytes) = 20

IsText(item) ==
    /\ item.type \in {"Binary", "String"}
    /\ item.bytes \in Seq(Byte)
    /\ item = Value(item.type, item.bytes)

(* Arrays are arrays of words: others are laid out wrongly, see README.      *)
IsArray(item) ==
    /\ item.type = "ItemArray"
    /\ item.children \in Seq({child \in Items : IsWord(child)})
    /\ item = ItemArray(item.children)

ASSUME ItemsAssumption ==
    \A item \in Items : IsWord(item) \/ IsText(item) \/ IsArray(item)

leftPad(type) == type \in {"Bool", "UnsignedInt", "Address"}

isDynamic(argument) == argument.type \in {"ItemArray", "Binary", "String"}

Zeros(n) == [i \in 1..n |-> 0]

(* pad(argument, value) with left: the value at the end of the first word.   *)
pad(argument, value) ==
    LET start == ARGUMENT_LENGTH - Len(value)
    IN  [i \in DOMAIN argument |->
            IF i \in start + 1..ARGUMENT_LENGTH THEN value[i - start]
                                                ELSE argument[i]]

(* padx(argument, value) with left: byte i from the end goes to start - i,   *)
(* where start is already the first byte of a value of this length.          *)
padx(argument, value) ==
    LET start == ARGUMENT_LENGTH - Len(value)
    IN  [i \in DOMAIN argument |->
            IF i \in start + 2 - Len(value)..start + 1
            THEN value[Len(value) - (start + 1 - i)] ELSE argument[i]]

\* A broken twin of the next definition.
exactVectorSize(item) ==
    IF item.type = "ItemArray"
    THEN ARGUMENT_LENGTH + Len(item.children) * ARGUMENT_LENGTH
    ELSE IF item.type \in {"Binary", "String"}
    THEN ARGUMENT_LENGTH + Len(item.bytes)
    ELSE ARGUMENT_LENGTH

getVectorSize(item) ==
    IF item.type = "ItemArray"
    THEN ARGUMENT_LENGTH + Len(item.children) * ARGUMENT_LENGTH
    ELSE IF item.type \in {"Binary", "String"}
    THEN ARGUMENT_LENGTH + (Len(item.bytes) \div ARGUMENT_LENGTH + 1) * ARGUMENT_LENGTH
    ELSE ARGUMENT_LENGTH

(* `value' copied into the array from the 0-based offset on.  What the loop  *)
(* of Encode writes behind the end of the array is undefined behaviour; here *)
(* it is without effect, the mildest outcome.                                *)
Write(array, offset, value) ==
    [i \in DOMAIN array |->
        IF i \in offset + 1..offset + Len(value) THEN value[i - offset]
                                                 ELSE array[i]]

\* A broken twin of the next definition: the first child covers the size.
WriteFromStart(array, parts) ==
    LET upTo[n \in 0..Len(parts)] ==
            IF n = 0 THEN array
            ELSE Write(upTo[n - 1], (n - 1) * ARGUMENT_LENGTH, parts[n])
    IN  upTo[Len(parts)]

(* The loop of Encode over the encoded children.                             *)
WriteAll(array, parts) ==
    LET upTo[n \in 0..Len(parts)] ==
            IF n = 0 THEN array
            ELSE Write(upTo[n - 1], n * ARGUMENT_LENGTH, parts[n])
    IN  upTo[Len(parts)]

(* ABIEncoder::Encode.                                                       *)
Encode[item \in Items] ==
    LET encoded == Zeros(getVectorSize(item))
        parts   == [n \in DOMAIN item.children |-> Encode[item.children[n]]]
    IN  IF leftPad(item.type) THEN pad(encoded, item.bytes)
        ELSE IF item.type = "ItemArray"
        THEN WriteAll(pad(encoded, size_to_bytes(Len(item.children))), parts)
        ELSE Write(pad(encoded, size_to_bytes(Len(item.bytes))),
                   ARGUMENT_LENGTH, item.bytes)

(* ContractCall::AsData.                                                     *)
Head32(argument) ==
    IF isDynamic(argument) THEN ARGUMENT_LENGTH ELSE Len(Encode[argument])

\* Digits to the base 1 only add up.
Sum(f) == Digits(1, f)

AsData(signatureHash, arguments) ==
    LET params == [i \in DOMAIN arguments |-> Encode[arguments[i]]]
        heads  == Sum([i \in DOMAIN arguments |-> Head32(arguments[i])])
        tail(i) == IF isDynamic(arguments[i]) THEN params[i] ELSE <<>>
        dataPosition(i) == heads + Sum([j \in 1..i - 1 |-> Len(tail(j))])
        head(i) == IF isDynamic(arguments[i])
                   THEN padx(Zeros(ARGUMENT_LENGTH),
                             size_to_bytes(dataPosition(i)))
                   ELSE params[i]
    IN  signatureHash \o FlattenSeq([i \in DOMAIN arguments |-> head(i)])
                      \o FlattenSeq([i \in DOMAIN arguments |-> tail(i)])
=============================================================================
