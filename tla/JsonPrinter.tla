----------------------------- MODULE JsonPrinter -----------------------------
(***************************************************************************)
(* The printer of Shared/cJSON.c.  A print buffer is the bytes written so  *)
(* far, its length, the offset that the next bytes go to, and the flags;   *)
(* left is the number of reallocations that succeed.  inside tells whether *)
(* all that was written, with a zero behind it, fit into the buffer.       *)
(***************************************************************************)
EXTENDS JsonParser

CONSTANTS
  IntMax,       \* INT_MAX
  Precision     \* the digits that a number is printed with at first: 15

printbuffer == [text : Text, length : Nat, offset : Nat, depth : Nat, noalloc : BOOLEAN,
                format : BOOLEAN, left : Nat, ok : BOOLEAN, inside : BOOLEAN]

Broken(p) == [p EXCEPT !.ok = FALSE]

(* Room for that many bytes more: if need be, twice as much as is needed.    *)
ensure[p \in printbuffer, needed \in Nat] ==
    IF ~p.ok \/ (p.length > 0 /\ p.offset >= p.length) THEN Broken(p)
    ELSE IF needed + p.offset + 1 <= p.length THEN p
    ELSE IF p.noalloc \/ p.left = 0 THEN Broken(p)
    ELSE [p EXCEPT !.length = 2 * (needed + p.offset + 1), !.left = @ - 1]

(* Bytes that are written at the offset, after room was made for needed.     *)
Written[q \in printbuffer, bytes \in Text] ==
    IF ~q.ok THEN q
    ELSE [q EXCEPT !.text = SubSeq(@, 1, q.offset) \o bytes,
                   !.inside = @ /\ q.offset + Len(bytes) + 1 <= q.length]

Write(p, needed, bytes) == Written[ensure[p, needed], bytes]

update_offset(p) == [p EXCEPT !.offset = Len(p.text)]
Moved[q \in printbuffer, n \in Nat] == IF q.ok THEN [q EXCEPT !.offset = @ + n] ELSE q
WriteOn(p, needed, bytes) == Moved[Write(p, needed, bytes), Len(bytes)]

-----------------------------------------------------------------------------
(* Strings and numbers.                                                      *)

Escape == [c \in {Quote, Backslash, 8, 12, 10, 13, 9} |->
             CASE c = 8 -> 98 [] c = 12 -> 102 [] c = 10 -> 110 [] c = 13 -> 114 [] c = 9 -> 116
               [] OTHER -> c]

HexDigit(n) == IF n < 10 THEN 48 + n ELSE 87 + n

EscapedByte(c) ==
    IF c \in DOMAIN Escape THEN <<Backslash, Escape[c]>>
    ELSE IF c < 32 THEN <<Backslash, 117, 48, 48, HexDigit(c \div 16), HexDigit(c % 16)>>
    ELSE <<c>>

EscapedText[s \in Text] == IF s = <<>> THEN <<>> ELSE EscapedByte(Head(s)) \o EscapedText[Tail(s)]

\* A broken twin of EscapeCharacters: all escapes are taken for short ones.
EscapeCharactersShort(c) == IF c \in DOMAIN Escape \/ c < 32 THEN 1 ELSE 0

\* Another one: all escapes are taken for long ones.
EscapeCharactersLong(c) == IF c \in DOMAIN Escape \/ c < 32 THEN 5 ELSE 0

(* How many bytes more than one the byte takes.                              *)
EscapeCharacters(c) == IF c \in DOMAIN Escape THEN 1 ELSE IF c < 32 THEN 5 ELSE 0

OutputLength[s \in Text] ==
    IF s = <<>> THEN 0 ELSE 1 + EscapeCharacters(Head(s)) + OutputLength[Tail(s)]

(* string is optional.                                                       *)
print_string_ptr(string, p) ==
    IF string = <<>> THEN Write(p, 3, <<Quote, Quote>>)
    ELSE Write(p, OutputLength[string[1]] + 3, <<Quote>> \o EscapedText[string[1]] \o <<Quote>>)

DecimalText[n \in Nat] == IF n < 10 THEN <<48 + n>> ELSE Append(DecimalText[n \div 10], 48 + (n % 10))

Zeros(n) == [i \in 1..n |-> 48]
Abs(n)   == IF n < 0 THEN -n ELSE n

(* printf's %1.15g of a number with at most that many digits.                *)
General(num) ==
    LET digits == DecimalText[Abs(num.m)]
        count  == Len(digits)
        x      == count - 1 + num.e            \* the exponent of the first digit
        sign   == IF num.m < 0 THEN <<Minus>> ELSE <<>>
        fixed  == IF num.e >= 0 THEN digits \o Zeros(num.e)
                  ELSE IF x >= 0 THEN SubSeq(digits, 1, x + 1) \o <<Point>> \o SubSeq(digits, x + 2, count)
                  ELSE <<48, Point>> \o Zeros(-x - 1) \o digits
        one    == IF count = 1 THEN digits ELSE <<digits[1], Point>> \o Tail(digits)
        power  == IF Abs(x) < 10 THEN <<48>> \o DecimalText[Abs(x)] ELSE DecimalText[Abs(x)]
    IN  sign \o IF x \in -4..Precision - 1 THEN fixed
                ELSE one \o <<101, IF x < 0 THEN Minus ELSE Plus>> \o power

Power10[e \in Nat] == IF e = 0 THEN 1 ELSE 10 * Power10[e - 1]

(* valueint: the number without its fraction, and no further than an int.    *)
valueint(num) ==
    LET digits == Len(DecimalText[Abs(num.m)]) + num.e
        whole  == IF digits <= 0 THEN 0
                  ELSE IF digits > 9 THEN IntMax
                  ELSE IF num.e >= 0 THEN Abs(num.m) * Power10[num.e] ELSE Abs(num.m) \div Power10[-num.e]
    IN  IF num.m >= 0 THEN IF whole >= IntMax THEN IntMax ELSE whole
        ELSE IF whole >= IntMax + 1 THEN -IntMax - 1 ELSE -whole

NumberText(num) ==
    LET int == valueint(num)
    IN  IF num = Normal[int, 0]
        THEN IF int < 0 THEN <<Minus>> \o DecimalText[-int] ELSE DecimalText[int]
        ELSE General(num)

print_number(num, p) == WriteOn(p, Len(NumberText(num)) + 1, NumberText(num))

-----------------------------------------------------------------------------
(* Values.                                                                   *)

Deeper(p, n) == [p EXCEPT !.depth = @ + n]
Tabs(n)      == [i \in 1..n |-> 9]

(* A value that is no list, or the first byte of one.                        *)
PrintBegun[item \in cJSON, p \in printbuffer] ==
    CASE item.type = "NULL"   -> Write(p, 5, null_text)
      [] item.type = "False"  -> Write(p, 6, false_text)
      [] item.type = "True"   -> Write(p, 5, true_text)
      [] item.type = "Number" -> print_number(item.number, p)
      [] item.type = "Raw"    -> IF item.valuestring = <<>> THEN Broken(p)
                                 ELSE Write(p, Len(item.valuestring[1]) + 1, item.valuestring[1])
      [] item.type = "String" -> print_string_ptr(item.valuestring, p)
      [] item.type = "Array"  -> Deeper(WriteOn(p, 1, <<OpenArray>>), 1)
      [] item.type = "Object" ->
           Deeper(IF p.format THEN WriteOn(p, 3, <<OpenObject, 10>>) ELSE WriteOn(p, 2, <<OpenObject>>), 1)
      [] OTHER                -> Broken(p)

(* The last bytes of a list.                                                 *)
PrintEnded[type \in Types \cup {"Invalid", "Free"}, p \in printbuffer] ==
    CASE type = "Array"  -> Deeper(Write(p, 2, <<CloseArray>>), -1)
      [] type = "Object" ->
           Deeper(IF p.format THEN Write(p, p.depth + 1, Append(Tabs(p.depth - 1), CloseObject))
                  ELSE Write(p, 2, <<CloseObject>>), -1)
      [] OTHER           -> p

(* What is printed in an object before the value of an item.                 *)
Indented[p \in printbuffer] == IF p.format THEN WriteOn(p, p.depth, Tabs(p.depth)) ELSE p

Labelled[string \in Seq(Text), p \in printbuffer] ==
    LET name == update_offset(print_string_ptr(string, p))
    IN  IF p.format THEN WriteOn(name, 2, <<Colon, 9>>) ELSE WriteOn(name, 1, <<Colon>>)

Introduced[type \in Containers, string \in Seq(Text), p \in printbuffer] ==
    IF type = "Object" THEN Labelled[string, Indented[p]] ELSE p

(* What is printed after the value, in an array or in an object.             *)
Separated[type \in Containers, more \in BOOLEAN, p \in printbuffer] ==
    LET comma == IF more THEN <<Comma>> ELSE <<>>
        bytes == IF type = "Object" THEN comma \o (IF p.format THEN <<10>> ELSE <<>>)
                 ELSE comma \o (IF p.format THEN <<32>> ELSE <<>>)
    IN  IF ~p.ok \/ (type = "Array" /\ ~more) THEN p ELSE WriteOn(p, Len(bytes) + 1, bytes)

(* The items of a list from one on, with all the lists within.               *)
print_items[heap \in Heap, type \in Types, item \in Pointer, p \in printbuffer] ==
    IF item = NULL \/ ~p.ok THEN p
    ELSE print_items[heap, type, heap[item].next,
           Separated[type, heap[item].next # NULL, update_offset(
             PrintEnded[heap[item].type, print_items[heap, heap[item].type, heap[item].child,
               PrintBegun[heap[item], Introduced[type, heap[item].string, p]]]])]]

print_value[heap \in Heap, item \in Node, p \in printbuffer] ==
    PrintEnded[heap[item].type,
               print_items[heap, heap[item].type, heap[item].child, PrintBegun[heap[item], p]]]

(* A buffer of some length.                                                  *)
Buffer(length, format, noalloc, left) ==
    [text |-> <<>>, length |-> length, offset |-> 0, depth |-> 0, noalloc |-> noalloc,
     format |-> format, left |-> left, ok |-> TRUE, inside |-> TRUE]

cJSON_PrintBuffered(heap, item, prebuffer, fmt, left) ==
    IF left = 0 THEN Broken(Buffer(prebuffer, fmt, FALSE, 0))
    ELSE print_value[heap, item, Buffer(prebuffer, fmt, FALSE, left - 1)]

cJSON_PrintPreallocated(heap, item, length, format) ==
    print_value[heap, item, Buffer(length, format, TRUE, 0)]

(* The text is cut to its length in the end, by one more reallocation.       *)
cJSON_Print(heap, item, format, left) ==
    LET p == cJSON_PrintBuffered(heap, item, 256, format, left)
    IN  IF p.left = 0 THEN Broken(p) ELSE update_offset(p)
=============================================================================
