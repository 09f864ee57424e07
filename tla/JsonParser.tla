------------------------------ MODULE JsonParser ------------------------------
(***************************************************************************)
(* The parser of Shared/cJSON.c.  A parse buffer is the bytes that may be  *)
(* read, the offset, the depth, the memory that items are made in, and     *)
(* whether all went well so far.  Where it did not, what was made for a    *)
(* list is deleted again, and the offset no longer matters.                *)
(***************************************************************************)
EXTENDS JsonItems

CONSTANT
  NestingLimit,     \* CJSON_NESTING_LIMIT
  NumberLength      \* the bytes of number_c_string, without the last: 63

Quote == 34   Backslash == 92   Slash == 47   Comma == 44   Colon == 58
Minus == 45   Plus == 43        Point == 46   Digits10 == 48..57
OpenArray == 91   CloseArray == 93   OpenObject == 123   CloseObject == 125

null_text  == <<110, 117, 108, 108>>
true_text  == <<116, 114, 117, 101>>
false_text == <<102, 97, 108, 115, 101>>

parse_buffer == [content : Text, offset : Nat, depth : Nat, mem : Memory, ok : BOOLEAN]

can_read(b, size) == b.offset + size <= Len(b.content)
can_access_at_index(b, index) == b.offset + index < Len(b.content)
At(b, index) == b.content[b.offset + index + 1]

IsAt(b, byte) == can_access_at_index(b, 0) /\ At(b, 0) = byte
StartsWith(b, word) == can_read(b, Len(word)) /\ \A i \in 1..Len(word) : At(b, i - 1) = word[i]

Failed(b)   == [b EXCEPT !.ok = FALSE]
Skip(b, n)  == [b EXCEPT !.offset = @ + n]

(* Blanks and all below them; at the end, the last byte is read again.       *)
buffer_skip_whitespace[b \in parse_buffer] ==
    IF ~can_access_at_index(b, 0) THEN b
    ELSE IF At(b, 0) > 32 THEN b
    ELSE IF b.offset + 1 = Len(b.content) THEN b
    ELSE buffer_skip_whitespace[Skip(b, 1)]

skip_utf8_bom(b) ==
    IF can_access_at_index(b, 4) /\ StartsWith(b, <<239, 187, 191>>) THEN Skip(b, 3) ELSE b

-----------------------------------------------------------------------------
(* Strings.                                                                  *)

HexValue == [c \in Digits10 \cup 65..70 \cup 97..102 |->
               IF c <= 57 THEN c - 48 ELSE IF c <= 70 THEN c - 55 ELSE c - 87]

(* Four digits from an index on; 0 if one of them is none.                   *)
parse_hex4(content, i) ==
    IF \E n \in 0..3 : content[i + n] \notin DOMAIN HexValue THEN 0
    ELSE 4096 * HexValue[content[i]] + 256 * HexValue[content[i + 1]]
           + 16 * HexValue[content[i + 2]] + HexValue[content[i + 3]]

(* One to four bytes: six bits in each but the first.                        *)
utf8(codepoint) ==
    LET low(n) == 128 + ((codepoint \div 64^n) % 64)
    IN  IF codepoint < 128 THEN <<codepoint>>
        ELSE IF codepoint < 2048 THEN <<192 + (codepoint \div 64), low(0)>>
        ELSE IF codepoint < 65536 THEN <<224 + (codepoint \div 4096), low(1), low(0)>>
        ELSE <<240 + (codepoint \div 262144), low(2), low(1), low(0)>>

\* A broken twin of the next definition: the plane is left out.
SurrogatePairInPlaneZero(first, second) == (first % 1024) * 1024 + (second % 1024)

SurrogatePair(first, second) == 65536 + (first % 1024) * 1024 + (second % 1024)

Bad == [length |-> 0, bytes |-> <<>>]

(* The escape sequence at an index, and the one after it if they are a pair. *)
utf16_literal_to_utf8[content \in Text, i, end \in Nat] ==
    LET first  == parse_hex4(content, i + 2)
        second == parse_hex4(content, i + 8)
    IN  IF end - i < 6 \/ first \in 56320..57343 THEN Bad
        ELSE IF first \notin 55296..56319 THEN [length |-> 6, bytes |-> utf8(first)]
        ELSE IF \/ end - i < 12
                \/ content[i + 6] # Backslash \/ content[i + 7] # 117
                \/ second \notin 56320..57343 THEN Bad
        ELSE [length |-> 12, bytes |-> utf8(SurrogatePair(first, second))]

(* b, f, n, r, t and the bytes that stand for themselves.                    *)
Escaped == [c \in {98, 102, 110, 114, 116, Quote, Backslash, Slash} |->
              CASE c = 98 -> 8 [] c = 102 -> 12 [] c = 110 -> 10 [] c = 114 -> 13 [] c = 116 -> 9
                [] OTHER -> c]

(* The index of the quote that ends the string; beyond the content if none.  *)
StringEnd[content \in Text, i \in Nat] ==
    IF i > Len(content) \/ content[i] = Quote THEN i
    ELSE IF content[i] = Backslash THEN StringEnd[content, i + 2]
    ELSE StringEnd[content, i + 1]

(* What the bytes at an index stand for.                                     *)
FirstAt[content \in Text, i, end \in Nat] ==
    IF content[i] # Backslash THEN [length |-> 1, bytes |-> <<content[i]>>]
    ELSE IF content[i + 1] \in DOMAIN Escaped THEN [length |-> 2, bytes |-> <<Escaped[content[i + 1]]>>]
    ELSE IF content[i + 1] = 117 THEN utf16_literal_to_utf8[content, i, end]
    ELSE Bad

(* The bytes from an index to the end behind those before it, or nothing if  *)
(* an escape is none.                                                        *)
Unescaped[content \in Text, i, end \in Nat, output \in Text] ==
    IF i >= end THEN <<output>>
    ELSE LET first == FirstAt[content, i, end]
         IN  IF first.length = 0 THEN <<>>
             ELSE Unescaped[content, i + first.length, end, output \o first.bytes]

(* What is left of bytes that are read as a string: all before a zero.       *)
CString(bytes) ==
    LET zeros == {i \in DOMAIN bytes : bytes[i] = 0}
    IN  IF zeros = {} THEN bytes
        ELSE SubSeq(bytes, 1, (CHOOSE i \in zeros : \A j \in zeros : i <= j) - 1)

StringUpTo[b \in parse_buffer, item \in Node, end \in Nat, room \in Copy, out \in Seq(Text)] ==
    IF ~room.ok \/ out = <<>> THEN Failed(b)
    ELSE [b EXCEPT !.offset = end,
                   !.mem = [room.mem EXCEPT !.heap[item].type = "String",
                                            !.heap[item].valuestring = <<CString(out[1])>>]]

StringTo[b \in parse_buffer, item \in Node, end \in Nat] ==
    IF end > Len(b.content) THEN Failed(b)
    ELSE StringUpTo[b, item, end, cJSON_strdup[b.mem], Unescaped[b.content, b.offset + 2, end, <<>>]]

parse_string[b \in parse_buffer, item \in Node] ==
    IF ~IsAt(b, Quote) THEN Failed(b)
    ELSE StringTo[b, item, StringEnd[b.content, b.offset + 2]]

-----------------------------------------------------------------------------
(* Numbers.                                                                  *)

NumberBytes == Digits10 \cup {Plus, Minus, Point, 69, 101}

(* How many of the bytes from an index on are in a set.                      *)
RunOf[s \in Text, i \in Nat, set \in SUBSET (0..255)] ==
    IF i > Len(s) \/ s[i] \notin set THEN 0 ELSE 1 + RunOf[s, i + 1, set]

Decimal[s \in Text] == IF s = <<>> THEN 0 ELSE 10 * Decimal[SubSeq(s, 1, Len(s) - 1)] + s[Len(s)] - 48

Normal[m \in Int, e \in Int] ==
    IF m = 0 THEN Zero ELSE IF m % 10 = 0 THEN Normal[m \div 10, e + 1] ELSE [m |-> m, e |-> e]

(* The longest prefix that is a number, and the number.                      *)
strtod[s \in Text] ==
    LET sign  == IF s # <<>> /\ s[1] \in {Plus, Minus} THEN 1 ELSE 0
        whole == RunOf[s, sign + 1, Digits10]
        dot   == sign + whole + 1
        part  == IF dot <= Len(s) /\ s[dot] = Point THEN RunOf[s, dot + 1, Digits10] ELSE 0
        mant  == IF dot <= Len(s) /\ s[dot] = Point THEN dot + part ELSE sign + whole
        minus == IF mant + 2 <= Len(s) /\ s[mant + 2] \in {Plus, Minus} THEN 1 ELSE 0
        exp   == IF mant + 1 <= Len(s) /\ s[mant + 1] \in {69, 101}
                 THEN RunOf[s, mant + 2 + minus, Digits10] ELSE 0
        m     == Decimal[SubSeq(s, sign + 1, sign + whole) \o SubSeq(s, dot + 1, dot + part)]
        e     == IF exp = 0 THEN 0 ELSE Decimal[SubSeq(s, mant + 2 + minus, mant + 1 + minus + exp)]
    IN  IF whole + part = 0 THEN [length |-> 0]
        ELSE [length |-> IF exp = 0 THEN mant ELSE mant + 1 + minus + exp,
              number |-> Normal[IF sign = 1 /\ s[1] = Minus THEN -m ELSE m,
                                (IF minus = 1 /\ s[mant + 2] = Minus THEN -e ELSE e) - part]]

parse_number[b \in parse_buffer, item \in Node] ==
    LET run == RunOf[b.content, b.offset + 1, NumberBytes]
        num == strtod[SubSeq(b.content, b.offset + 1,
                             b.offset + (IF run > NumberLength THEN NumberLength ELSE run))]
    IN  IF num.length = 0 THEN Failed(b)
        ELSE [b EXCEPT !.offset = @ + num.length,
                       !.mem.heap[item].type = "Number",
                       !.mem.heap[item].number = num.number]

-----------------------------------------------------------------------------
(* Lists.  A listing is a list of items that is being read: at an element,   *)
(* at the value of its last item, or at its end.                             *)

Opening == [Array |-> OpenArray, Object |-> OpenObject]
Closing == [Array |-> CloseArray, Object |-> CloseObject]

listing == [buf : parse_buffer, type : Containers, head : Pointer, last : Pointer,
            at : {"element", "value", "end"}]

\* A broken twin of the next definition: the list is forgotten.
AbandonedWithItems(b, head) == Failed(b)

(* A list that is not completed is deleted.                                  *)
Abandoned(b, head) == [Failed(b) EXCEPT !.mem = cJSON_Delete[b.mem, head]]

GivenUp(q, b) == [q EXCEPT !.buf = Abandoned(b, q.head), !.at = "end"]

TooDeep(depth) == depth >= NestingLimit

(* After the opening byte: at the first element, or at the end.              *)
Inside[b \in parse_buffer, type \in Containers] ==
    [buf  |-> b, type |-> type, head |-> NULL, last |-> NULL,
     at   |-> IF b.ok /\ can_access_at_index(b, 0) /\ ~IsAt(b, Closing[type]) THEN "element" ELSE "end"]

Opened[b \in parse_buffer, type \in Containers] ==
    Inside[IF TooDeep(b.depth) THEN Failed(b)
           ELSE buffer_skip_whitespace[[Skip(b, 1) EXCEPT !.depth = @ + 1]], type]

(* The name of an object's item, and the colon.                              *)
ColonRead[b \in parse_buffer, item \in Node] ==
    IF ~b.ok \/ ~IsAt(b, Colon) THEN Failed(b)
    ELSE buffer_skip_whitespace[
           [Skip(b, 1) EXCEPT !.mem.heap[item].string = b.mem.heap[item].valuestring,
                              !.mem.heap[item].valuestring = <<>>]]

parse_name[b \in parse_buffer, item \in Node] ==
    ColonRead[buffer_skip_whitespace[parse_string[b, item]], item]

(* An item is made and linked; an object's is given its name.                *)
Linked[q \in listing, made \in Making] ==
    LET mem == IF q.head = NULL THEN made.mem
               ELSE [made.mem EXCEPT !.heap = suffix_object(@, q.last, made.item)]
    IN  IF made.item = NULL THEN GivenUp(q, q.buf)
        ELSE [q EXCEPT !.buf = [@ EXCEPT !.mem = mem],
                       !.head = IF @ = NULL THEN made.item ELSE @,
                       !.last = made.item,
                       !.at = "value"]

NameRead[q \in listing] ==
    IF q.at = "value" /\ q.type = "Object" THEN [q EXCEPT !.buf = parse_name[@, q.last]] ELSE q

Added[q \in listing] == NameRead[Linked[q, cJSON_New_Item[q.buf.mem]]]

(* After the value: at the next element, or at the end.                      *)
Followed[q \in listing, b \in parse_buffer] ==
    IF ~b.ok THEN GivenUp(q, b)
    ELSE IF IsAt(b, Comma)
    THEN [q EXCEPT !.buf = buffer_skip_whitespace[Skip(b, 1)], !.at = "element"]
    ELSE IF IsAt(b, Closing[q.type]) THEN [q EXCEPT !.buf = b, !.at = "end"]
    ELSE GivenUp(q, b)

TiedUp(heap, head, last) == IF head = NULL THEN heap ELSE [heap EXCEPT ![head].prev = last]

(* The list becomes the children of the item.                                *)
Closed[q \in listing, item \in Node] ==
    IF ~q.buf.ok \/ ~IsAt(q.buf, Closing[q.type]) THEN Failed(q.buf)
    ELSE [Skip(q.buf, 1) EXCEPT
            !.depth = @ - 1,
            !.mem.heap = [TiedUp(@, q.head, q.last) EXCEPT ![item].type = q.type, ![item].child = q.head]]

-----------------------------------------------------------------------------
(* Values.                                                                   *)

Literal(b, item, word, type) == [Skip(b, Len(word)) EXCEPT !.mem.heap[item].type = type]

(* A value that is no list.                                                  *)
parse_scalar[b \in parse_buffer, item \in Node] ==
    IF ~b.ok THEN b
    ELSE IF StartsWith(b, null_text) THEN Literal(b, item, null_text, "NULL")
    ELSE IF StartsWith(b, false_text) THEN Literal(b, item, false_text, "False")
    ELSE IF StartsWith(b, true_text) THEN Literal(b, item, true_text, "True")
    ELSE IF IsAt(b, Quote) THEN parse_string[b, item]
    ELSE IF can_access_at_index(b, 0) /\ At(b, 0) \in Digits10 \cup {Minus} THEN parse_number[b, item]
    ELSE Failed(b)

ListType(b) == {type \in Containers : b.ok /\ IsAt(b, Opening[type])}

(* The loop of parse_array and parse_object, with all the lists within.      *)
parse_elements[q \in listing] ==
    IF q.at = "end" THEN q
    ELSE IF q.at = "element" THEN parse_elements[Added[q]]
    ELSE parse_elements[Followed[q, buffer_skip_whitespace[
           IF ListType(q.buf) = {} THEN parse_scalar[q.buf, q.last]
           ELSE Closed[parse_elements[Opened[q.buf, CHOOSE t \in ListType(q.buf) : TRUE]], q.last]]]]

parse_value[b \in parse_buffer, item \in Node] ==
    IF ListType(b) = {} THEN parse_scalar[b, item]
    ELSE Closed[parse_elements[Opened[b, CHOOSE t \in ListType(b) : TRUE]], item]

Ended[b \in parse_buffer, item \in Node, require_null_terminated \in BOOLEAN] ==
    IF ~b.ok \/ (require_null_terminated /\ ~IsAt(b, 0)) THEN Got(cJSON_Delete[b.mem, item], NULL)
    ELSE Got(b.mem, item)

ParsedInto[made \in Making, content \in Text, require_null_terminated \in BOOLEAN] ==
    IF made.item = NULL THEN made
    ELSE Ended[buffer_skip_whitespace[parse_value[buffer_skip_whitespace[skip_utf8_bom(
                 [content |-> content, offset |-> 0, depth |-> 0, mem |-> made.mem, ok |-> TRUE])],
               made.item]], made.item, require_null_terminated]

(* The item that is made from a text of some length, or NULL.                *)
cJSON_ParseWithLengthOpts[mem \in Memory, content \in Text, require_null_terminated \in BOOLEAN] ==
    IF content = <<>> THEN Got(mem, NULL)
    ELSE ParsedInto[cJSON_New_Item[mem], content, require_null_terminated]

(* A text is passed with the zero that ends it.                              *)
cJSON_ParseWithOpts(mem, text, require_null_terminated) ==
    cJSON_ParseWithLengthOpts[mem, Append(text, 0), require_null_terminated]

cJSON_Parse(mem, text) == cJSON_ParseWithOpts(mem, text, FALSE)
=============================================================================
