-------------------------------- MODULE Json --------------------------------
(***************************************************************************)
(* Shared/cJSON.c as a program uses it: it holds some items, calls the     *)
(* functions of the library with them, and any allocation may fail.  The   *)
(* program keeps to what the library asks of it: an item that becomes part *)
(* of another is one that it holds, and not one that the other is part of. *)
(* References are not used.                                                *)
(***************************************************************************)
EXTENDS JsonPrinter

-----------------------------------------------------------------------------
(* The reference: the JSON texts of RFC 8259 and what they stand for.  A     *)
(* text may be split in any way that the grammar allows.  A value is the     *)
(* tree of its parts; the items of an array have the empty name.             *)

Blanks  == {32, 9, 10, 13}
Figures == 48..57

Trimmed[s \in Seq(0..255)] ==
    IF s = <<>> THEN s
    ELSE IF Head(s) \in Blanks THEN Trimmed[Tail(s)]
    ELSE IF s[Len(s)] \in Blanks THEN Trimmed[SubSeq(s, 1, Len(s) - 1)]
    ELSE s

Leaf(type) == [type |-> type, text |-> <<>>, number |-> [m |-> 0, e |-> 0], members |-> <<>>]

-----------------------------------------------------------------------------
(* Strings.                                                                  *)

HexOf(c) == IF c \in Figures THEN {c - 48}
            ELSE IF c \in 65..70 THEN {c - 55} ELSE IF c \in 97..102 THEN {c - 87} ELSE {}

(* The code unit of \uXXXX at the start of a text, if there is one.          *)
UnitAt(s) ==
    IF Len(s) < 6 \/ s[1] # 92 \/ s[2] # 117 THEN {}
    ELSE {4096 * a + 256 * b + 16 * c + d :
            a \in HexOf(s[3]), b \in HexOf(s[4]), c \in HexOf(s[5]), d \in HexOf(s[6])}

(* RFC 3629: the bytes whose payloads join to the code point.                *)
Utf8Of(point) ==
    IF point <= 127 THEN <<point>>
    ELSE LET n       == IF point <= 2047 THEN 2 ELSE IF point <= 65535 THEN 3 ELSE 4
             mark    == <<0, 192, 224, 240>>
             rest[i \in 1..n] == IF i = n THEN point ELSE rest[i + 1] \div 64
         IN  [i \in 1..n |-> IF i = 1 THEN mark[n] + rest[1] ELSE 128 + (rest[i] % 64)]

Short == << <<34, 34>>, <<92, 92>>, <<47, 47>>, <<98, 8>>, <<102, 12>>, <<110, 10>>, <<114, 13>>, <<116, 9>> >>

(* What the first characters of a text may stand for, and how many they are. *)
Firsts(s) ==
    {[used |-> 1, bytes |-> <<s[1]>>] : x \in {n \in {1} : s[1] >= 32 /\ s[1] \notin {34, 92}}}
    \cup {[used |-> 2, bytes |-> <<p[2]>>] :
            p \in {q \in {Short[i] : i \in 1..8} : Len(s) > 1 /\ s[1] = 92 /\ s[2] = q[1]}}
    \cup {[used |-> 6, bytes |-> Utf8Of(u)] : u \in UnitAt(s) \ 55296..57343}
    \cup {[used |-> 12, bytes |-> Utf8Of(65536 + (u - 55296) * 1024 + (v - 56320))] :
            u \in UnitAt(s) \cap 55296..56319,
            v \in UnitAt(SubSeq(s, 7, Len(s))) \cap 56320..57343}

Readings[s \in Seq(0..255)] ==
    IF s = <<>> THEN {<<>>}
    ELSE UNION {{f.bytes \o rest : rest \in Readings[SubSeq(s, f.used + 1, Len(s))]} : f \in Firsts(s)}

Quoted(s) ==
    IF Len(s) >= 2 /\ s[1] = 34 /\ s[Len(s)] = 34 THEN Readings[SubSeq(s, 2, Len(s) - 1)] ELSE {}

-----------------------------------------------------------------------------
(* Numbers: minus, whole part, fraction and exponent.                        *)

AllFigures(s) == s # <<>> /\ \A i \in 1..Len(s) : s[i] \in Figures

FiguresOf[s \in Seq(0..255)] ==
    IF s = <<>> THEN 0 ELSE 10 * FiguresOf[SubSeq(s, 1, Len(s) - 1)] + s[Len(s)] - 48

Canonical[m \in Int, e \in Int] ==
    IF m = 0 THEN [m |-> 0, e |-> 0]
    ELSE IF m % 10 = 0 THEN Canonical[m \div 10, e + 1] ELSE [m |-> m, e |-> e]

Signed(s, signs, number(_, _)) ==
    IF s # <<>> /\ s[1] \in signs THEN number(IF s[1] = 45 THEN -1 ELSE 1, Tail(s)) ELSE number(1, s)

Whole(s) == AllFigures(s) /\ (s[1] = 48 => Len(s) = 1)

Numbers(s) ==
    LET exponents(t) ==
          IF t = <<>> THEN {0}
          ELSE IF t[1] \notin {69, 101} THEN {}
          ELSE Signed(Tail(t), {43, 45}, LAMBDA sign, u : IF AllFigures(u) THEN {sign * FiguresOf[u]} ELSE {})
        fractions(t) ==
          {n \in 0..Len(t) : n = 0 \/ (n > 1 /\ t[1] = 46 /\ AllFigures(SubSeq(t, 2, n)))}
        after(t, n) == SubSeq(t, n + 1, Len(t))
        number(sign, t) ==
          UNION {UNION {{Canonical[sign * FiguresOf[SubSeq(t, 1, n) \o SubSeq(after(t, n), 2, f)],
                                   x - (IF f = 0 THEN 0 ELSE f - 1)] :
                           x \in exponents(after(t, n + f))} :
                        f \in fractions(after(t, n))} :
                 n \in {k \in 1..Len(t) : Whole(SubSeq(t, 1, k))}}
    IN  Signed(s, {45}, number)

-----------------------------------------------------------------------------
(* Values.                                                                   *)

(* The prefixes of a text that a byte ends, with what follows.               *)
SplitAt(s, byte) ==
    {[before |-> SubSeq(s, 1, i - 1), after |-> SubSeq(s, i + 1, Len(s))] : i \in {j \in 1..Len(s) : s[j] = byte}}

Scalars[s \in Seq(0..255)] ==
    IF s = <<110, 117, 108, 108>> THEN {Leaf("NULL")}
    ELSE IF s = <<116, 114, 117, 101>> THEN {Leaf("True")}
    ELSE IF s = <<102, 97, 108, 115, 101>> THEN {Leaf("False")}
    ELSE {[Leaf("String") EXCEPT !.text = t] : t \in Quoted(s)}
         \cup {[Leaf("Number") EXCEPT !.number = x] : x \in Numbers(s)}

Bracketed(s, open, close) == Len(s) >= 2 /\ s[1] = open /\ s[Len(s)] = close
Inner(s) == Trimmed[SubSeq(s, 2, Len(s) - 1)]

(* What a text that begins and ends with no blank may stand for: as a value; *)
(* as a member of an array or object; as the members of one, with commas     *)
(* between them.                                                             *)
Meanings[as \in {"value", "item", "member", "items", "members"}, s \in Seq(0..255)] ==
    CASE as = "value" ->
           IF Bracketed(s, 91, 93)
           THEN {[Leaf("Array") EXCEPT !.members = ms] : ms \in Meanings["items", Inner(s)]}
           ELSE IF Bracketed(s, 123, 125)
           THEN {[Leaf("Object") EXCEPT !.members = ms] : ms \in Meanings["members", Inner(s)]}
           ELSE Scalars[s]
      [] as = "item" -> {[name |-> <<>>, value |-> v] : v \in Meanings["value", s]}
      [] as = "member" ->
           UNION {{[name |-> name, value |-> v] : name \in Quoted(Trimmed[parts.before]),
                                                  v \in Meanings["value", Trimmed[parts.after]]} :
                  parts \in SplitAt(s, 58)}
      [] OTHER ->
           LET one == IF as = "items" THEN "item" ELSE "member"
           IN  IF s = <<>> THEN {<<>>}
               ELSE {<<m>> : m \in Meanings[one, s]}
                    \cup UNION {{<<m>> \o rest : m \in Meanings[one, Trimmed[parts.before]],
                                                 rest \in Meanings[as, Trimmed[parts.after]] \ {<<>>}} :
                                parts \in SplitAt(s, 44)}

(* What a text stands for: nothing, or one value.                            *)
Values(text) == Meanings["value", Trimmed[text]]

-----------------------------------------------------------------------------
(* The program and its items.                                                *)

CONSTANTS
  Texts,          \* the texts that are parsed when there is no item
  EditedTexts,    \* those of them whose items are then worked with
  Made,           \* the types of the items that are created
  Strings, Names, Numerals,    \* the values that are used
  MaxAllocations, \* bound on the allocations of one call
  MaxCalls,       \* bound on the calls, after a text was parsed
  Prebuffers      \* the sizes of buffer that are printed to

ASSUME JsonAssumption ==
  /\ MaxAllocations \in Nat /\ MaxCalls \in Nat /\ Prebuffers \subseteq Nat
  /\ Made \subseteq {"NULL", "True", "False", "Array", "Object"}
  /\ EditedTexts \subseteq Texts

VARIABLES
  heap, strings,  \* the items, and how many strings are allocated
  held,           \* the items that belong to no other
  source,         \* the text that was just parsed, if any
  calls           \* made since then

vars == <<heap, strings, held, source, calls>>

Init ==
  /\ heap = [n \in Node |-> Free] /\ strings = 0
  /\ held = {}
  /\ source = <<>>
  /\ calls = 0

-----------------------------------------------------------------------------
(* The items as sequences.                                                   *)

Live == {n \in Node : heap[n].type # "Free"}

(* From an item on; a list that does not end is cut.                         *)
Chain[list \in Heap, n \in Pointer, most \in Nat] ==
    IF n = NULL \/ most = 0 THEN <<>> ELSE <<n>> \o Chain[list, list[n].next, most - 1]

Kids(n) == IF heap[n].child = NULL THEN <<>> ELSE Chain[heap, heap[n].child, MaxItems + 1]

Within[list \in Heap, n \in Pointer] ==
    IF n = NULL THEN {} ELSE {n} \cup Within[list, list[n].next] \cup Within[list, list[n].child]

Below(n) == {n} \cup Within[heap, heap[n].child]

(* What may become part of the container.                                    *)
Loose(array) == {n \in held : array \notin Below(n)}

Array  == {n \in Live : heap[n].type = "Array"}
Object == {n \in Live : heap[n].type = "Object"}

-----------------------------------------------------------------------------
(* Calls.                                                                    *)

Before(left) == [heap |-> heap, strings |-> strings, left |-> left]

Leave(mem) == heap' = mem.heap /\ strings' = mem.strings

Editing ==
  /\ source \in EditedTexts \cup {<<>>} /\ source' = <<>>
  /\ calls < MaxCalls /\ calls' = calls + 1

(* The call made an item, or not.                                            *)
Hold(made) ==
  /\ Leave(made.mem)
  /\ held' = held \cup ({made.item} \ {NULL})

(* The call took the item, or not.                                           *)
Give(called, item) == Leave(called.mem) /\ held' = IF called.ok THEN held \ {item} ELSE held

Parse(left) ==
  /\ calls = 0 /\ source = <<>>
  /\ UNCHANGED calls
  /\ \E text \in Texts :
       /\ Hold(cJSON_Parse(Before(left), text))
       /\ source' = text

Create(left) ==
  /\ Editing
  /\ \/ \E type \in Made : Hold(cJSON_Create[Before(left), type])
     \/ \E num \in Numerals : Hold(cJSON_CreateNumber[Before(left), num])
     \/ \E string \in Strings : Hold(cJSON_CreateText[Before(left), "String", string])
     \/ \E m, n \in Numerals : Hold(cJSON_CreateNumberArray[Before(left), <<m, n>>])

Duplicate(left) ==
  /\ Editing
  /\ \E item \in Live, recurse \in BOOLEAN : Hold(cJSON_Duplicate[Before(left), item, recurse])

AddToArray(left) ==
  /\ Editing
  /\ \E array \in Array : \E item \in Loose(array) :
       \/ Give(add_item_to_array[Before(left), array, item], item)
       \/ \E which \in 0..MaxItems :
            Give(cJSON_InsertItemInArray[Before(left), array, which, item], item)

AddToObject(left) ==
  /\ Editing
  /\ \E object \in Object, name \in Names :
       \/ \E item \in Loose(object), const \in BOOLEAN :
            Give(add_item_to_object[Before(left), object, name, item, const], item)
       \/ /\ \/ \E type \in Made : Leave(AddMade(cJSON_Create[Before(left), type], object, name).mem)
             \/ \E string \in Strings :
                  Leave(AddMade(cJSON_CreateText[Before(left), "String", string], object, name).mem)
          /\ UNCHANGED held

DetachOrDelete(parent, item) ==
  LET detached == cJSON_DetachItemViaPointer[Before(0), parent, item]
  IN  \/ Hold(detached)
      \/ Leave(cJSON_Delete[detached.mem, detached.item]) /\ UNCHANGED held

Detach ==
  /\ Editing
  /\ \/ \E array \in Array, which \in 0..MaxItems :
          DetachOrDelete(array, get_array_item(heap, array, which))
     \/ \E object \in Object, name \in Names, case_sensitive \in BOOLEAN :
          DetachOrDelete(object, get_object_item(heap, object, name, case_sensitive))

Replace(left) ==
  /\ Editing
  /\ \/ \E array \in Array, which \in 0..MaxItems : \E item \in Loose(array) :
          Give(cJSON_ReplaceItemViaPointer[Before(left), array, get_array_item(heap, array, which), item], item)
     \/ \E object \in Object, name \in Names, case_sensitive \in BOOLEAN : \E item \in Loose(object) :
          Give(replace_item_in_object[Before(left), object, name, item, case_sensitive], item)

(* A value that is not longer takes the place of the old one.                *)
SetValuestring(left) ==
  /\ Editing
  /\ \E item \in Live, string \in Strings :
       LET fits == Len(string) <= Len(heap[item].valuestring[1])
       IN  /\ heap[item].type = "String"
           /\ fits \/ left > 0
           /\ heap' = [heap EXCEPT ![item].valuestring = <<string>>]
           /\ UNCHANGED <<strings, held>>

Delete ==
  /\ Editing
  /\ \E item \in held : /\ Leave(cJSON_Delete[Before(0), item])
                        /\ held' = held \ {item}

Next ==
  \/ \E left \in 0..MaxAllocations :
       \/ Parse(left) \/ Create(left) \/ Duplicate(left) \/ AddToArray(left)
       \/ AddToObject(left) \/ Replace(left) \/ SetValuestring(left)
  \/ Detach \/ Delete

Spec == Init /\ [][Next]_vars

-----------------------------------------------------------------------------
(* Every list of items is linked both ways, its first item leads to its      *)
(* last, and the items the program holds are in no list: so that an item can *)
(* be added at the end, or taken out, wherever it is.                        *)
ListsAreLinked ==
  /\ \A n \in Live : LET list == Kids(n)
                     IN  /\ Len(list) <= MaxItems
                         /\ \A i \in 1..Len(list) :
                              heap[list[i]].prev = list[IF i = 1 THEN Len(list) ELSE i - 1]
  /\ \A n \in held : heap[n].next = NULL /\ heap[n].prev = NULL

(* Whatever fails, every item is part of exactly one item or held by the     *)
(* program, and every string belongs to one: nothing leaks, and nothing is   *)
(* freed that is still in use.                                               *)
NothingLeaks ==
  LET parents(n) == {m \in Live : \E i \in 1..Len(Kids(m)) : Kids(m)[i] = n}
      own[S \in SUBSET Node] == IF S = {} THEN 0
                                ELSE LET n == CHOOSE n \in S : TRUE IN OwnStrings(heap[n]) + own[S \ {n}]
  IN  /\ UNION {Below(n) : n \in held} = Live
      /\ \A n \in Live : Cardinality(parents(n)) = IF n \in held THEN 0 ELSE 1
      /\ strings = own[Live]

(* What an item stands for.                                                  *)
Value[list \in Heap, n \in Node] ==
    LET kids == Chain[list, list[n].child, MaxItems + 1]
        name(m) == IF list[n].type = "Array" \/ list[m].string = <<>> THEN <<>> ELSE list[m].string[1]
    IN  [type    |-> list[n].type,
         text    |-> IF list[n].valuestring = <<>> THEN <<>> ELSE list[n].valuestring[1],
         number  |-> list[n].number,
         members |-> [i \in DOMAIN kids |-> [name |-> name(kids[i]), value |-> Value[list, kids[i]]]]]

(* How many arrays and objects are around the innermost, with itself.        *)
RECURSIVE Depth(_)
Depth(value) ==
    LET below == {Depth(value.members[i].value) : i \in DOMAIN value.members}
    IN  IF value.type \notin Containers THEN 0
        ELSE 1 + (IF below = {} THEN 0 ELSE CHOOSE d \in below : \A e \in below : e <= d)

(* Whether there is a zero in a string; C takes it for the end.              *)
RECURSIVE HasZero(_)
HasZero(value) ==
    \/ \E i \in DOMAIN value.text : value.text[i] = 0
    \/ \E m \in {value.members[i] : i \in DOMAIN value.members} :
         HasZero(m.value) \/ \E i \in DOMAIN m.name : m.name[i] = 0

(* A document is read as the value, if it is not nested too deeply.          *)
ReadAs(read, value) ==
    IF Depth(value) > NestingLimit THEN read.item = NULL
    ELSE read.item # NULL /\ Value[read.mem.heap, read.item] = value

NewMemory == [heap |-> [n \in Node |-> Free], strings |-> 0, left |-> MaxItems * 4]

(* What is printed, with blanks or without, to a buffer of any size, is read *)
(* again as the same document; and what is written stays in the buffer.      *)
PrintsWhatItReads ==
  \A n \in held, format \in BOOLEAN, size \in Prebuffers :
    LET p    == cJSON_PrintBuffered(heap, n, size, format, 99)
        read == cJSON_ParseWithOpts(NewMemory, p.text, TRUE)
    IN  p.ok /\ p.inside /\ ReadAs(read, Value[heap, n])

(* cJSON.h: whoever gives a buffer with five bytes more than are needed can  *)
(* be sure that it is enough.                                                *)
FiveMoreSuffice ==
  \A n \in held, format \in BOOLEAN :
    LET text == cJSON_Print(heap, n, format, 99).text
        p    == cJSON_PrintPreallocated(heap, n, Len(text) + 6, format)
    IN  p.ok /\ p.inside /\ p.text = text

(* A JSON text is read as what it stands for, unless it is nested too deeply *)
(* or has a zero in a string.  (The texts have no number that is longer than *)
(* the parser's buffer, which would cut it.)                                 *)
ReadsJson ==
  LET meant == Values(source)
      read  == cJSON_Parse(NewMemory, source)
  IN  \A value \in meant : HasZero(value) \/ ReadAs(read, value)

(* The calls do what is promised of sequences of items, or next to nothing.  *)
Label(item) == [type |-> item.type, text |-> item.valuestring, number |-> item.number,
                name |-> item.string]

Documents == INSTANCE JsonDocuments
  WITH Item <- Node, None <- Label(Free),
       kids <- [n \in Node |-> IF n \in Live THEN Kids(n) ELSE <<>>],
       label <- [n \in Node |-> Label(heap[n])]

ImplementsDocuments == Documents!Spec
=============================================================================
