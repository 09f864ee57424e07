------------------------------ MODULE JsonItems ------------------------------
(***************************************************************************)
(* The items of Shared/cJSON.c: nodes that are linked into lists, with all *)
(* that creates, links, unlinks and frees them.  The memory is the nodes,  *)
(* the number of strings that are allocated and the number of allocations  *)
(* that still succeed; every operator returns the memory it leaves.  An    *)
(* optional string is a sequence of at most one.                           *)
(***************************************************************************)
EXTENDS Integers, Sequences, FiniteSets

CONSTANT MaxItems     \* bound on the items that fit into the memory

ASSUME ItemsAssumption == MaxItems \in Nat

Node    == 1..MaxItems
NULL    == 0
Pointer == Node \cup {NULL}
Text    == Seq(0..255)
Maybe(S) == {<<>>} \cup {<<x>> : x \in S}

Containers == {"Array", "Object"}
Types      == {"NULL", "False", "True", "Number", "String", "Raw"} \cup Containers

(* A decimal number: m * 10^e, without zeros at the end of m.                *)
Number == [m : Int, e : Int]
Zero   == [m |-> 0, e |-> 0]

cJSON == [next : Pointer, prev : Pointer, child : Pointer, type : Types \cup {"Invalid", "Free"},
          valuestring : Seq(Text), number : Number, string : Seq(Text), const : BOOLEAN]

Blank == [next |-> NULL, prev |-> NULL, child |-> NULL, type |-> "Invalid",
          valuestring |-> <<>>, number |-> Zero, string |-> <<>>, const |-> FALSE]

Heap   == [Node -> cJSON]
Memory == [heap : Heap, strings : Int, left : Int]

Free == [Blank EXCEPT !.type = "Free"]

-----------------------------------------------------------------------------
(* Allocation.                                                               *)

Unused(heap) == {n \in Node : heap[n].type = "Free"}

cJSON_New_Item[mem \in Memory] ==
    IF mem.left = 0 \/ Unused(mem.heap) = {} THEN [mem |-> mem, item |-> NULL]
    ELSE LET n == CHOOSE n \in Unused(mem.heap) : \A o \in Unused(mem.heap) : n <= o
         IN  [mem |-> [mem EXCEPT !.heap[n] = Blank, !.left = @ - 1], item |-> n]

Copy == [mem : Memory, ok : BOOLEAN]

cJSON_strdup[mem \in Memory] ==
    IF mem.left = 0 THEN [mem |-> mem, ok |-> FALSE]
    ELSE [mem |-> [mem EXCEPT !.strings = @ + 1, !.left = @ - 1], ok |-> TRUE]

(* The strings of an item that are freed with it.                            *)
OwnStrings(item) == Len(item.valuestring) + (IF item.const THEN 0 ELSE Len(item.string))

(* The item, those after it and all below.                                   *)
cJSON_Delete[mem \in Memory, item \in Pointer] ==
    IF item = NULL THEN mem
    ELSE LET below == cJSON_Delete[mem, mem.heap[item].child]
         IN  cJSON_Delete[[below EXCEPT !.strings = @ - OwnStrings(below.heap[item]),
                                        !.heap[item] = Free],
                          mem.heap[item].next]

-----------------------------------------------------------------------------
(* Items that are created.                                                   *)

Making == [mem : Memory, item : Pointer]
Got(mem, item) == [mem |-> mem, item |-> item]

WithType(made, type) ==
    IF made.item = NULL THEN made
    ELSE [made EXCEPT !.mem.heap[made.item].type = type]

(* CreateNull, CreateTrue, CreateFalse, CreateArray and CreateObject.        *)
cJSON_Create[mem \in Memory, type \in Types] == WithType(cJSON_New_Item[mem], type)

cJSON_CreateNumber[mem \in Memory, num \in Number] ==
    LET made == cJSON_Create[mem, "Number"]
    IN  IF made.item = NULL THEN made ELSE [made EXCEPT !.mem.heap[made.item].number = num]

(* CreateString and CreateRaw.                                               *)
cJSON_CreateText[mem \in Memory, type \in {"String", "Raw"}, string \in Text] ==
    LET made == cJSON_Create[mem, type]
        copy == cJSON_strdup[made.mem]
    IN  IF made.item = NULL THEN made
        ELSE IF ~copy.ok THEN Got(cJSON_Delete[made.mem, made.item], NULL)
        ELSE Got([copy.mem EXCEPT !.heap[made.item].valuestring = <<string>>], made.item)

-----------------------------------------------------------------------------
(* Items that are looked for.                                                *)

(* get_array_item, from an item of the list on.                              *)
Nth[heap \in Heap, item \in Pointer, index \in Nat] ==
    IF item = NULL \/ index = 0 THEN item ELSE Nth[heap, heap[item].next, index - 1]

get_array_item(heap, array, index) == Nth[heap, heap[array].child, index]

LowerCase(text) == [i \in DOMAIN text |-> IF text[i] \in 65..90 THEN text[i] + 32 ELSE text[i]]

SameName(a, b, case_sensitive) == IF case_sensitive THEN a = b ELSE LowerCase(a) = LowerCase(b)

(* The first item of that name; with the case, an item without a name ends   *)
(* the search.                                                               *)
Named[heap \in Heap, item \in Pointer, name \in Text, case_sensitive \in BOOLEAN] ==
    IF item = NULL THEN NULL
    ELSE IF heap[item].string # <<>> /\ SameName(heap[item].string[1], name, case_sensitive) THEN item
    ELSE IF heap[item].string = <<>> /\ case_sensitive THEN NULL
    ELSE Named[heap, heap[item].next, name, case_sensitive]

get_object_item(heap, object, name, case_sensitive) ==
    Named[heap, heap[object].child, name, case_sensitive]

-----------------------------------------------------------------------------
(* Items that are linked.  The prev of the first item of a list is the last. *)

suffix_object(heap, prev, item) == [heap EXCEPT ![prev].next = item, ![item].prev = prev]

Listed[heap \in Heap, array \in Node, item \in Node] ==
    LET child == heap[array].child
    IN  IF child = NULL
        THEN [heap EXCEPT ![array].child = item, ![item].prev = item, ![item].next = NULL]
        ELSE IF heap[child].prev = NULL THEN heap
        ELSE [suffix_object(heap, heap[child].prev, item) EXCEPT ![child].prev = item]

Done(mem) == [mem |-> mem, ok |-> TRUE]
Not(mem)  == [mem |-> mem, ok |-> FALSE]

add_item_to_array[mem \in Memory, array \in Pointer, item \in Pointer] ==
    IF item = NULL \/ array = NULL \/ array = item THEN Not(mem)
    ELSE Done([mem EXCEPT !.heap = Listed[mem.heap, array, item]])

(* The name an item had is freed, if it is not a constant.                   *)
Renamed(mem, item, string, const) ==
    [mem EXCEPT !.heap[item].string = <<string>>, !.heap[item].const = const,
                !.strings = @ - (IF mem.heap[item].const THEN 0 ELSE Len(mem.heap[item].string))]

add_item_to_object[mem \in Memory, object \in Pointer, string \in Text, item \in Pointer, constant_key \in BOOLEAN] ==
    LET copy == IF constant_key THEN Done(mem) ELSE cJSON_strdup[mem]
    IN  IF object = NULL \/ item = NULL \/ object = item \/ ~copy.ok THEN Not(mem)
        ELSE add_item_to_array[Renamed(copy.mem, item, string, constant_key), object, item]

(* AddNullToObject and its like: what was made is deleted if it can't be     *)
(* added.                                                                    *)
AddMade(made, object, name) ==
    LET added == add_item_to_object[made.mem, object, name, made.item, FALSE]
    IN  IF added.ok THEN Got(added.mem, made.item)
        ELSE Got(cJSON_Delete[added.mem, made.item], NULL)

cJSON_InsertItemInArray[mem \in Memory, array \in Node, which \in Nat, newitem \in Node] ==
    LET heap  == mem.heap
        after == get_array_item(heap, array, which)
        placed == [heap EXCEPT ![newitem].next = after, ![newitem].prev = heap[after].prev,
                               ![after].prev = newitem]
    IN  IF after = NULL THEN add_item_to_array[mem, array, newitem]
        ELSE Done([mem EXCEPT !.heap =
                     IF after = heap[array].child THEN [placed EXCEPT ![array].child = newitem]
                     ELSE [placed EXCEPT ![heap[after].prev].next = newitem]])

(* CreateIntArray and its like: the numbers are linked one by one.           *)
Suffixed[mem \in Memory, a \in Node, p \in Pointer, numbers \in Seq(Number)] ==
    LET made == cJSON_CreateNumber[mem, numbers[1]]
    IN  IF numbers = <<>>
        THEN Got(IF p = NULL THEN mem ELSE [mem EXCEPT !.heap[mem.heap[a].child].prev = p], a)
        ELSE IF made.item = NULL THEN Got(cJSON_Delete[made.mem, a], NULL)
        ELSE Suffixed[[made.mem EXCEPT !.heap = IF p = NULL THEN [@ EXCEPT ![a].child = made.item]
                                                ELSE suffix_object(@, p, made.item)],
                      a, made.item, Tail(numbers)]

cJSON_CreateNumberArray[mem \in Memory, numbers \in Seq(Number)] ==
    LET a == cJSON_Create[mem, "Array"]
    IN  IF a.item = NULL THEN a ELSE Suffixed[a.mem, a.item, NULL, numbers]

-----------------------------------------------------------------------------
(* Items that are unlinked.                                                  *)

\* A broken twin of the next definition: the first item keeps its last.
DetachedKeepingLast(heap, parent, item) ==
    LET next == heap[item].next
        cut  == IF item = heap[parent].child THEN [heap EXCEPT ![parent].child = next]
                ELSE [heap EXCEPT ![heap[item].prev].next = next]
    IN  IF next # NULL THEN [cut EXCEPT ![next].prev = heap[item].prev] ELSE cut

(* The list without the item.                                                *)
Detached(heap, parent, item) ==
    LET next  == heap[item].next
        first == item = heap[parent].child
        cut   == IF first THEN [heap EXCEPT ![parent].child = next]
                 ELSE [heap EXCEPT ![heap[item].prev].next = next]
    IN  IF next # NULL THEN [cut EXCEPT ![next].prev = heap[item].prev]
        ELSE IF first THEN cut
        ELSE [cut EXCEPT ![heap[parent].child].prev = heap[item].prev]

cJSON_DetachItemViaPointer[mem \in Memory, parent \in Node, item \in Pointer] ==
    IF item = NULL THEN Got(mem, NULL)
    ELSE Got([mem EXCEPT !.heap = [Detached(@, parent, item) EXCEPT ![item].prev = NULL,
                                                                      ![item].next = NULL]], item)

\* A broken twin of the next definition: the item goes with all that follow.
ReleasedInPlace(heap, item) == heap

(* The item that is replaced, before it is deleted.                          *)
Released(heap, item) == [heap EXCEPT ![item].next = NULL, ![item].prev = NULL]

(* The list with the replacement in the place of the item.                   *)
Replaced(heap, parent, item, replacement) ==
    LET next == heap[item].next
        prev == heap[item].prev
        only == heap[heap[parent].child].prev = heap[parent].child
        in   == [heap EXCEPT ![replacement].next = next, ![replacement].prev = prev]
        back == IF next = NULL THEN in ELSE [in EXCEPT ![next].prev = replacement]
    IN  IF heap[parent].child = item
        THEN [back EXCEPT ![replacement].prev = IF only THEN replacement ELSE @,
                          ![parent].child = replacement]
        ELSE LET linked == IF prev = NULL THEN back ELSE [back EXCEPT ![prev].next = replacement]
             IN  IF next = NULL THEN [linked EXCEPT ![heap[parent].child].prev = replacement]
                 ELSE linked

cJSON_ReplaceItemViaPointer[mem \in Memory, parent, item \in Pointer, replacement \in Node] ==
    IF item = NULL \/ mem.heap[parent].child = NULL THEN Not(mem)
    ELSE IF replacement = item THEN Done(mem)
    ELSE Done(cJSON_Delete[[mem EXCEPT !.heap = Released(Replaced(@, parent, item, replacement), item)],
                           item])

replace_item_in_object[mem \in Memory, object \in Node, string \in Text, replacement \in Node, case_sensitive \in BOOLEAN] ==
    LET named == Renamed(mem, replacement, string, FALSE)
        copy  == cJSON_strdup[named]
        bare  == [named EXCEPT !.heap[replacement].string = <<>>,
                               !.heap[replacement].const = mem.heap[replacement].const]
    IN  IF ~copy.ok THEN Not(bare)
        ELSE cJSON_ReplaceItemViaPointer[copy.mem, object,
               get_object_item(copy.mem.heap, object, string, case_sensitive), replacement]

-----------------------------------------------------------------------------
(* Copies.                                                                   *)

(* The item alone.                                                           *)
CopyOf[mem \in Memory, item \in Node] ==
    LET old   == mem.heap[item]
        made  == cJSON_New_Item[mem]
        typed == [made.mem EXCEPT !.heap[made.item].type = old.type,
                                      !.heap[made.item].const = old.const,
                                      !.heap[made.item].number = old.number]
        value == IF old.valuestring = <<>> THEN Done(typed) ELSE cJSON_strdup[typed]
        with  == [value.mem EXCEPT !.heap[made.item].valuestring = old.valuestring]
        name  == IF old.string = <<>> \/ old.const THEN Done(with) ELSE cJSON_strdup[with]
    IN  IF made.item = NULL THEN made
        ELSE IF ~value.ok THEN Got(cJSON_Delete[value.mem, made.item], NULL)
        ELSE IF ~name.ok THEN Got(cJSON_Delete[name.mem, made.item], NULL)
        ELSE Got([name.mem EXCEPT !.heap[made.item].string = old.string], made.item)

(* A copy whose children are being made: child is the next to copy, last the *)
(* last that was.                                                            *)
Copying == [mem : Memory, item : Pointer, child : Pointer, last : Pointer]

Begun[made \in Making, child \in Pointer] ==
    [mem |-> made.mem, item |-> made.item, child |-> child, last |-> NULL]

(* The list of children is complete.                                         *)
Tied[c \in Copying] ==
    Got(IF c.last = NULL THEN c.mem ELSE [c.mem EXCEPT !.heap[c.mem.heap[c.item].child].prev = c.last],
        c.item)

(* The copy of the next child is added, or all is deleted if there is none.  *)
Joined[c \in Copying, copy \in Making] ==
    IF copy.item = NULL
    THEN [mem |-> cJSON_Delete[copy.mem, c.item], item |-> NULL, child |-> NULL, last |-> NULL]
    ELSE [c EXCEPT !.mem = [copy.mem EXCEPT !.heap =
                              IF c.last = NULL THEN [@ EXCEPT ![c.item].child = copy.item]
                              ELSE suffix_object(@, c.last, copy.item)],
                   !.child = copy.mem.heap[@].next,
                   !.last = copy.item]

Children[c \in Copying] ==
    IF c.item = NULL \/ c.child = NULL THEN c
    ELSE Children[Joined[c, Tied[Children[Begun[CopyOf[c.mem, c.child], c.mem.heap[c.child].child]]]]]

cJSON_Duplicate[mem \in Memory, item \in Node, recurse \in BOOLEAN] ==
    Tied[Children[Begun[CopyOf[mem, item], IF recurse THEN mem.heap[item].child ELSE NULL]]]
=============================================================================
