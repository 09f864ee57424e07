---------------------------- MODULE JsonDocuments ----------------------------
(***************************************************************************)
(* What cJSON.h promises of items: documents are trees in which an array   *)
(* or object has a sequence of items.  A call does all that it should, or  *)
(* nothing but, at most, take the name from an item or give it another.    *)
(***************************************************************************)
EXTENDS Integers, Sequences

CONSTANTS Item, None

VARIABLES
  held,     \* the items that belong to nobody but the program
  kids,     \* the sequence of items in an item
  label     \* what is known of an item otherwise, or None if there is no item

doc == <<held, kids, label>>

Used == {n \in Item : label[n] # None}

RECURSIVE Below(_, _)
Below(list, n) == {n} \cup UNION {Below(list, list[n][i]) : i \in 1..Len(list[n])}

Gone(n) == Below(kids, n)

InsertAt(s, i, x)  == SubSeq(s, 1, i - 1) \o <<x>> \o SubSeq(s, i, Len(s))
Without(s, i)      == SubSeq(s, 1, i - 1) \o SubSeq(s, i + 1, Len(s))

(* What a step leaves alone.                                                 *)
OthersKept(S) == \A n \in Item \ S : label'[n] = label[n] /\ kids'[n] = kids[n]

(* The new sequence of items of an item that is otherwise the same.          *)
Gets(array, list) == kids'[array] = list /\ label'[array] = label[array]

Unnamed(l) == [l EXCEPT !.name = <<>>]

(* Only the name of an item changes.                                         *)
Renames(item) == label'[item] # None /\ Unnamed(label'[item]) = Unnamed(label[item])

Forgets(S) == \A n \in S : label'[n] = None /\ kids'[n] = <<>>

Init == held = {} /\ kids = [n \in Item |-> <<>>] /\ label = [n \in Item |-> None]

(* A new document, made of items that were not in use.                       *)
Make ==
  \E n \in Item \ Used :
    /\ held' = held \cup {n}
    /\ Below(kids', n) \cap Used = {}
    /\ OthersKept(Below(kids', n))
    /\ \A m \in Below(kids', n) : label'[m] # None

(* An item that is held, or new, becomes part of another.                    *)
Put(array, i, item) ==
  /\ array \notin Gone(item)
  /\ held' = held \ {item}
  /\ kids' = [kids EXCEPT ![array] = InsertAt(@, i, item)]
  /\ \A n \in Item \ {item} : label'[n] = label[n]
  /\ IF item \in held THEN Renames(item) ELSE item \notin Used /\ label'[item] # None

Take(array, i) ==
  /\ held' = held \cup {kids[array][i]}
  /\ kids' = [kids EXCEPT ![array] = Without(@, i)]
  /\ UNCHANGED label

Remove(array, i) ==
  LET item == kids[array][i]
  IN  /\ UNCHANGED held
      /\ OthersKept(Gone(item) \cup {array})
      /\ Gets(array, Without(kids[array], i))
      /\ Forgets(Gone(item))

Replace(array, i, item) ==
  LET old == kids[array][i]
  IN  /\ array \notin Gone(item)
      /\ held' = held \ {item}
      /\ OthersKept(Gone(old) \cup {array, item})
      /\ Gets(array, [kids[array] EXCEPT ![i] = item])
      /\ kids'[item] = kids[item]
      /\ Renames(item)
      /\ Forgets(Gone(old))

Drop(item) ==
  /\ held' = held \ {item}
  /\ OthersKept(Gone(item))
  /\ Forgets(Gone(item))

(* What a call may change of an item that it does not link.                  *)
Change(item) ==
  /\ UNCHANGED <<held, kids>>
  /\ \A n \in Item \ {item} : label'[n] = label[n]
  /\ label'[item] # None
  /\ label'[item].type = label[item].type

Next ==
  \/ Make
  \/ \E item \in held : Drop(item) \/ (Change(item) /\ Renames(item))
  \/ \E item \in Used : label[item].type = "String" /\ Change(item)
  \/ \E array \in Used, item \in Item : \E i \in 1..Len(kids[array]) + 1 : Put(array, i, item)
  \/ \E array \in Used : \E i \in 1..Len(kids[array]) :
       Take(array, i) \/ Remove(array, i) \/ \E item \in held : Replace(array, i, item)

Spec == Init /\ [][Next]_doc
=============================================================================
