------------------------------- MODULE Items --------------------------------
(***************************************************************************)
(* What lab1/list.c promises its caller: sequences of items, one for each  *)
(* list, and nothing of the nodes they are kept in.                        *)
(***************************************************************************)
EXTENDS Sequences, SequencesExt

CONSTANTS List, Datum

VARIABLE items   \* items[l]: the items of list l, the first one first

Init == items = [l \in List |-> <<>>]

Change(l, s) == items' = [items EXCEPT ![l] = s]

InsertLast(l, d) == Change(l, Append(items[l], d))

InsertSecond(l, d) == Change(l, InsertAt(items[l], IF items[l] = <<>> THEN 1 ELSE 2, d))

RemoveItem(l, i) == Change(l, RemoveAt(items[l], i))

Join(l, m) == items' = [items EXCEPT ![l] = @ \o items[m], ![m] = <<>>]

Next ==
  \/ \E l \in List, d \in Datum : InsertLast(l, d) \/ InsertSecond(l, d)
  \/ \E l \in List : \E i \in DOMAIN items[l] : RemoveItem(l, i)
  \/ \E l \in List : \E m \in List \ {l} : Join(l, m)

Spec == Init /\ [][Next]_items
===============================================================================
