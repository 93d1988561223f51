----------------------------- MODULE SortedList -----------------------------
(***************************************************************************)
(* What kern/include/linked_list.h promises: a list in the order of its    *)
(* keys, prepend with a key below the least one, removal of the head; each *)
(* operation is one step.                                                  *)
(***************************************************************************)
EXTENDS Integers, SequencesExt

CONSTANTS Nodes, Keys

VARIABLE items   \* the nodes in the list, with their keys, head first

Sorted(s) == \A i, j \in DOMAIN s : i < j => s[i].key <= s[j].key

Init == items = <<>>

Prepend(n) ==
    items' = <<[node |-> n, key |-> IF items = <<>> THEN 0 ELSE items[1].key - 1]>> \o items

Insert(n, k) ==
    /\ \E i \in 1 .. Len(items) + 1 :
          items' = InsertAt(items, i, [node |-> n, key |-> k])
    /\ Sorted(items')

RemoveHead == items # <<>> /\ items' = Tail(items)

Next == \/ \E n \in Nodes : Prepend(n)
        \/ \E n \in Nodes, k \in Keys : Insert(n, k)
        \/ RemoveHead

Spec == Init /\ [][Next]_items
=============================================================================
