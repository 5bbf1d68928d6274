------------------------------ MODULE DListSpec ------------------------------
(***************************************************************************)
(* What a doubly-linked list (include/dlist.h) promises its users, with    *)
(* the pointers abstracted away: every list head owns a sequence of items, *)
(* an item is in at most one of those sequences, and the operations insert *)
(* an item next to an anchor (a head or an item already in a list) or take *)
(* an item out of its list.  DList.tla is shown to implement this module   *)
(* through a refinement mapping that walks the next pointers.              *)
(***************************************************************************)
EXTENDS Naturals, Sequences, SequencesExt

CONSTANTS Heads, Items

VARIABLE lists

Linked == UNION {ToSet(lists[h]) : h \in Heads}

ListOf(x) == CHOOSE h \in Heads : x \in ToSet(lists[h])

IndexOf(h, x) == CHOOSE k \in 1 .. Len(lists[h]) : lists[h][k] = x

Init == lists = [h \in Heads |-> <<>>]

(* Insert a loose item right after the anchor: at the front of the list    *)
(* when the anchor is a head, behind the anchor when it is an item.        *)
InsertAfter(anchor, item) ==
    /\ item \in Items \ Linked
    /\ \/ /\ anchor \in Heads
          /\ lists' = [lists EXCEPT ![anchor] = <<item>> \o @]
       \/ /\ anchor \in Linked
          /\ LET h == ListOf(anchor)
             IN  lists' = [lists EXCEPT ![h] = InsertAt(@, IndexOf(h, anchor) + 1, item)]

(* Insert a loose item right before the anchor: at the end of the list     *)
(* when the anchor is a head.                                              *)
InsertBefore(anchor, item) ==
    /\ item \in Items \ Linked
    /\ \/ /\ anchor \in Heads
          /\ lists' = [lists EXCEPT ![anchor] = Append(@, item)]
       \/ /\ anchor \in Linked
          /\ LET h == ListOf(anchor)
             IN  lists' = [lists EXCEPT ![h] = InsertAt(@, IndexOf(h, anchor), item)]

(* Take a linked item out of its list.                                     *)
Detach(item) ==
    /\ item \in Linked
    /\ LET h == ListOf(item)
       IN  lists' = [lists EXCEPT ![h] = RemoveAt(@, IndexOf(h, item))]

Next ==
    \/ \E a \in Heads \cup Items, i \in Items : InsertAfter(a, i) \/ InsertBefore(a, i)
    \/ \E i \in Items : Detach(i)

Spec == Init /\ [][Next]_lists

(* Exclusive membership: every list holds only items, each item at most   *)
(* once, and no item is in two lists (the hlist ownership rule).           *)
ExclusiveMembership ==
    /\ \A h \in Heads :
          /\ lists[h] \in Seq(Items)
          /\ Len(lists[h]) = Cardinality(ToSet(lists[h]))
    /\ \A h1, h2 \in Heads : h1 # h2 => ToSet(lists[h1]) \cap ToSet(lists[h2]) = {}

=============================================================================
