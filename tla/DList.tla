-------------------------------- MODULE DList --------------------------------
(***************************************************************************)
(* The intrusive doubly-linked list of include/dlist.h, at the level of    *)
(* its pointers.  Memory is a function from nodes (list heads and list     *)
(* items, both of type dlist_head) to their next/prev fields; every        *)
(* inline function is translated statement by statement, each statement   *)
(* reading the memory the previous one wrote, so aliasing between `list`,  *)
(* `item` and their neighbours behaves as in C.                            *)
(*                                                                         *)
(* The caller is a client that respects the documented preconditions       *)
(* (hlist_alloc appending a fresh item to a parent list, hlist_delete      *)
(* unlinking items): it adds only items for which dlist_empty() holds, to  *)
(* a head or to an item that is itself in a list.                          *)
(***************************************************************************)
EXTENDS Naturals, Sequences, FiniteSets

CONSTANTS Heads, Items

ASSUME Heads \cap Items = {}

Nodes == Heads \cup Items

VARIABLE mem

(* dlist_head_init(): the node points to itself both ways.                 *)
dlist_head_init(m, n) == [m EXCEPT ![n] = [next |-> n, prev |-> n]]

(* dlist_empty(): for a head, the list is empty; for an item, it is not    *)
(* part of any list.                                                       *)
dlist_empty(n) == mem[n].next = n

(* Mutant: item->next = list instead of list->next.                        *)
dlist_add_head_self(list, item) ==
    LET m1 == [mem EXCEPT ![item].next = list]
        m2 == [m1 EXCEPT ![item].prev = list]
        m3 == [m2 EXCEPT ![m2[list].next].prev = item]
        m4 == [m3 EXCEPT ![list].next = item]
    IN  m4

(* Mutant: the last two stores swapped.                                    *)
dlist_add_head_swapped(list, item) ==
    LET m1 == [mem EXCEPT ![item].next = mem[list].next]
        m2 == [m1 EXCEPT ![item].prev = list]
        m3 == [m2 EXCEPT ![list].next = item]
        m4 == [m3 EXCEPT ![m3[list].next].prev = item]
    IN  m4

(* dlist_add_head(): the four stores, in program order.                    *)
dlist_add_head(list, item) ==
    LET m1 == [mem EXCEPT ![item].next = mem[list].next]
        m2 == [m1 EXCEPT ![item].prev = list]
        m3 == [m2 EXCEPT ![m2[list].next].prev = item]
        m4 == [m3 EXCEPT ![list].next = item]
    IN  m4

(* dlist_add_tail(): add behind the current last element.                  *)
dlist_add_tail(list, item) == dlist_add_head(mem[list].prev, item)

(* Mutant: the item is unlinked but not re-initialised.                    *)
dlist_remove_no_reinit(item) ==
    LET m1 == [mem EXCEPT ![mem[item].prev].next = mem[item].next]
        m2 == [m1 EXCEPT ![m1[item].next].prev = m1[item].prev]
    IN  m2

(* Mutant: the unlinked item's pointers are cleared to NULL.              *)
dlist_remove_cleared(item) ==
    LET m1 == [mem EXCEPT ![mem[item].prev].next = mem[item].next]
        m2 == [m1 EXCEPT ![m1[item].next].prev = m1[item].prev]
    IN  [m2 EXCEPT ![item] = [next |-> "NULL", prev |-> "NULL"]]

(* dlist_remove(): unlink, then re-initialise the item as an empty list.   *)
dlist_remove(item) ==
    LET m1 == [mem EXCEPT ![mem[item].prev].next = mem[item].next]
        m2 == [m1 EXCEPT ![m1[item].next].prev = m1[item].prev]
    IN  dlist_head_init(m2, item)

(* dlist_for_each_item(): follow next from head.next back to the head.     *)
(* The walk is cut after |Nodes| steps so that a corrupted list (a cycle   *)
(* that misses the head) still yields a finite, visibly wrong sequence.    *)
RECURSIVE ForEachFrom(_, _, _)
ForEachFrom(head, n, fuel) ==
    IF n = head \/ fuel = 0 THEN <<>>
    ELSE <<n>> \o ForEachFrom(head, mem[n].next, fuel - 1)

dlist_for_each_item(head) == ForEachFrom(head, mem[head].next, Cardinality(Nodes))

(* dlist_count(): the number of iterations of dlist_for_each_item.         *)
dlist_count(head) == Len(dlist_for_each_item(head))

(* Nodes a new item may be linked next to: a head, or an item in a list.   *)
Anchors == Heads \cup {i \in Items : ~dlist_empty(i)}

Init == mem = [n \in Nodes |-> [next |-> n, prev |-> n]]

AddHead(list, item) ==
    /\ item \in Items
    /\ dlist_empty(item)
    /\ list \in Anchors \ {item}
    /\ mem' = dlist_add_head(list, item)

AddTail(list, item) ==
    /\ item \in Items
    /\ dlist_empty(item)
    /\ list \in Anchors \ {item}
    /\ mem' = dlist_add_tail(list, item)

Remove(item) ==
    /\ item \in Items
    /\ mem' = dlist_remove(item)

Next ==
    \/ \E l \in Nodes, i \in Items : AddHead(l, i) \/ AddTail(l, i)
    \/ \E i \in Items : Remove(i)

Spec == Init /\ [][Next]_mem

-----------------------------------------------------------------------------
(* The abstract list each head stands for, read off the next pointers.     *)
Abs == INSTANCE DListSpec WITH lists <- [h \in Heads |-> dlist_for_each_item(h)]

TypeOK == mem \in [Nodes -> [next : Nodes, prev : Nodes]]

(* Every node is the predecessor of its successor and the successor of its *)
(* predecessor: the forward and backward chains never disagree, whatever   *)
(* sequence of adds and removes the client made.                           *)
DoublyLinked ==
    \A n \in Nodes : mem[mem[n].next].prev = n /\ mem[mem[n].prev].next = n

(* dlist_empty() on an item (the test hlist relies on to know whether an   *)
(* item may be added or deleted) is true exactly when the item is in no    *)
(* list, also after it was removed from one.                               *)
EmptyIffUnlinked ==
    \A i \in Items : dlist_empty(i) <=> i \notin Abs!Linked

(* The pointer-level list implements the abstract list of DListSpec.       *)
Refinement == Abs!Spec

=============================================================================
