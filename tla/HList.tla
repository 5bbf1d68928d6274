-------------------------------- MODULE HList --------------------------------
(***************************************************************************)
(* The hierarchical list of include/hlist.h over the pointer-level dlist   *)
(* of DList.tla.  An hlist_item x has its list link l, the node <<x, 0>>,  *)
(* and HLIST_MAX_CHILDREN child list heads <<x, 1>> .. <<x, k>>; a root    *)
(* head (a static or stack dlist_head a caller owns) is <<r, 1>>.  All of  *)
(* them live in one dlist memory, and the dlist operations are DList's,    *)
(* applied to that memory through a parameterised INSTANCE.                *)
(*                                                                         *)
(* hlist.c is not in the repository: hlist_alloc(), hlist_delete() and    *)
(* hlist_delete_item() are modelled from their contracts in hlist.h and    *)
(* spec section 4.1.  The two deletes are mutually recursive; they run as  *)
(* a call stack, one loop iteration per step, so that the walk that        *)
(* removes and frees the items of a list while iterating over it is       *)
(* explicit.  hlist.h does not fix the order of the walk (reading the      *)
(* successor before unlinking is this model's choice), so no property here *)
(* is about that order or its termination.                                 *)
(***************************************************************************)
EXTENDS Naturals, Sequences, FiniteSets, SequencesExt

CONSTANTS Items, Roots, HLIST_MAX_CHILDREN, NULL

Slots == 1 .. HLIST_MAX_CHILDREN

Link(x) == <<x, 0>>
Links == {Link(x) : x \in Items}
RootHeads == {<<r, 1>> : r \in Roots}
ChildHeads(S) == {<<x, k>> : x \in S, k \in Slots}
HeadNodes == RootHeads \cup ChildHeads(Items)

VARIABLES
    mem,    \* next/prev of every dlist node (DList's memory)
    live,   \* items currently allocated
    stack   \* frames of the running hlist_delete / hlist_delete_item call

vars == <<mem, live, stack>>

D(m) == INSTANCE DList WITH Heads <- HeadNodes, Items <- Links, mem <- m

Nodes == HeadNodes \cup Links

LiveHeads == RootHeads \cup ChildHeads(live)

(* The head of the list an item's link is in, or NULL when it is loose.    *)
HeadOf(x) ==
    IF D(mem)!dlist_empty(Link(x)) THEN NULL
    ELSE CHOOSE h \in HeadNodes : Link(x) \in ToSet(D(mem)!dlist_for_each_item(h))

Init ==
    /\ mem = [n \in Nodes |-> [next |-> n, prev |-> n]]
    /\ live = {}
    /\ stack = <<>>

-----------------------------------------------------------------------------
(* Mutant: the zeroed child list heads are not initialised as lists.      *)
hlist_alloc_zeroed(x, parent) ==
    /\ stack = <<>>
    /\ x \notin live
    /\ parent \in LiveHeads \cup {NULL}
    /\ LET fresh == [n \in Nodes |->
                       IF n[1] = x /\ n[2] = 0 THEN [next |-> n, prev |-> n]
                       ELSE IF n[1] = x THEN [next |-> NULL, prev |-> NULL]
                       ELSE mem[n]]
       IN  mem' = IF parent = NULL THEN fresh
                  ELSE D(fresh)!dlist_add_tail(parent, Link(x))
    /\ live' = live \cup {x}
    /\ UNCHANGED stack

(* hlist_alloc(size, parent): zeroed item whose link and child lists are   *)
(* initialised empty, appended to parent unless parent is NULL.            *)
hlist_alloc(x, parent) ==
    /\ stack = <<>>
    /\ x \notin live
    /\ parent \in LiveHeads \cup {NULL}
    /\ LET fresh == [n \in Nodes |->
                       IF n[1] = x THEN [next |-> n, prev |-> n] ELSE mem[n]]
       IN  mem' = IF parent = NULL THEN fresh
                  ELSE D(fresh)!dlist_add_tail(parent, Link(x))
    /\ live' = live \cup {x}
    /\ UNCHANGED stack

ListFrame(h) == [kind |-> "list", head |-> h, cur |-> mem[h].next]
ItemFrame(x) == [kind |-> "item", item |-> x, k |-> 1]

Top == stack[Len(stack)]
SetTop(f) == [stack EXCEPT ![Len(stack)] = f]

(* hlist_delete(list), called by a client on a live head.                  *)
hlist_delete(h) ==
    /\ stack = <<>>
    /\ h \in LiveHeads
    /\ stack' = <<ListFrame(h)>>
    /\ UNCHANGED <<mem, live>>

(* hlist_delete_item(item), called by a client on a loose item (the        *)
(* documented precondition: the item is not part of a list).               *)
hlist_delete_item(x) ==
    /\ stack = <<>>
    /\ x \in live
    /\ D(mem)!dlist_empty(Link(x))
    /\ stack' = <<ItemFrame(x)>>
    /\ UNCHANGED <<mem, live>>

(* One iteration of the hlist_delete loop: at the head, return; otherwise  *)
(* remember the successor, unlink the current item (so that the           *)
(* precondition of hlist_delete_item holds) and delete it.                *)
ListStep ==
    /\ stack # <<>> /\ Top.kind = "list"
    /\ LET f == Top IN
       \/ /\ f.cur = f.head
          /\ stack' = Front(stack)
          /\ UNCHANGED mem
       \/ /\ f.cur # f.head
          /\ mem' = D(mem)!dlist_remove(f.cur)
          /\ stack' = Append([stack EXCEPT ![Len(stack)].cur = mem[f.cur].next],
                             ItemFrame(f.cur[1]))
    /\ UNCHANGED live

(* Mutants of the loop over the child lists.                               *)
ChildrenLeft_none(k) == FALSE
ChildrenLeft_first_only(k) == k <= 1

(* The loop over children[] in hlist_delete_item.                          *)
ChildrenLeft(k) == k <= HLIST_MAX_CHILDREN

(* One iteration of hlist_delete_item: delete the next child list, or,     *)
(* when all are done, free() the item.                                     *)
ItemStep ==
    /\ stack # <<>> /\ Top.kind = "item"
    /\ LET f == Top IN
       \/ /\ ChildrenLeft(f.k)
          /\ stack' = Append(SetTop([f EXCEPT !.k = @ + 1]), ListFrame(<<f.item, f.k>>))
          /\ UNCHANGED live
       \/ /\ ~ChildrenLeft(f.k)
          /\ live' = live \ {f.item}
          /\ stack' = Front(stack)
    /\ UNCHANGED mem

Step == ListStep \/ ItemStep

Next ==
    \/ \E x \in Items, p \in HeadNodes \cup {NULL} : hlist_alloc(x, p)
    \/ \E h \in HeadNodes : hlist_delete(h)
    \/ \E x \in Items : hlist_delete_item(x)
    \/ Step

Spec == Init /\ [][Next]_vars

-----------------------------------------------------------------------------
(* Items a running delete has yet to free: those of item frames, and       *)
(* everything linked below the heads the frames still have to walk.       *)
RECURSIVE LinkedBelow(_, _)
LinkedBelow(hs, fuel) ==
    LET kids == {x \in live : \E h \in hs : Link(x) \in ToSet(D(mem)!dlist_for_each_item(h))}
    IN  IF kids = {} \/ fuel = 0 THEN {}
        ELSE kids \cup LinkedBelow(ChildHeads(kids), fuel - 1)

Doomed ==
    LET fs == ToSet(stack)
        xs == {f.item : f \in {g \in fs : g.kind = "item"}}
        hs == {f.head : f \in {g \in fs : g.kind = "list"}} \cup ChildHeads(xs)
    IN  xs \cup LinkedBelow(hs, Cardinality(Items))

Alive == live \ Doomed

Abs == INSTANCE HListSpec
         WITH alive <- Alive,
              owner <- [x \in Items |-> IF x \in Alive THEN HeadOf(x) ELSE NULL],
              LOOSE <- NULL

Frames ==
    [kind : {"list"}, head : HeadNodes, cur : Nodes]
      \cup [kind : {"item"}, item : Items, k : 1 .. HLIST_MAX_CHILDREN + 1]

TypeOK ==
    /\ mem \in [Nodes -> [next : Nodes, prev : Nodes]]
    /\ live \subseteq Items
    /\ stack \in Seq(Frames)

(* No allocated item is linked into a child list of an item that has been  *)
(* freed: deleting an item or a list frees every descendant (spec 8, tree  *)
(* ownership), at every step of the recursive walk.                        *)
OwnedByLive == \A x \in live : HeadOf(x) \in LiveHeads \cup {NULL}

(* The hlist implements the abstract ownership forest of HListSpec: a      *)
(* whole delete call is one DeleteItem or DeleteList step.                 *)
Refinement == Abs!Spec

=============================================================================
