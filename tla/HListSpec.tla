------------------------------ MODULE HListSpec ------------------------------
(***************************************************************************)
(* What the hierarchical list of include/hlist.h promises, with the        *)
(* pointers abstracted away: allocated items form a forest in which every  *)
(* item is loose (in no list) or owned by one list head, either a root     *)
(* head (a static or stack dlist_head) or one of the HLIST_MAX_CHILDREN    *)
(* child lists of an allocated item.  Deleting an item or a list removes   *)
(* everything below it in one step.  HList.tla is shown to implement this  *)
(* module.                                                                 *)
(***************************************************************************)
EXTENDS Naturals, FiniteSets

CONSTANTS Items, Roots, HLIST_MAX_CHILDREN, LOOSE

Slots == 1 .. HLIST_MAX_CHILDREN

(* A root head is <<r, 1>>; child list k of item x is <<x, k>>.            *)
RootHeads == {<<r, 1>> : r \in Roots}

VARIABLES alive, owner

vars == <<alive, owner>>

ChildHeads(S) == {<<x, k>> : x \in S, k \in Slots}

LiveHeads == RootHeads \cup ChildHeads(alive)

(* Every allocated item below the heads hs, at any depth.                  *)
RECURSIVE Below(_, _)
Below(hs, fuel) ==
    LET kids == {x \in alive : owner[x] \in hs}
    IN  IF kids = {} \/ fuel = 0 THEN {}
        ELSE kids \cup Below(ChildHeads(kids), fuel - 1)

Subtree(hs) == Below(hs, Cardinality(Items))

Init ==
    /\ alive = {}
    /\ owner = [x \in Items |-> LOOSE]

(* hlist_alloc(): a new item, loose or appended to a live list.            *)
Alloc(x, p) ==
    /\ x \notin alive
    /\ p \in LiveHeads \cup {LOOSE}
    /\ alive' = alive \cup {x}
    /\ owner' = [owner EXCEPT ![x] = p]

Remove(gone) ==
    /\ alive' = alive \ gone
    /\ owner' = [y \in Items |-> IF y \in gone THEN LOOSE ELSE owner[y]]

(* hlist_delete_item(): a loose item and everything below it.              *)
DeleteItem(x) ==
    /\ x \in alive
    /\ owner[x] = LOOSE
    /\ Remove({x} \cup Subtree(ChildHeads({x})))

(* hlist_delete(): everything below a live list head; the head stays.      *)
DeleteList(h) ==
    /\ h \in LiveHeads
    /\ Remove(Subtree({h}))

Next ==
    \/ \E x \in Items, p \in LiveHeads \cup {LOOSE} : Alloc(x, p)
    \/ \E x \in Items : DeleteItem(x)
    \/ \E h \in LiveHeads : DeleteList(h)

Spec == Init /\ [][Next]_vars

(* No allocated item is owned by a list of an item that no longer exists.  *)
OwnedByLive == \A x \in alive : owner[x] \in LiveHeads \cup {LOOSE}

=============================================================================
