------------------------------- MODULE MC_DList -------------------------------
(* Two list heads and four items: enough for an item to move between       *)
(* lists, for a list to hold items added at both ends and in the middle,   *)
(* and for every aliasing case of dlist_add_head (empty list, anchor that  *)
(* is the last item, anchor that is the first item).                       *)
EXTENDS DList

CONSTANTS h1, h2, i1, i2, i3, i4

MC_Heads == {h1, h2}
MC_Items == {i1, i2, i3, i4}

=============================================================================
