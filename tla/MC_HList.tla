------------------------------ MODULE MC_HList ------------------------------
EXTENDS HList

CONSTANTS x1, x2, x3, r1

(* One root head and three items: enough for an item with a child in each  *)
(* of its two child lists, or a chain of three generations.                *)
MC_Items == {x1, x2, x3}
MC_Roots == {r1}

=============================================================================
