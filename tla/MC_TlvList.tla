----------------------------- MODULE MC_TlvList -----------------------------
EXTENDS TlvList

(* Three registered descriptions: B, a 1-byte field; C, a list of B;       *)
(* Z, a 0-length TLV (no field, no child).                                 *)
MC_Descs ==
    <<[fields |-> <<1>>, children |-> <<>>],     \* 1: B
      [fields |-> <<>>,  children |-> <<1>>],    \* 2: C
      [fields |-> <<>>,  children |-> <<>>]>>    \* 3: Z

(* Types 1, 2 and 3 are registered; 4, like every other slot, is empty.   *)
MC_Defs == [t \in 0 .. 255 |-> IF t \in 1 .. 3 THEN t ELSE NULL]

LeafB(b) == [desc |-> 1, fields |-> <<<<b>>>>, children |-> <<>>]

MC_TlvValues ==
    {[type |-> 1, val |-> LeafB(b)] : b \in {0, 1}}
    \cup {[type |-> 2, val |-> [desc |-> 2, fields |-> <<>>, children |-> <<l>>]] :
            l \in {<<>>, <<LeafB(0)>>}}
    \cup {[type |-> 3, val |-> [desc |-> 3, fields |-> <<>>, children |-> <<>>]]}
    \cup {[type |-> 4, val |-> v] : v \in {<<>>, <<7>>}}

=============================================================================
