---------------------------- MODULE MC_TlvStruct ----------------------------
EXTENDS TlvStruct

(* Three descriptions: B has one 1-byte field and no children; C has no    *)
(* field and a list of B; A has no field and two child lists, of B and of *)
(* C (HLIST_MAX_CHILDREN = 2), so that lists nest two deep and the slot    *)
(* order matters.                                                          *)
MC_Descs ==
    <<[fields |-> <<1>>, children |-> <<>>],        \* 1: B
      [fields |-> <<>>,  children |-> <<1>>],       \* 2: C
      [fields |-> <<>>,  children |-> <<1, 2>>]>>   \* 3: A

Bytes == {0, 1}
LIST_MAX == 2

ListsOf(S) == UNION {[1 .. n -> S] : n \in 0 .. LIST_MAX}

(* Every structure of description d with lists of at most LIST_MAX items. *)
RECURSIVE TreesOf(_)
TreesOf(d) ==
    LET fs == MC_Descs[d].fields
        cs == MC_Descs[d].children
        Slot(k) == ListsOf(TreesOf(cs[k]))
    IN  {[desc |-> d, fields |-> f, children |-> c] :
            f \in {g \in [DOMAIN fs -> UNION {[1 .. fs[i] -> Bytes] : i \in DOMAIN fs}] :
                      \A i \in DOMAIN fs : g[i] \in [1 .. fs[i] -> Bytes]},
            c \in {g \in [DOMAIN cs -> UNION {Slot(k) : k \in DOMAIN cs}] :
                      \A k \in DOMAIN cs : g[k] \in Slot(k)}}

MC_Trees == UNION {TreesOf(d) : d \in DOMAIN MC_Descs}

=============================================================================
