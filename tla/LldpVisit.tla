------------------------------ MODULE LldpVisit ------------------------------
(***************************************************************************)
(* visit_lldp_PAYLOAD_structure() of src/lldp_payload.c: for every TLV of  *)
(* list_of_TLVs up to the first NULL, build new_prefix = prefix followed   *)
(* by the TLV's tag with snprintf() into char new_prefix[MAX_PREFIX], and  *)
(* visit the TLV, which calls the callback (print_callback() in the tests) *)
(* once per field with that prefix and the field's name.                   *)
(*                                                                         *)
(* The call is synchronous and touches no state of its own, so it is a set *)
(* of operators that LldpPayload.tla applies in one step of the caller.    *)
(* Data abstraction: strings are their lengths; a TLV is its type.  The    *)
(* outcome of a visit is the longest strlen(prefix) + strlen(name) handed  *)
(* to the callback, the quantity PrintCallback.tla is checked for.        *)
(***************************************************************************)
EXTENDS Naturals, Sequences

CONSTANTS
    MAX_LLDP_TLVS,  \* capacity of PAYLOAD.list_of_TLVs
    MAX_PREFIX,     \* 100 in visit_lldp_PAYLOAD_structure()
    NULL

TLV_TYPE_END_OF_LLDPPDU == 0
TLV_TYPE_CHASSIS_ID     == 1
TLV_TYPE_PORT_ID        == 2
TLV_TYPE_TIME_TO_LIVE   == 3

(* Names of the fields visit_lldp_TLV_structure() hands to the callback:   *)
(* the members of the TLV's struct in lldp_tlvs.h.                         *)
FieldNames(t) ==
    CASE t = TLV_TYPE_CHASSIS_ID   -> <<"chassis_id_subtype", "chassis_id">>
      [] t = TLV_TYPE_PORT_ID      -> <<"port_id_subtype", "port_id">>
      [] t = TLV_TYPE_TIME_TO_LIVE -> <<"ttl">>
      [] OTHER                     -> <<>>

(* The switch on the TLV type: the tag appended to the prefix, or NULL for *)
(* the default branch, which leaves new_prefix unwritten.                  *)
Tag(t) ==
    CASE t = TLV_TYPE_END_OF_LLDPPDU -> "TLV(END_OF_LLDPPDU)"
      [] t = TLV_TYPE_CHASSIS_ID     -> "TLV(CHASSIS_ID)"
      [] t = TLV_TYPE_PORT_ID        -> "TLV(PORT_ID)"
      [] t = TLV_TYPE_TIME_TO_LIVE   -> "TLV(TIME_TO_LIVE)"
      [] OTHER                       -> NULL

(* Mutant: sprintf() without a bound.                                      *)
SnprintfLen_unbounded(n, size) == n

(* strlen() of what snprintf(buf, size, ...) writes for an n-character     *)
(* result: at most size - 1 characters and the NUL.                        *)
SnprintfLen(n, size) == IF n < size THEN n ELSE size - 1

Max2(a, b) == IF a >= b THEN a ELSE b

LongestName(names) ==
    CHOOSE m \in {Len(names[k]) : k \in DOMAIN names} :
        \A k \in DOMAIN names : Len(names[k]) <= m

(* strlen(new_prefix) after the switch: the snprintf() result, or, in the  *)
(* default branch, whatever the uninitialised array holds up to its size.  *)
NewPrefixLens(t, plen) ==
    IF Tag(t) = NULL THEN 0 .. MAX_PREFIX
    ELSE {SnprintfLen(plen + Len(Tag(t)), MAX_PREFIX - 1)}

(* The while loop from index i (C index i - 1): the possible lengths of   *)
(* the longest callback line when visiting the TLVs of types list[i], ...  *)
(* up to the first NULL.  A TLV without fields makes no callback.          *)
RECURSIVE VisitFrom(_, _, _)
VisitFrom(list, plen, i) ==
    IF i > MAX_LLDP_TLVS \/ list[i] = NULL
    THEN {0}
    ELSE LET t     == list[i]
             names == FieldNames(t)
         IN  {IF names = <<>> THEN r ELSE Max2(r, n + LongestName(names)) :
                n \in NewPrefixLens(t, plen), r \in VisitFrom(list, plen, i + 1)}

(* visit_lldp_PAYLOAD_structure(memory_structure, callback, write, prefix) *)
(* for a PAYLOAD given as the types of its TLVs (NULL: no PAYLOAD).        *)
visit_lldp_PAYLOAD_structure(list, plen) ==
    IF list = NULL THEN {0}
    ELSE VisitFrom(list, plen, 1)

=============================================================================
