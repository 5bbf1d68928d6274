--------------------------- MODULE TlvStructCodec ---------------------------
(***************************************************************************)
(* The generic TLV (sub)structure codec of include/tlv.h: the default      *)
(* length, forge, parse and compare functions that a tlv_struct_description *)
(* drives when it has no override (parse/length/forge/compare NULL).       *)
(*                                                                         *)
(* tlv.c is not in the repository; the algorithms are modelled from the    *)
(* contracts documented in tlv.h and from spec sections 4.3-4.4.           *)
(*                                                                         *)
(* Data abstraction: a description is a record of its field sizes and the  *)
(* descriptions of its child lists (at most HLIST_MAX_CHILDREN); a         *)
(* structure is a value tree, its fields byte sequences and its children   *)
(* one sequence of structures per child list (the hlist_item children, as  *)
(* HList.tla shows them to be a forest).  A buffer is a sequence of bytes; *)
(* reading past its end yields zero bytes and is recorded as "oob".        *)
(***************************************************************************)
EXTENDS Naturals, Integers, Sequences, SequencesExt

CONSTANTS
    Descs,       \* description id -> [fields : Seq(Nat), children : Seq(id)]
    COUNT_MOD    \* values the one-byte child count can hold: 256

Sum(s) == FoldSeq(LAMBDA a, b : a + b, 0, s)

(* A list is forged as one byte with its number of children.               *)
CountByte(n) == n % COUNT_MOD

(* The bytes of a buffer a read of n bytes returns.                        *)
Peek(buf, n) == [i \in 1 .. n |-> IF i <= Len(buf) THEN buf[i] ELSE 0]
Skip(buf, n) == IF n >= Len(buf) THEN <<>> ELSE SubSeq(buf, n + 1, Len(buf))

Fail == [ok |-> FALSE, oob |-> FALSE]

-----------------------------------------------------------------------------
(* Default length function and tlv_struct_length_list().                   *)
RECURSIVE tlv_struct_length(_), tlv_struct_length_list(_)
tlv_struct_length(t) ==
    Sum(Descs[t.desc].fields)
      + Sum([k \in DOMAIN t.children |-> tlv_struct_length_list(t.children[k])])

(* Mutant: the count byte is not counted.                                 *)
tlv_struct_length_list_nocount(l) == Sum([i \in DOMAIN l |-> tlv_struct_length(l[i])])

tlv_struct_length_list(l) == 1 + Sum([i \in DOMAIN l |-> tlv_struct_length(l[i])])

(* Default forge function: the fields in order (tlv_struct_forge_field),   *)
(* then each child list (tlv_struct_forge_list).                           *)
RECURSIVE tlv_struct_forge(_), tlv_struct_forge_list(_)
tlv_struct_forge(t) ==
    FlattenSeq(t.fields)
      \o FlattenSeq([k \in DOMAIN t.children |-> tlv_struct_forge_list(t.children[k])])

tlv_struct_forge_list(l) ==
    <<CountByte(Len(l))>> \o FlattenSeq([i \in DOMAIN l |-> tlv_struct_forge(l[i])])

-----------------------------------------------------------------------------
(* Mutant: the remaining length is not checked before a field is read.     *)
HasBytes_unchecked(buf, n) == TRUE

(* The length check before every read (the _EnBL() accessors).             *)
HasBytes(buf, n) == n <= Len(buf)

(* Read n bytes at the cursor; oob when the buffer is shorter.             *)
Read(buf, n) ==
    IF HasBytes(buf, n)
    THEN [ok |-> TRUE, oob |-> n > Len(buf), val |-> Peek(buf, n), rest |-> Skip(buf, n)]
    ELSE Fail

(* Default parse function: the fields in order (tlv_struct_parse_field),   *)
(* then each child list (tlv_struct_parse_list: a count byte, then that    *)
(* many structures of the child description).  A result is a record with *)
(* ok, oob and, when ok, the value and the rest of the buffer.             *)
RECURSIVE ParseFields(_, _, _, _), ParseLists(_, _, _, _, _),
          tlv_struct_parse_list(_, _), ParseN(_, _, _, _, _), tlv_struct_parse(_, _)

ParseFields(d, i, buf, acc) ==
    IF i > Len(Descs[d].fields) THEN [ok |-> TRUE, oob |-> FALSE, val |-> acc, rest |-> buf]
    ELSE LET r == Read(buf, Descs[d].fields[i])
         IN  IF ~r.ok THEN Fail
             ELSE LET s == ParseFields(d, i + 1, r.rest, Append(acc, r.val))
                  IN  [s EXCEPT !.oob = @ \/ r.oob]

ParseN(cd, n, buf, acc, oob) ==
    IF n = 0 THEN [ok |-> TRUE, oob |-> oob, val |-> acc, rest |-> buf]
    ELSE LET r == tlv_struct_parse(cd, buf)
         IN  IF ~r.ok THEN [Fail EXCEPT !.oob = oob \/ r.oob]
             ELSE ParseN(cd, n - 1, r.rest, Append(acc, r.val), oob \/ r.oob)

(* Mutant: the cursor is not advanced past the count byte.                 *)
tlv_struct_parse_list_noadvance(cd, buf) ==
    LET c == Read(buf, 1)
    IN  IF ~c.ok THEN Fail ELSE ParseN(cd, c.val[1], buf, <<>>, c.oob)

tlv_struct_parse_list(cd, buf) ==
    LET c == Read(buf, 1)
    IN  IF ~c.ok THEN Fail ELSE ParseN(cd, c.val[1], c.rest, <<>>, c.oob)

ParseLists(d, k, buf, acc, oob) ==
    IF k > Len(Descs[d].children) THEN [ok |-> TRUE, oob |-> oob, val |-> acc, rest |-> buf]
    ELSE LET r == tlv_struct_parse_list(Descs[d].children[k], buf)
         IN  IF ~r.ok THEN [Fail EXCEPT !.oob = oob \/ r.oob]
             ELSE ParseLists(d, k + 1, r.rest, Append(acc, r.val), oob \/ r.oob)

tlv_struct_parse(d, buf) ==
    LET f == ParseFields(d, 1, buf, <<>>)
    IN  IF ~f.ok THEN f
        ELSE LET c == ParseLists(d, 1, f.rest, <<>>, f.oob)
             IN  IF ~c.ok THEN c
                 ELSE [ok |-> TRUE, oob |-> c.oob, rest |-> c.rest,
                       val |-> [desc |-> d, fields |-> f.val, children |-> c.val]]

-----------------------------------------------------------------------------
(* memcmp() of two byte sequences of the same length.                      *)
RECURSIVE CompareBytes(_, _, _)
CompareBytes(a, b, i) ==
    IF i > Len(a) THEN 0
    ELSE IF a[i] < b[i] THEN -1
    ELSE IF a[i] > b[i] THEN 1
    ELSE CompareBytes(a, b, i + 1)

(* Default compare function: different descriptions are ordered by their  *)
(* identity; otherwise the fields byte by byte, then the child lists slot  *)
(* by slot, each item by item (tlv_struct_compare_list), a list that ends  *)
(* first being the smaller.                                                *)
RECURSIVE tlv_struct_compare_list(_, _, _), tlv_struct_compare(_, _)

(* Mutant: a list that ends first compares equal to the longer one.        *)
tlv_struct_compare_list_prefix(l1, l2, i) ==
    IF i > Len(l1) \/ i > Len(l2) THEN 0
    ELSE LET c == tlv_struct_compare(l1[i], l2[i])
         IN  IF c # 0 THEN c ELSE tlv_struct_compare_list(l1, l2, i + 1)

tlv_struct_compare_list(l1, l2, i) ==
    IF i > Len(l1) /\ i > Len(l2) THEN 0
    ELSE IF i > Len(l1) THEN -1
    ELSE IF i > Len(l2) THEN 1
    ELSE LET c == tlv_struct_compare(l1[i], l2[i])
         IN  IF c # 0 THEN c ELSE tlv_struct_compare_list(l1, l2, i + 1)

tlv_struct_compare(a, b) ==
    IF a.desc # b.desc THEN (IF a.desc < b.desc THEN -1 ELSE 1)
    ELSE LET c == CompareBytes(FlattenSeq(a.fields), FlattenSeq(b.fields), 1)
             cs == [k \in DOMAIN a.children |-> tlv_struct_compare_list(a.children[k], b.children[k], 1)]
             nz == {k \in DOMAIN cs : cs[k] # 0}
         IN  IF c # 0 THEN c
             ELSE IF nz = {} THEN 0
             ELSE cs[CHOOSE k \in nz : \A j \in nz : k <= j]

=============================================================================
