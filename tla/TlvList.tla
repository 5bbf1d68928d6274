------------------------------- MODULE TlvList -------------------------------
(***************************************************************************)
(* The TLV list API of include/tlv.h: the registry tlv_defs_t with         *)
(* tlv_find_def(), tlv_add(), tlv_parse() and tlv_forge(), driven by a      *)
(* sender, a link and a receiver.                                          *)
(*                                                                         *)
(*  - The sender builds its list the documented way, TLV_DECLARE() of a     *)
(*    loose TLV then tlv_add() (struct tlv: "created by tlv_parse(),        *)
(*    updated with tlv_add()"), and forges it with a max_length.           *)
(*  - The link delivers the forged packet or any truncation of it.         *)
(*  - The receiver calls tlv_parse() on what arrived, up to PARSES times    *)
(*    into the same list, as when a TLV split over several packets is      *)
(*    parsed into one list (tlv_def::aggregate).                           *)
(*  - Everyone then releases what they hold: hlist_delete() on both lists *)
(*    and free() of the forged buffer.                                     *)
(*                                                                         *)
(* tlv.c is absent; each operation follows its contract in tlv.h.  A TLV  *)
(* is a record [type, val]: val is a TlvStruct value tree for a registered *)
(* type and the raw value bytes for an unknown one (struct tlv_unknown).   *)
(* On the wire a TLV is its type byte, a two-byte big-endian length (the   *)
(* uint16_t length of struct tlv_unknown) and its value.  A parse is one   *)
(* step per TLV, so that a failure after some TLVs were appended is a      *)
(* state of its own.                                                       *)
(***************************************************************************)
EXTENDS TlvStructCodec

CONSTANTS
    TLV_TYPE_NUM,            \* slots of tlv_defs_t: one per type byte
    Defs,                    \* type -> description id, or NULL for an empty slot
    ADD_REJECTS_DUPLICATE,   \* tlv_add() fails on a second TLV of one type
    TlvValues,               \* the TLVs the sender may declare
    MAX_TLVS,                \* bound on the sender's list
    MaxLengths,              \* the max_length values tlv_forge() is given
    PARSES,                  \* bound on tlv_parse() calls per delivered frame
    NULL

(* The static initialisers TLV_DEF_ENTRY_0FIELDS .. _3FIELDS: an entry has *)
(* at most three fields and one child list ({child, NULL}).                *)
TLV_DEF_ENTRY(d) == Len(Descs[d].fields) <= 3 /\ Len(Descs[d].children) <= 1

ASSUME \A t \in 0 .. TLV_TYPE_NUM - 1 : Defs[t] # NULL => TLV_DEF_ENTRY(Defs[t])

(* tlv_find_def(): the slot of the type; NULL when its size is 0.          *)
tlv_find_def(type) == Defs[type]

TLV_HDR == 3   \* type byte and two length bytes

(* aggregate is not implemented, so a second TLV of a type cannot be       *)
(* merged into the first.                                                  *)
Duplicate(list, tlv) == \E i \in DOMAIN list : list[i].type = tlv.type

(* tlv_add(): append, or fail when a TLV of the type is already present    *)
(* and the two cannot be aggregated.                                       *)
tlv_add(list, tlv) ==
    IF ADD_REJECTS_DUPLICATE /\ Duplicate(list, tlv)
    THEN [ok |-> FALSE, list |-> list]
    ELSE [ok |-> TRUE, list |-> Append(list, tlv)]

(* The value of a TLV on the wire and its length.                          *)
TlvValueBytes(tlv) ==
    IF tlv_find_def(tlv.type) = NULL THEN tlv.val ELSE tlv_struct_forge(tlv.val)
TlvLength(tlv) ==
    IF tlv_find_def(tlv.type) = NULL THEN Len(tlv.val) ELSE tlv_struct_length(tlv.val)

LengthBytes(n) == <<(n \div 256) % 256, n % 256>>

(* tlv_forge(): the length of the packet from the length functions, then   *)
(* every TLV in list order.                                                *)
tlv_forge_length(list) == Sum([i \in DOMAIN list |-> TLV_HDR + TlvLength(list[i])])

tlv_forge(list) ==
    FlattenSeq([i \in DOMAIN list |->
                   <<list[i].type>> \o LengthBytes(TlvLength(list[i])) \o TlvValueBytes(list[i])])

ParseFail == [ok |-> FALSE]

(* Mutant: a TLV whose value ends exactly at the end of the buffer is      *)
(* rejected (>= instead of >).                                             *)
ParseTlv_offbyone(buf, pos) ==
    LET r == Len(buf) - pos + 1
    IN  IF r < TLV_HDR THEN ParseFail
        ELSE LET len == buf[pos + 1] * 256 + buf[pos + 2]
             IN  IF len >= r - TLV_HDR THEN ParseFail
                 ELSE [ok |-> TRUE, next |-> pos + TLV_HDR + len,
                       tlv |-> [type |-> buf[pos], val |-> SubSeq(buf, pos + TLV_HDR, pos + 2 + len)]]

(* One iteration of tlv_parse() at byte pos: the header must fit, the      *)
(* value must fit, then an unknown type is kept as raw bytes and a known   *)
(* one is parsed by its description, which must take exactly the value.    *)
ParseTlv(buf, pos) ==
    LET r == Len(buf) - pos + 1
    IN  IF r < TLV_HDR THEN ParseFail
        ELSE LET type  == buf[pos]
                 len   == buf[pos + 1] * 256 + buf[pos + 2]
                 value == SubSeq(buf, pos + TLV_HDR, pos + 2 + len)
                 d     == tlv_find_def(type)
                 p     == tlv_struct_parse(d, value)
             IN  IF len > r - TLV_HDR THEN ParseFail
                 ELSE IF d = NULL
                 THEN [ok |-> TRUE, next |-> pos + TLV_HDR + len, tlv |-> [type |-> type, val |-> value]]
                 ELSE IF p.ok /\ p.rest = <<>>
                 THEN [ok |-> TRUE, next |-> pos + TLV_HDR + len, tlv |-> [type |-> type, val |-> p.val]]
                 ELSE ParseFail

-----------------------------------------------------------------------------
VARIABLES
    txList,   \* the sender's list
    pkt,      \* the buffer tlv_forge() allocated, or NULL
    wire,     \* the bytes that reached the receiver, or NULL
    rxList,   \* the receiver's list
    cursor,   \* position of the running tlv_parse() in wire, or NULL
    result,   \* what the last tlv_parse() returned (NULL before one ends)
    parses,   \* tlv_parse() calls made on wire
    tlvHeap,  \* TLV objects allocated and not freed
    bufHeap,  \* forge buffers allocated and not freed
    phase     \* "build", "sent", "failed" (forge returned false), "done"

vars == <<txList, pkt, wire, rxList, cursor, result, parses, tlvHeap, bufHeap, phase>>

Init ==
    /\ txList = <<>>  /\ rxList = <<>>
    /\ pkt = NULL     /\ wire = NULL
    /\ cursor = NULL  /\ result = NULL  /\ parses = 0
    /\ tlvHeap = 0    /\ bufHeap = 0
    /\ phase = "build"

(* TLV_DECLARE(name, defs, ..., NULL) allocates a loose TLV and tlv_add()  *)
(* appends it; when tlv_add() fails the caller frees it.                  *)
Add ==
    /\ phase = "build"
    /\ Len(txList) < MAX_TLVS
    /\ \E tlv \in TlvValues :
          LET a == tlv_add(txList, tlv)
          IN  /\ txList' = a.list
              /\ tlvHeap' = IF a.ok THEN tlvHeap + 1 ELSE tlvHeap
    /\ UNCHANGED <<pkt, wire, rxList, cursor, result, parses, bufHeap, phase>>

(* tlv_forge() with a list that fits: one buffer, fully written.           *)
ForgeOk ==
    /\ phase = "build"
    /\ \E max \in MaxLengths : tlv_forge_length(txList) <= max
    /\ pkt' = tlv_forge(txList)
    /\ bufHeap' = bufHeap + 1
    /\ phase' = "sent"
    /\ UNCHANGED <<txList, wire, rxList, cursor, result, parses, tlvHeap>>

(* tlv_forge() with a list longer than max_length: fragmentation is not    *)
(* implemented, so it returns false and allocates nothing.                 *)
ForgeTooLong ==
    /\ phase = "build"
    /\ \E max \in MaxLengths : tlv_forge_length(txList) > max
    /\ phase' = "failed"
    /\ UNCHANGED <<txList, pkt, wire, rxList, cursor, result, parses, tlvHeap, bufHeap>>

(* The link delivers the packet, or only its first n bytes.               *)
Deliver ==
    /\ phase = "sent"
    /\ wire = NULL
    /\ \E n \in 0 .. Len(pkt) : wire' = SubSeq(pkt, 1, n)
    /\ UNCHANGED <<txList, pkt, rxList, cursor, result, parses, tlvHeap, bufHeap, phase>>

ParseBegin ==
    /\ phase = "sent"
    /\ wire # NULL
    /\ cursor = NULL
    /\ parses < PARSES
    /\ cursor' = 1
    /\ result' = NULL
    /\ parses' = parses + 1
    /\ UNCHANGED <<txList, pkt, wire, rxList, tlvHeap, bufHeap, phase>>

(* The TLV at the cursor is parsed (allocated) and tlv_add() appends it.   *)
ParseStep ==
    /\ cursor # NULL
    /\ cursor <= Len(wire)
    /\ LET p == ParseTlv(wire, cursor)
           a == tlv_add(rxList, p.tlv)
       IN  /\ p.ok
           /\ a.ok
           /\ rxList' = a.list
           /\ cursor' = p.next
    /\ tlvHeap' = tlvHeap + 1
    /\ UNCHANGED <<txList, pkt, wire, result, parses, bufHeap, phase>>

(* Mutant: the refused TLV is freed twice.                                 *)
ParseReject_double_free ==
    /\ cursor # NULL
    /\ cursor <= Len(wire)
    /\ LET p == ParseTlv(wire, cursor)
       IN  p.ok /\ ~tlv_add(rxList, p.tlv).ok
    /\ cursor' = NULL
    /\ result' = FALSE
    /\ tlvHeap' = tlvHeap - 1
    /\ UNCHANGED <<txList, pkt, wire, rxList, parses, bufHeap, phase>>

(* tlv_add() refuses the parsed TLV: tlv_parse() returns false at once,    *)
(* keeping the TLVs already appended.  tlv.h does not say what becomes of  *)
(* the refused TLV; it is on no list the caller could hlist_delete(), so   *)
(* the model has tlv_parse() free it.                                      *)
ParseReject ==
    /\ cursor # NULL
    /\ cursor <= Len(wire)
    /\ LET p == ParseTlv(wire, cursor)
       IN  p.ok /\ ~tlv_add(rxList, p.tlv).ok
    /\ cursor' = NULL
    /\ result' = FALSE
    /\ UNCHANGED <<txList, pkt, wire, rxList, parses, tlvHeap, bufHeap, phase>>

(* The bytes at the cursor are not a whole TLV: return false at once.      *)
ParseMalformed ==
    /\ cursor # NULL
    /\ cursor <= Len(wire)
    /\ ~ParseTlv(wire, cursor).ok
    /\ cursor' = NULL
    /\ result' = FALSE
    /\ UNCHANGED <<txList, pkt, wire, rxList, parses, tlvHeap, bufHeap, phase>>

(* The buffer is exhausted: tlv_parse() returns true.                      *)
ParseDone ==
    /\ cursor # NULL
    /\ cursor > Len(wire)
    /\ cursor' = NULL
    /\ result' = TRUE
    /\ UNCHANGED <<txList, pkt, wire, rxList, parses, tlvHeap, bufHeap, phase>>

(* hlist_delete() of both lists and free() of the forged buffer.           *)
Cleanup ==
    /\ phase # "done"
    /\ cursor = NULL
    /\ txList' = <<>>
    /\ rxList' = <<>>
    /\ tlvHeap' = tlvHeap - Len(txList) - Len(rxList)
    /\ pkt' = NULL
    /\ bufHeap' = IF pkt = NULL THEN bufHeap ELSE bufHeap - 1
    /\ phase' = "done"
    /\ UNCHANGED <<wire, cursor, result, parses>>

Next ==
    \/ Add \/ ForgeOk \/ ForgeTooLong \/ Deliver
    \/ ParseBegin \/ ParseStep \/ ParseReject \/ ParseMalformed \/ ParseDone
    \/ Cleanup

Spec == Init /\ [][Next]_vars

-----------------------------------------------------------------------------
TypeOK ==
    /\ \A i \in DOMAIN txList : txList[i] \in TlvValues
    /\ \A i \in DOMAIN rxList : rxList[i] \in TlvValues
    /\ cursor \in Nat \cup {NULL}
    /\ result \in BOOLEAN \cup {NULL}
    /\ parses \in 0 .. PARSES
    /\ tlvHeap \in Nat /\ bufHeap \in Nat
    /\ phase \in {"build", "sent", "failed", "done"}

(* The length of the first k TLVs of a list once forged.                   *)
ForgedLen(list, k) == tlv_forge_length(SubSeq(list, 1, k))

(* The TLVs of a list whose encodings lie wholly in its first n bytes.     *)
Fitting(list, n) ==
    SubSeq(list, 1, CHOOSE k \in 0 .. Len(list) :
                        ForgedLen(list, k) <= n /\ (k = Len(list) \/ ForgedLen(list, k + 1) > n))

(* The first tlv_parse() into the empty list, of the forged packet cut     *)
(* after any byte, appends exactly the TLVs the sender added whose bytes    *)
(* all arrived, in their order and with their values, unknown types        *)
(* included, and returns true exactly when the cut falls between two TLVs. *)
(* This ties the parse loop, the length checks and unknown-type            *)
(* pass-through of tlv_parse() to what tlv_forge() writes.                 *)
ParseYieldsForgedPrefix ==
    (parses = 1 /\ result # NULL /\ phase = "sent") =>
        /\ rxList = Fitting(txList, Len(wire))
        /\ result = (\E k \in 0 .. Len(txList) : ForgedLen(txList, k) = Len(wire))

=============================================================================
