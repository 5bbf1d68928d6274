----------------------------- MODULE LldpPayload -----------------------------
(***************************************************************************)
(* The LLDP payload codec of src/lldp_payload.c: parse, forge, compare and *)
(* free of a struct PAYLOAD, driven by a caller that runs the sequence of  *)
(* calls of the repository's tests (tests/lldp_payload_parsing.c,          *)
(* tests/lldp_payload_forging.c) and of the AL entity (parse a received    *)
(* bridge discovery frame, build and forge one to send, free both).        *)
(*                                                                         *)
(* Data abstraction: a frame is the sequence of its TLVs; a TLV is its     *)
(* type and a value standing for its body (MAC address, TTL).  A PAYLOAD   *)
(* is list_of_TLVs, a function from 1..MAX_LLDP_TLVS (C index + 1) to a    *)
(* TLV or NULL.  The heap is three counters of live allocations: PAYLOAD   *)
(* structs, TLV structs, forged byte buffers.                              *)
(***************************************************************************)
EXTENDS Naturals, Sequences, FiniteSets

CONSTANTS
    MAX_LLDP_TLVS,  \* capacity of PAYLOAD.list_of_TLVs (lldp_payload.h)
    Values,         \* TLV bodies: the MAC addresses / TTL a TLV can carry
    Frames,         \* frames the caller hands to parse (its input set)
    Payloads,       \* hand-built PAYLOADs the caller hands to forge/compare
    Scripts,        \* sequences of calls the caller makes
    MAX_PREFIX,     \* size of new_prefix in visit_lldp_PAYLOAD_structure()
    PrefixLens,     \* strlen(prefix) the caller passes to the visit
    PRINT_LEN_MAX,  \* strlen(prefix) + strlen(name) checked in PrintCallback
    NULL, UNSET     \* NULL pointer; result not yet produced

ASSUME MAX_LLDP_TLVS \in Nat \ {0}

(* TLV types of lldp_tlvs.h; any other type byte is one the LLDP TLV       *)
(* parser does not handle.                                                 *)
TLV_TYPE_END_OF_LLDPPDU == 0
TLV_TYPE_CHASSIS_ID     == 1
TLV_TYPE_PORT_ID        == 2
TLV_TYPE_TIME_TO_LIVE   == 3
UNSUPPORTED_TLV_TYPE    == 4

Mandatory == {TLV_TYPE_CHASSIS_ID, TLV_TYPE_PORT_ID, TLV_TYPE_TIME_TO_LIVE}

EndTlv == [type |-> TLV_TYPE_END_OF_LLDPPDU, val |-> NULL]

WireTlvs ==
    {EndTlv, [type |-> UNSUPPORTED_TLV_TYPE, val |-> NULL]}
      \cup [type : Mandatory, val : Values]

Slots == 1 .. MAX_LLDP_TLVS

VARIABLES
    frame,        \* the bytes parse reads
    exp,          \* the PAYLOAD forge encodes and compare takes second
    rx,           \* result of parse: UNSET, NULL or a PAYLOAD
    out,          \* result of forge: UNSET, NULL or a frame
    cmp,          \* result of compare: UNSET, 0, 1
    loop,         \* locals of a running parse call, or NULL
    todo,         \* calls the caller has still to make
    payloadHeap,  \* live struct PAYLOAD allocations
    tlvHeap,      \* live struct tlv allocations
    bufHeap,      \* live forged buffers
    overread,     \* parse has read beyond the end of the frame
    printed       \* longest strlen(prefix) + strlen(name) a visit passed to print_callback

codecVars == <<frame, exp, rx, out, cmp, loop, todo, payloadHeap, tlvHeap, bufHeap, overread>>
visitVars == <<printed>>
vars == <<codecVars, visitVars>>

V == INSTANCE LldpVisit

-----------------------------------------------------------------------------
(* Helpers translated from the code.                                       *)

(* parse_lldp_TLV_from_packet(): the TLV at the cursor, or NULL when its   *)
(* type is not one of the four the parser handles.                         *)
parse_lldp_TLV_from_packet(w) ==
    IF w.type \in Mandatory \cup {TLV_TYPE_END_OF_LLDPPDU} THEN w ELSE NULL

(* compare_lldp_TLV_structures(): 0 iff same type and same data.           *)
compare_lldp_TLV_structures(t1, t2) ==
    IF t1 # NULL /\ t2 # NULL /\ t1 = t2 THEN 0 ELSE 1

(* Number of TLVs of type t among the first n entries of a list.           *)
CountType(list, n, t) == Cardinality({j \in 1 .. n : list[j].type = t})

(* The entries a loop that stops at the first NULL visits.                 *)
Used(list) ==
    LET nulls == {j \in Slots : list[j] = NULL}
        n     == IF nulls = {} THEN MAX_LLDP_TLVS
                 ELSE CHOOSE j \in nulls : \A k \in nulls : j <= k
    IN  IF nulls = {} THEN [j \in 1 .. n |-> list[j]] ELSE [j \in 1 .. n - 1 |-> list[j]]

ToSetOf(s) == {s[j] : j \in DOMAIN s}

(* The TLV of type t in a list that holds exactly one of each type.        *)
TheTlv(s, t) == s[CHOOSE j \in DOMAIN s : s[j].type = t]

(* compare_lldp_PAYLOAD_structures(): walk both lists until both are NULL  *)
(* at the same index, without a bound on the index; past the array it      *)
(* reads out of bounds, shown as the result "oob".                         *)
(* Mutant: || for && in the end-of-lists test.                             *)
RECURSIVE CompareFrom_either(_, _, _)
CompareFrom_either(a, b, i) ==
    IF i > MAX_LLDP_TLVS THEN "oob"
    ELSE IF a[i] = NULL \/ b[i] = NULL THEN 0
    ELSE IF compare_lldp_TLV_structures(a[i], b[i]) # 0 THEN 1
    ELSE CompareFrom_either(a, b, i + 1)

RECURSIVE CompareFrom(_, _, _)
CompareFrom(a, b, i) ==
    IF i > MAX_LLDP_TLVS THEN "oob"
    ELSE IF a[i] = NULL /\ b[i] = NULL THEN 0
    ELSE IF compare_lldp_TLV_structures(a[i], b[i]) # 0 THEN 1
    ELSE CompareFrom(a, b, i + 1)

compare_lldp_PAYLOAD_structures(a, b) ==
    IF a = NULL \/ b = NULL THEN 1 ELSE CompareFrom(a, b, 1)

(* The caller gives up on the remaining calls but still cleans up.         *)
Abandon == todo' = <<"free">>

Return == todo' = Tail(todo)

Call(name) == todo # <<>> /\ Head(todo) = name

-----------------------------------------------------------------------------
(* parse_lldp_PAYLOAD_from_packet(frame), one loop iteration per step.     *)

(* Mutant: the list capacity is not checked.                               *)
ParseBail_no_cap(tlv, i) == tlv = NULL

(* The bail-out test of the loop: a parse error or a full list.            *)
ParseBail(tlv, i) == tlv = NULL \/ i = MAX_LLDP_TLVS

(* Mutant: "at least one" instead of "exactly one".                        *)
RequiredOnce_atleast(list, n) == \A t \in Mandatory : CountType(list, n, t) >= 1

(* The final check of parse: one chassis ID, one port ID, one TTL TLV.     *)
RequiredOnce(list, n) == \A t \in Mandatory : CountType(list, n, t) = 1

ParseBegin ==
    /\ Call("parse")
    /\ loop = NULL
    /\ loop' = [phase |-> "read", i |-> 0, p |-> 1, list |-> [j \in Slots |-> NULL]]
    /\ payloadHeap' = payloadHeap + 1
    /\ UNCHANGED <<frame, exp, rx, out, cmp, todo, tlvHeap, bufHeap, overread>>

(* One iteration of while (1): parse the TLV at p; bail out on a parse     *)
(* error or a full list, stop at the end TLV, otherwise store it.  The     *)
(* function has no length argument: past the frame it reads whatever       *)
(* bytes follow it.                                                        *)
ParseRead ==
    /\ loop # NULL /\ loop.phase = "read"
    /\ LET inFrame == loop.p <= Len(frame)
       IN
       \E w \in IF inFrame THEN {frame[loop.p]} ELSE WireTlvs :
         LET tlv == parse_lldp_TLV_from_packet(w)
         IN
         /\ overread' = (overread \/ ~inFrame)
         /\ \/ /\ ParseBail(tlv, loop.i)
               /\ tlvHeap' = tlvHeap + (IF tlv # NULL THEN 1 ELSE 0) - loop.i
               /\ payloadHeap' = payloadHeap - 1
               /\ rx' = NULL
               /\ loop' = NULL
               /\ Return
            \/ /\ ~ParseBail(tlv, loop.i)
               /\ tlv.type = TLV_TYPE_END_OF_LLDPPDU
               /\ loop' = [loop EXCEPT !.phase = "check"]
               /\ UNCHANGED <<tlvHeap, payloadHeap, rx, todo>>
            \/ /\ ~ParseBail(tlv, loop.i)
               /\ tlv.type # TLV_TYPE_END_OF_LLDPPDU
               /\ loop' = [loop EXCEPT !.list[loop.i + 1] = tlv, !.i = @ + 1, !.p = @ + 1]
               /\ tlvHeap' = tlvHeap + 1
               /\ UNCHANGED <<payloadHeap, rx, todo>>
    /\ UNCHANGED <<frame, exp, out, cmp, bufHeap>>

(* The frame must hold exactly one chassis ID, port ID and TTL TLV.        *)
ParseCheck ==
    /\ loop # NULL /\ loop.phase = "check"
    /\ loop' = NULL
    /\ IF RequiredOnce(loop.list, loop.i)
       THEN /\ rx' = loop.list
            /\ Return
            /\ UNCHANGED <<tlvHeap, payloadHeap>>
       ELSE /\ rx' = NULL
            /\ tlvHeap' = tlvHeap - loop.i
            /\ payloadHeap' = payloadHeap - 1
            /\ Return
    /\ UNCHANGED <<frame, exp, out, cmp, bufHeap, overread>>

-----------------------------------------------------------------------------
(* Mutant: the end of LLDPDU TLV is not appended.                          *)
ForgedFrame_no_end(s) ==
    << TheTlv(s, TLV_TYPE_CHASSIS_ID), TheTlv(s, TLV_TYPE_PORT_ID),
       TheTlv(s, TLV_TYPE_TIME_TO_LIVE) >>

(* The buffer forge fills: chassis ID, port ID, TTL, end, in that order.   *)
ForgedFrame(s) ==
    << TheTlv(s, TLV_TYPE_CHASSIS_ID), TheTlv(s, TLV_TYPE_PORT_ID),
       TheTlv(s, TLV_TYPE_TIME_TO_LIVE), EndTlv >>

(* Mutant: a failing TLV forge returns without free(buffer).               *)
ForgeFailed_no_free ==
    /\ out' = NULL
    /\ bufHeap' = bufHeap + 1
    /\ Abandon

(* A forge_lldp_TLV_from_structure() call failed: free(buffer), NULL.      *)
ForgeFailed ==
    /\ out' = NULL
    /\ UNCHANGED bufHeap
    /\ Abandon

(* forge_lldp_PAYLOAD_from_structure(exp): check that the list holds one   *)
(* of each mandatory TLV and nothing else, allocate the buffer, forge the  *)
(* chassis ID, port ID, TTL and end TLVs into it in that order; each       *)
(* forge_lldp_TLV_from_structure() call may fail, and then the buffer is   *)
(* freed and NULL returned.                                                *)
Forge ==
    /\ Call("forge")
    /\ LET s == Used(exp)
           valid == /\ \A j \in DOMAIN s : s[j].type \in Mandatory
                    /\ \A t \in Mandatory : CountType(s, Len(s), t) = 1
       IN
       \/ /\ ~valid
          /\ out' = NULL
          /\ UNCHANGED bufHeap
          /\ Abandon
       \/ /\ valid
          /\ ForgeFailed
       \/ /\ valid
          /\ out' = ForgedFrame(s)
          /\ bufHeap' = bufHeap + 1
          /\ Return
    /\ UNCHANGED <<frame, exp, rx, cmp, loop, payloadHeap, tlvHeap, overread>>

(* compare_lldp_PAYLOAD_structures(rx, exp).                               *)
Compare ==
    /\ Call("compare")
    /\ cmp' = compare_lldp_PAYLOAD_structures(rx, exp)
    /\ Return
    /\ UNCHANGED <<frame, exp, rx, out, loop, payloadHeap, tlvHeap, bufHeap, overread>>

(* The types of the TLVs of a PAYLOAD, as the visit's switch sees them.   *)
Types(p) ==
    IF p = NULL THEN NULL
    ELSE [j \in Slots |-> IF p[j] = NULL THEN NULL ELSE p[j].type]

(* The parsing test's _check(): when compare reports a difference, visit   *)
(* the expected and then the real output (NULL when parse failed) with     *)
(* print_callback.                                                         *)
Visit ==
    /\ Call("visit")
    /\ \/ /\ cmp = 0
          /\ UNCHANGED visitVars
       \/ /\ cmp # 0
          /\ \E plen \in PrefixLens :
             \E a \in V!visit_lldp_PAYLOAD_structure(Types(exp), plen),
               b \in V!visit_lldp_PAYLOAD_structure(Types(rx), plen) :
                 /\ printed' = V!Max2(printed, V!Max2(a, b))
    /\ Return
    /\ UNCHANGED <<frame, exp, rx, out, cmp, loop, payloadHeap, tlvHeap, bufHeap, overread>>

(* The caller sends the forged frame to a peer that parses it.             *)
Transmit ==
    /\ Call("transmit")
    /\ IF out \in Seq(WireTlvs) THEN frame' = out /\ Return
                                ELSE UNCHANGED frame /\ Abandon
    /\ UNCHANGED <<exp, rx, out, cmp, loop, payloadHeap, tlvHeap, bufHeap, overread>>

(* The caller forges the payload it has just parsed.                       *)
Adopt ==
    /\ Call("adopt")
    /\ IF rx \notin {NULL, UNSET} THEN exp' = rx /\ Return
                                  ELSE UNCHANGED exp /\ Abandon
    /\ UNCHANGED <<frame, rx, out, cmp, loop, payloadHeap, tlvHeap, bufHeap, overread>>

(* free_lldp_PAYLOAD_structure(rx): free the TLVs up to the first NULL and *)
(* the PAYLOAD; free() of the forged buffer.                               *)
Free ==
    /\ Call("free")
    /\ tlvHeap' = tlvHeap - (IF rx \in {NULL, UNSET} THEN 0 ELSE Len(Used(rx)))
    /\ payloadHeap' = payloadHeap - (IF rx \in {NULL, UNSET} THEN 0 ELSE 1)
    /\ bufHeap' = bufHeap - (IF out \in Seq(WireTlvs) THEN 1 ELSE 0)
    /\ Return
    /\ UNCHANGED <<frame, exp, rx, out, cmp, loop, overread>>

(* exp is read by compare and visit only; a script without compare        *)
(* overwrites it (adopt) before forge reads it, so one value stands for    *)
(* all of them there.                                                      *)
Init ==
    /\ frame \in Frames
    /\ todo \in Scripts
    /\ exp \in IF \E j \in DOMAIN todo : todo[j] = "compare"
               THEN Payloads ELSE {CHOOSE p \in Payloads : TRUE}
    /\ rx = UNSET /\ out = UNSET /\ cmp = UNSET
    /\ loop = NULL
    /\ payloadHeap = 0 /\ tlvHeap = 0 /\ bufHeap = 0
    /\ overread = FALSE
    /\ printed = 0

Next ==
    \/ /\ \/ ParseBegin \/ ParseRead \/ ParseCheck
          \/ Forge \/ Compare \/ Transmit \/ Adopt \/ Free
       /\ UNCHANGED visitVars
    \/ Visit

Spec == Init /\ [][Next]_vars

-----------------------------------------------------------------------------
Payload == [Slots -> WireTlvs \cup {NULL}]

TypeOK ==
    /\ frame \in Seq(WireTlvs)
    /\ exp \in Payload
    /\ rx \in Payload \cup {NULL, UNSET}
    /\ out \in Seq(WireTlvs) \cup {NULL, UNSET}
    /\ cmp \in {0, 1, "oob", UNSET}
    /\ loop \in {NULL} \cup [phase : {"read", "check"}, i : 0 .. MAX_LLDP_TLVS,
                             p : Nat \ {0}, list : Payload]
    /\ payloadHeap \in Nat /\ tlvHeap \in Nat /\ bufHeap \in Nat
    /\ overread \in BOOLEAN
    /\ printed \in Nat

(* What an LLDPDU parser must return, stated over the whole frame: a       *)
(* frame is accepted iff an end TLV comes after fewer than MAX_LLDP_TLVS   *)
(* TLVs, all of the mandatory types and one of each; the result lists them *)
(* in frame order.                                                         *)
ParseRef(f) ==
    LET Accepts(k) ==
            /\ f[k].type = TLV_TYPE_END_OF_LLDPPDU
            /\ k - 1 < MAX_LLDP_TLVS
            /\ \A j \in 1 .. k - 1 : f[j].type \in Mandatory
            /\ \A t \in Mandatory : CountType(f, k - 1, t) = 1
        ends == {k \in 1 .. Len(f) : Accepts(k)}
    IN  IF ends = {} THEN NULL
        ELSE LET k == CHOOSE k \in ends : TRUE
             IN  [j \in Slots |-> IF j < k THEN f[j] ELSE NULL]

(* parse_lldp_PAYLOAD_from_packet() returns exactly the reference result   *)
(* for every frame it reads within its bounds: it rejects a frame missing  *)
(* a mandatory TLV, with one twice, or with a TLV it cannot parse before   *)
(* the end TLV, and keeps every other frame's TLVs in order.               *)
ParseMatchesReference ==
    [][ (rx = UNSET /\ rx' # UNSET /\ ~overread') => rx' = ParseRef(frame) ]_vars

(* compare_lldp_PAYLOAD_structures() reports equal exactly when both       *)
(* PAYLOADs exist and hold the same TLVs in the same order up to their     *)
(* first NULL, and never reads past list_of_TLVs.                          *)
CompareMatchesReference ==
    cmp # UNSET =>
        cmp = IF rx \notin {NULL, UNSET} /\ Used(rx) = Used(exp) THEN 0 ELSE 1

(* Whatever forge_lldp_PAYLOAD_from_structure() emits, the parser accepts, *)
(* and it yields back the TLVs of the forged PAYLOAD.                      *)
ForgeOutputReparses ==
    out \in Seq(WireTlvs) =>
        LET back == ParseRef(out)
        IN  back # NULL /\ ToSetOf(Used(back)) = ToSetOf(Used(exp))

(* Once the caller has freed what it holds, nothing allocated by parse or  *)
(* forge is left: every error path frees what it allocated.               *)
NoLeakAfterCleanup ==
    todo = <<>> => payloadHeap = 0 /\ tlvHeap = 0 /\ bufHeap = 0

(* Parsing never reads beyond the frame it was given.                      *)
NoReadPastFrame == ~overread

(* Whatever prefix the caller passes, every strlen(prefix) + strlen(name)  *)
(* the visit hands to print_callback() is at most PRINT_LEN_MAX, the bound *)
(* within which print_callback() is checked never to write past aux1:      *)
(* snprintf() cuts new_prefix at MAX_PREFIX - 2 characters.                *)
CallbackLenWithinPrintBound == printed <= PRINT_LEN_MAX

(* Forging a PAYLOAD that was parsed from a frame reproduces that frame    *)
(* byte for byte, up to its end TLV (for a frame parsed within its bounds). *)
ReforgeReproducesFrame ==
    (rx \notin {NULL, UNSET} /\ exp = rx /\ out \in Seq(WireTlvs) /\ ~overread) =>
        out = SubSeq(frame, 1, Len(out))

=============================================================================
