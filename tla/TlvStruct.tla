------------------------------ MODULE TlvStruct ------------------------------
(***************************************************************************)
(* The checks of the generic TLV structure codec (TlvStructCodec.tla):    *)
(* the algorithms are pure, so the state is one structure t1 of Trees and  *)
(* the invariants quantify over what is derived from it.                   *)
(***************************************************************************)
EXTENDS TlvStructCodec

CONSTANT Trees   \* the structures the checks range over

-----------------------------------------------------------------------------
(* The algorithms are pure; the checks range over every structure t1 of   *)
(* Trees, every buffer derived from its encoding and every second          *)
(* structure it is compared with.                                          *)
VARIABLE t1

vars == <<t1>>

Init == t1 \in Trees

Spec == Init /\ [][UNCHANGED vars]_vars

Encoding == tlv_struct_forge(t1)

(* Trailing bytes a buffer may hold after the structure.                   *)
Junk == {<<>>, <<0>>, <<1, 1>>}

(* The default length function predicts exactly the number of bytes the   *)
(* default forge function writes (the forge buffer is allocated from it).  *)
LengthMatchesForge == Len(Encoding) = tlv_struct_length(t1)

(* Parsing what was forged, followed by anything, returns the same        *)
(* structure and leaves the cursor right after it: spec 8, round trip.     *)
ParseInvertsForge ==
    \A j \in Junk :
        tlv_struct_parse(t1.desc, Encoding \o j)
          = [ok |-> TRUE, oob |-> FALSE, val |-> t1, rest |-> j]

(* Every strict prefix of an encoding is rejected, and without a read past *)
(* the end of the buffer: spec 8, truncation safety.                       *)
TruncatedParseFails ==
    \A n \in 0 .. Len(Encoding) - 1 :
        LET r == tlv_struct_parse(t1.desc, SubSeq(Encoding, 1, n))
        IN  ~r.ok /\ ~r.oob

(* The comparator is an order that agrees with the encoding: it is         *)
(* antisymmetric, and two structures of one description compare equal      *)
(* exactly when their encodings are the same bytes (spec 4.4 and 8).       *)
CompareAgreesWithBytes ==
    \A t2 \in Trees :
        /\ tlv_struct_compare(t1, t2) = - tlv_struct_compare(t2, t1)
        /\ t1.desc = t2.desc =>
             ((tlv_struct_compare(t1, t2) = 0) <=> (Encoding = tlv_struct_forge(t2)))

=============================================================================
