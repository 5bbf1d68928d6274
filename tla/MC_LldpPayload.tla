---------------------------- MODULE MC_LldpPayload ----------------------------
EXTENDS LldpPayload

CONSTANTS v1, v2

(* The call sequences of the caller.                                       *)
Receive   == <<"parse", "compare", "visit", "free">>
RoundTrip == <<"parse", "adopt", "forge", "free">>
Send      == <<"forge", "transmit", "parse", "compare", "free">>

(* Lists of at most n entries of set S, padded with NULL.                  *)
PayloadsOver(S, n) ==
    UNION {{[j \in Slots |-> IF j <= k THEN f[j] ELSE NULL] : f \in [1 .. k -> S]} : k \in 0 .. n}

FramesOver(S, n) == UNION {[1 .. k -> S] : k \in 0 .. n}

NoPayload == {[j \in Slots |-> NULL]}

(* Receive and round trip: every frame of up to MAX_LLDP_TLVS + 1 TLVs; compared against   *)
(* every list of up to 3 mandatory TLVs.                                   *)
MC_Values_Rx   == {v1}
MC_Frames_Rx   == FramesOver(WireTlvs, MAX_LLDP_TLVS + 1)
MC_Payloads_Rx == PayloadsOver([type : Mandatory, val : Values], 3)
MC_Scripts_Rx  == {Receive, RoundTrip}

(* Send: every hand-built list, full ones included, over all TLV types.    *)
MC_Values_Tx   == {v1, v2}
MC_Frames_Tx   == {<<>>}
MC_Payloads_Tx == PayloadsOver(WireTlvs, MAX_LLDP_TLVS)
MC_Scripts_Tx  == {Send}

(* A peer's frame with one TLV too many before its end TLV: MAX_LLDP_TLVS  *)
(* mandatory TLVs, then the end TLV, all within the frame.                 *)
MC_Frames_Cap  == {f \o <<EndTlv>> : f \in [1 .. MAX_LLDP_TLVS -> [type : Mandatory, val : Values]]}
MC_Scripts_Cap == {Receive}

=============================================================================
