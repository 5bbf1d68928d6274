--------------------------- MODULE MC_PrintCallback ---------------------------
EXTENDS PrintCallback

(* visit_lldp_PAYLOAD_structure() cuts its prefix at MAX_PREFIX - 2 = 98   *)
(* characters; field names of the LLDP TLVs are under 32 characters.       *)
MC_Lengths == 0 .. 130

(* Every size class print_callback() distinguishes, and the largest field  *)
(* a uint8_t size allows, which always reaches the truncation.             *)
MC_Sizes == {0, 1, 2, 4, 6, 16, 255}

MC_Formats == {"%s", "%d", "%02x", "%ipv4"}

(* copyLengthString(): the empty string, strings on either side of the    *)
(* uint8_t limit, and sizes 0, below, at and above UINT8_MAX, so that the  *)
(* clamp, the cast and the assert each decide some call.                   *)
MC_StrLens == {0, 1, 254, 255, 256, 300}
MC_CopySizes == {0, 1, 255, 256, 300}

=============================================================================
