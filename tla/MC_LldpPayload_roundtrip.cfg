CONSTANTS
    MAX_LLDP_TLVS = 4
    v1 = v1
    v2 = v2
    NULL = NULL
    MAX_PREFIX = 100
    PRINT_LEN_MAX = 130
    PrefixLens = {0}
    UNSET = UNSET
    Values <- MC_Values_Rx
    Frames <- MC_Frames_Rx
    Payloads <- MC_Payloads_Rx
    Scripts <- MC_Scripts_Rx
SPECIFICATION Spec
CHECK_DEADLOCK FALSE
INVARIANT ReforgeReproducesFrame
