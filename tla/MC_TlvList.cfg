CONSTANTS
    Descs <- MC_Descs
    Defs <- MC_Defs
    TlvValues <- MC_TlvValues
    COUNT_MOD = 256
    TLV_TYPE_NUM = 256
    ADD_REJECTS_DUPLICATE = TRUE
    MAX_TLVS = 3
    MaxLengths = {6, 64}
    PARSES = 2
    NULL = NULL
SPECIFICATION Spec
CHECK_DEADLOCK FALSE
INVARIANTS
    TypeOK
    ParseYieldsForgedPrefix
