CONSTANTS
    Descs <- MC_Descs
    Trees <- MC_Trees
    COUNT_MOD = 256
SPECIFICATION Spec
INVARIANTS
    LengthMatchesForge
    ParseInvertsForge
    TruncatedParseFails
    CompareAgreesWithBytes
