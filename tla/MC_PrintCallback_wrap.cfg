CONSTANTS
    AUX1_SIZE = 200
    AUX2_SIZE = 20
    SIZE_T_BITS = 16
    Lengths <- MC_Lengths
    Sizes <- MC_Sizes
    Formats <- MC_Formats
    StrLens <- MC_StrLens
    CopySizes <- MC_CopySizes
SPECIFICATION Spec
CHECK_DEADLOCK FALSE
INVARIANTS
    SpaceLeftNeverWraps
