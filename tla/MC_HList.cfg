CONSTANTS
    x1 = x1
    x2 = x2
    x3 = x3
    r1 = r1
    NULL = NULL
    HLIST_MAX_CHILDREN = 2
    Items <- MC_Items
    Roots <- MC_Roots
SPECIFICATION Spec
INVARIANTS
    TypeOK
    OwnedByLive
PROPERTIES
    Refinement
