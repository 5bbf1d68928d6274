CONSTANTS
    h1 = h1
    h2 = h2
    i1 = i1
    i2 = i2
    i3 = i3
    i4 = i4
    Heads <- MC_Heads
    Items <- MC_Items
SPECIFICATION Spec
INVARIANTS
    TypeOK
    DoublyLinked
    EmptyIffUnlinked
PROPERTIES
    Refinement
