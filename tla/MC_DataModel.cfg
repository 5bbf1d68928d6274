CONSTANTS
    d1 = d1
    d2 = d2
    i1 = i1
    i2 = i2
    i3 = i3
    r1 = r1
    r2 = r2
    NULL = NULL
    Devices <- MC_Devices
    Ifaces <- MC_Ifaces
    Radios <- MC_Radios
SPECIFICATION Spec
INVARIANTS
    NeighborsLiveAndSymmetric
    ReferencesLive
