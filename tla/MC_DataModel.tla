----------------------------- MODULE MC_DataModel -----------------------------
EXTENDS DataModel

CONSTANTS d1, d2, i1, i2, i3, r1, r2

(* Two devices, three interfaces and two radios: two owned interfaces     *)
(* that share an unowned neighbour, a BSS of a device with a neighbour on  *)
(* the other device, or two BSSes on radios of different devices (or of    *)
(* one device) linked as neighbours, so that deleting one radio cascades   *)
(* into the BSS of the other.  A fourth interface takes the space past     *)
(* 14 million states.                                                      *)
MC_Devices == {d1, d2}
MC_Ifaces == {i1, i2, i3}
MC_Radios == {r1, r2}

=============================================================================
