------------------------------ MODULE DataModel ------------------------------
(***************************************************************************)
(* The object graph of include/datamodel.h: the network of alDevices, the  *)
(* interfaces each device owns, the radios each device owns with the BSS   *)
(* interfaces configured on them, and the symmetric neighbour relation     *)
(* between interfaces, which also keeps alive the interfaces that belong   *)
(* to no device (non-1905 neighbours).                                     *)
(*                                                                         *)
(* datamodel.c is not in the repository: every operation is modelled from  *)
(* its contract in datamodel.h.  Reading it, "delete an interface and all  *)
(* its neighbors" removes every neighbour link with                        *)
(* interfaceRemoveNeighbor() (which deletes a neighbour that no device     *)
(* owns once it has no other neighbour); a BSS leaves its radio through    *)
(* interfaceWifiRemove().  datamodel.h does not say in which order         *)
(* alDeviceDelete() deletes radios and interfaces; the model deletes the   *)
(* radios first, and its properties are stated of the states between       *)
(* operations only.  An operation is one step: the code is single-threaded *)
(* and its loops are operators over the whole graph W.                     *)
(***************************************************************************)
EXTENDS Naturals, Sequences, SequencesExt

CONSTANTS Devices, Ifaces, Radios, NULL

VARIABLES
    devs,      \* the network list: allocated alDevices
    ifs,       \* allocated interfaces
    owner,     \* interface::owner
    nbrs,      \* interface::neighbors (PTRARRAY)
    rads,      \* allocated radios
    radioDev,  \* the alDevice::radios list a radio is in
    bss,       \* radio::configured_bsses (PTRARRAY)
    wifi,      \* interfaceWifi::radio, NULL before radioAddInterfaceWifi()
    wifiIfs    \* interfaces allocated as struct interfaceWifi (BSSes)

graphVars == <<devs, ifs, owner, nbrs, rads, radioDev, bss, wifi>>
vars == <<graphVars, wifiIfs>>

(* The whole graph as one record, so that loops can be operators over it. *)
W == [devs |-> devs, ifs |-> ifs, owner |-> owner, nbrs |-> nbrs, rads |-> rads,
      radioDev |-> radioDev, bss |-> bss, wifi |-> wifi]

Set(w) ==
    /\ devs' = w.devs /\ ifs' = w.ifs /\ owner' = w.owner /\ nbrs' = w.nbrs
    /\ rads' = w.rads /\ radioDev' = w.radioDev /\ bss' = w.bss
    /\ wifi' = w.wifi

(* free() of an interface: its memory keeps its last contents.            *)
FreeIface(w, i) == [w EXCEPT !.ifs = @ \ {i}]

Init ==
    /\ devs = {} /\ ifs = {} /\ rads = {}
    /\ owner = [i \in Ifaces |-> NULL]
    /\ nbrs = [i \in Ifaces |-> <<>>]
    /\ radioDev = [r \in Radios |-> NULL]
    /\ bss = [r \in Radios |-> <<>>]
    /\ wifi = [i \in Ifaces |-> NULL]
    /\ wifiIfs = {}

-----------------------------------------------------------------------------
(* Mutant: the inverse link is left in place.                              *)
RemoveNeighborW_oneway(w, i, n) ==
    LET w1 == [w EXCEPT !.nbrs[i] = RemoveFirst(@, n)]
    IN  IF w1.owner[n] = NULL /\ w1.nbrs[n] = <<>> THEN FreeIface(w1, n) ELSE w1

(* interfaceRemoveNeighbor(interface, neighbor): both links go; the       *)
(* neighbor is deleted when no device owns it and it has no neighbour     *)
(* left (it then has no links to remove).                                  *)
RemoveNeighborW(w, i, n) ==
    LET w1 == [w EXCEPT !.nbrs[i] = RemoveFirst(@, n),
                            !.nbrs[n] = RemoveFirst(@, i)]
    IN  IF w1.owner[n] = NULL /\ w1.nbrs[n] = <<>> THEN FreeIface(w1, n) ELSE w1

(* interfaceDelete(interface): remove the neighbours one by one, then free. *)
RECURSIVE RemoveAllNeighbors(_, _)
RemoveAllNeighbors(w, i) ==
    IF w.nbrs[i] = <<>> THEN w
    ELSE RemoveAllNeighbors(RemoveNeighborW(w, i, Head(w.nbrs[i])), i)

InterfaceDeleteW(w, i) == FreeIface(RemoveAllNeighbors(w, i), i)

(* interfaceWifiRemove(): take the BSS off its radio and delete it.        *)
InterfaceWifiRemoveW(w, i) ==
    LET r == w.wifi[i]
        w1 == IF r = NULL THEN w ELSE [w EXCEPT !.bss[r] = RemoveFirst(@, i)]
    IN  InterfaceDeleteW(w1, i)

(* radioDelete(): every configured BSS, then the radio itself.            *)
RECURSIVE RemoveAllBss(_, _)
RemoveAllBss(w, r) ==
    IF w.bss[r] = <<>> THEN w
    ELSE RemoveAllBss(InterfaceWifiRemoveW(w, Head(w.bss[r])), r)

RadioDeleteW(w, r) ==
    LET w1 == RemoveAllBss(w, r)
    IN  [w1 EXCEPT !.rads = @ \ {r}, !.radioDev[r] = NULL]

(* The loops of alDeviceDelete() over the alDevice::radios and             *)
(* alDevice::interfaces lists, each until the list is empty.               *)
RECURSIVE DeleteRadiosOf(_, _)
DeleteRadiosOf(w, d) ==
    LET rs == {r \in w.rads : w.radioDev[r] = d}
    IN  IF rs = {} THEN w
        ELSE DeleteRadiosOf(RadioDeleteW(w, CHOOSE r \in rs : TRUE), d)

RECURSIVE DeleteIfacesOf(_, _)
DeleteIfacesOf(w, d) ==
    LET is == {i \in w.ifs : w.owner[i] = d}
    IN  IF is = {} THEN w
        ELSE DeleteIfacesOf(InterfaceDeleteW(w, CHOOSE i \in is : TRUE), d)

(* Mutant: the radios are forgotten.                                       *)
AlDeviceDeleteW_no_radios(w, d) ==
    [DeleteIfacesOf(w, d) EXCEPT !.devs = @ \ {d}]

(* alDeviceDelete(): the device, all its radios and all its interfaces.   *)
AlDeviceDeleteW(w, d) ==
    [DeleteIfacesOf(DeleteRadiosOf(w, d), d) EXCEPT !.devs = @ \ {d}]

-----------------------------------------------------------------------------
(* alDeviceAlloc(): a new device, added to the network list.              *)
alDeviceAlloc(d) ==
    /\ d \notin devs
    /\ devs' = devs \cup {d}
    /\ UNCHANGED <<ifs, owner, nbrs, rads, radioDev, bss, wifi>>

(* interfaceAlloc(addr, owner) with an owning device.                      *)
interfaceAlloc(i, d) ==
    /\ i \notin ifs /\ d \in devs
    /\ ifs' = ifs \cup {i}
    /\ owner' = [owner EXCEPT ![i] = d]
    /\ nbrs' = [nbrs EXCEPT ![i] = <<>>]
    /\ wifi' = [wifi EXCEPT ![i] = NULL]
    /\ wifiIfs' = wifiIfs \ {i}
    /\ UNCHANGED <<devs, rads, radioDev, bss>>

(* interfaceWifiAlloc(addr, owner): a BSS interface of the device, on no   *)
(* radio until radioAddInterfaceWifi().                                    *)
interfaceWifiAlloc(i, d) ==
    /\ i \notin ifs /\ d \in devs
    /\ ifs' = ifs \cup {i}
    /\ owner' = [owner EXCEPT ![i] = d]
    /\ nbrs' = [nbrs EXCEPT ![i] = <<>>]
    /\ wifi' = [wifi EXCEPT ![i] = NULL]
    /\ wifiIfs' = wifiIfs \cup {i}
    /\ UNCHANGED <<devs, rads, radioDev, bss>>

(* interfaceAlloc(addr, NULL) followed, as its contract demands, by        *)
(* interfaceAddNeighbor(interface, new): a discovered non-1905 neighbour.  *)
NeighborAlloc(i, u) ==
    /\ u \notin ifs /\ i \in ifs
    /\ ifs' = ifs \cup {u}
    /\ owner' = [owner EXCEPT ![u] = NULL]
    /\ nbrs' = [nbrs EXCEPT ![u] = <<i>>, ![i] = Append(@, u)]
    /\ wifi' = [wifi EXCEPT ![u] = NULL]
    /\ wifiIfs' = wifiIfs \ {u}
    /\ UNCHANGED <<devs, rads, radioDev, bss>>

(* interfaceAddNeighbor(): the link and its inverse.                       *)
interfaceAddNeighbor(i, n) ==
    /\ i \in ifs /\ n \in ifs /\ i # n
    /\ n \notin ToSet(nbrs[i])
    /\ nbrs' = [nbrs EXCEPT ![i] = Append(@, n), ![n] = Append(@, i)]
    /\ UNCHANGED <<devs, ifs, owner, rads, radioDev, bss, wifi>>

interfaceRemoveNeighbor(i, n) ==
    /\ i \in ifs /\ n \in ToSet(nbrs[i])
    /\ Set(RemoveNeighborW(W, i, n))

(* interfaceDelete() of an interface that is not a configured BSS.         *)
interfaceDelete(i) ==
    /\ i \in ifs /\ wifi[i] = NULL
    /\ Set(InterfaceDeleteW(W, i))

(* alDeviceAddInterface(): precondition, no other device owns it.          *)
alDeviceAddInterface(d, i) ==
    /\ d \in devs /\ i \in ifs /\ owner[i] = NULL
    /\ owner' = [owner EXCEPT ![i] = d]
    /\ UNCHANGED <<devs, ifs, nbrs, rads, radioDev, bss, wifi>>

alDeviceDelete(d) ==
    /\ d \in devs
    /\ Set(AlDeviceDeleteW(W, d))

(* radioAlloc(device, mac): a new radio in the device's radio list.        *)
radioAlloc(r, d) ==
    /\ r \notin rads /\ d \in devs
    /\ rads' = rads \cup {r}
    /\ radioDev' = [radioDev EXCEPT ![r] = d]
    /\ bss' = [bss EXCEPT ![r] = <<>>]
    /\ UNCHANGED <<devs, ifs, owner, nbrs, wifi>>

(* radioAddInterfaceWifi(): a BSS of the radio's device joins the radio.   *)
radioAddInterfaceWifi(r, i) ==
    /\ r \in rads /\ i \in ifs /\ i \in wifiIfs
    /\ owner[i] = radioDev[r] /\ wifi[i] = NULL
    /\ bss' = [bss EXCEPT ![r] = Append(@, i)]
    /\ wifi' = [wifi EXCEPT ![i] = r]
    /\ UNCHANGED <<devs, ifs, owner, nbrs, rads, radioDev>>

interfaceWifiRemove(i) ==
    /\ i \in ifs /\ wifi[i] # NULL
    /\ Set(InterfaceWifiRemoveW(W, i))

radioDelete(r) ==
    /\ r \in rads
    /\ Set(RadioDeleteW(W, r))

Next ==
    \/ \E i \in Ifaces, d \in Devices : interfaceAlloc(i, d) \/ interfaceWifiAlloc(i, d)
    \/ \E i, n \in Ifaces : NeighborAlloc(i, n)
    \/ /\ \/ \E d \in Devices : alDeviceAlloc(d) \/ alDeviceDelete(d)
          \/ \E i \in Ifaces, d \in Devices : alDeviceAddInterface(d, i)
          \/ \E i, n \in Ifaces : interfaceAddNeighbor(i, n) \/ interfaceRemoveNeighbor(i, n)
          \/ \E i \in Ifaces : interfaceDelete(i) \/ interfaceWifiRemove(i)
          \/ \E r \in Radios, d \in Devices : radioAlloc(r, d)
          \/ \E r \in Radios, i \in Ifaces : radioAddInterfaceWifi(r, i)
          \/ \E r \in Radios : radioDelete(r)
       /\ UNCHANGED wifiIfs

Spec == Init /\ [][Next]_vars

-----------------------------------------------------------------------------
(* The neighbour relation stays symmetric and never names a freed          *)
(* interface, through every cascade of interfaceDelete(), radioDelete()    *)
(* and alDeviceDelete() (datamodel.h: "the inverse relationship is added   *)
(* as well").                                                              *)
NeighborsLiveAndSymmetric ==
    \A i \in ifs : \A n \in ToSet(nbrs[i]) : n \in ifs /\ i \in ToSet(nbrs[n])

(* Every owner, radio and BSS pointer of a live object points to a live    *)
(* object, and a radio's BSS list and the BSSes' radio pointers agree.     *)
ReferencesLive ==
    /\ \A i \in ifs : owner[i] \in devs \cup {NULL} /\ wifi[i] \in rads \cup {NULL}
    /\ \A r \in rads : radioDev[r] \in devs
    /\ \A r \in rads : \A i \in ToSet(bss[r]) : i \in ifs /\ wifi[i] = r

=============================================================================
