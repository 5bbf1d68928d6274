# TLA+ models of the prplMesh TLV core

This directory holds TLA+ models of the parts of the prplMesh IEEE 1905.1 stack
that are in this repository (`src/`). There is a module per component, MC
modules and `.cfg` files that instantiate them for TLC, and `PROJECT.json`,
which records each of the following:

- what each definition translates (`map`)
- what each run checks (`runs`)
- a mutant that each passing property catches (`mutants`)
- the disagreements found (`findings`)
- the hazards of the code (`hazards`)

Run a model from this directory with
`tlc -workers 2 -config <cfg> <MC module>`.

## 1. The system and its parts

The code is single-threaded and synchronous. Every operation is a function call
that runs to completion. Nothing is shared between threads, and nothing is
persisted. So the hard behaviours are not interleavings of processes. They are
these:

- long sequences of calls on shared pointer structures (the lists);
- the error paths of the codecs, and what each path frees;
- inputs at the boundary: a full list, a missing terminator, a budget exactly
  used up, a wrapped `size_t`.

| Part | Source | State | Operations | Interacts with |
|---|---|---|---|---|
| dlist | `include/dlist.h` | `next`/`prev` of every `dlist_head` | `dlist_head_init`, `dlist_add_head`, `dlist_add_tail`, `dlist_remove`, `dlist_empty`, `dlist_for_each_item`, `dlist_count` | hlist items embed a `dlist_head` |
| hlist | `include/hlist.h` (no `.c` here) | tree of items, each with up to 2 child lists | `hlist_alloc` into a parent list, `hlist_delete`, `hlist_delete_item`, iteration | built on dlist; owns every TLV tree |
| TLV framework | `include/tlv.h` (no `.c` here) | struct descriptions, registry, lists of TLVs | default parse/length/forge/compare/print, `tlv_parse`, `tlv_forge`, `tlv_add` | builds hlist trees; calls `print_callback` |
| LLDP payload codec | `src/lldp_payload.c`, `include/lldp_tlvs.h` | `struct PAYLOAD` (`list_of_TLVs[MAX_LLDP_TLVS]`) and the heap | `parse_lldp_PAYLOAD_from_packet`, `forge_lldp_PAYLOAD_from_structure`, `compare_lldp_PAYLOAD_structures`, `free_lldp_PAYLOAD_structure`, `visit_lldp_PAYLOAD_structure` | uses the LLDP TLV catalog; `visit` calls `print_callback` |
| print_callback | `src/utils.c` | locals `aux1`, `space_left`, `aux1_offset` | one call formats one field | called by every visit function |
| copyLengthString | `src/utils.c` | `*length` and the bytes of `dest` | clamp, assert, cast and copy | no caller in this repository |
| data model | `include/datamodel.h` (no `.c` here) | devices, interfaces, neighbour links, radios, BSSes | alloc/delete of devices, interfaces and radios, neighbour add/remove, BSS add/remove | every 1905 message handler reads and updates it |
| WSC, ALME | `src/al_wsc.h`, `include/1905_alme.h` | declarations only | none in this repository | none |

What each part must get right:

- **dlist.** The forward and backward chains agree. An item is in at most one
  list. `dlist_empty(item)` tells exactly whether the item is linked. The list
  behaves as a sequence with insert and remove.
- **LLDP codec.**
  - parse accepts exactly the frames with one chassis ID, one port ID and one
    TTL TLV before the end TLV. It keeps them in frame order.
  - parse never reads past the frame. It leaks nothing on any error path.
  - forge rejects a list that is not exactly those three TLVs. What it emits
    parses back to the same TLVs.
  - forge(parse(bytes)) = bytes (spec §8).
  - compare is list equality.
- **print_callback.** Every write into `aux1` stays inside its 200 bytes, and
  the `size_t` budget never wraps.
- **copyLengthString.** The length byte equals the number of bytes copied,
  which never exceeds `size`. All of `src` is copied when it fits.
- **hlist.** Deleting an item or a list frees everything below it, so no
  live item is left in a freed item's child list.
- **TLV framework.** The default length, forge, parse and compare functions
  agree with one another; a truncated buffer is rejected without reading past
  it. Over a list of TLVs, `tlv_parse` returns what `tlv_forge` wrote, unknown
  types included, and fails on a cut frame keeping only the whole TLVs before
  the cut.
- **data model.** Neighbour links are symmetric and name only live
  interfaces; every owner, radio and BSS pointer names a live object, also
  after the cascading deletes.

## 2. Modules and how they correspond to the code

### `DListSpec` (abstract) and `DList` (pointer level)

**`DListSpec`.** It states what a list promises. `lists` maps each head to a
sequence of items. There are three actions:

- `InsertAfter`: front of the list, or behind an anchor item;
- `InsertBefore`: back of the list, or before an anchor item;
- `Detach`.

**`DList`.** Its state is `mem : [Nodes -> [next, prev]]`.

- Every inline function is an operator built from one `EXCEPT` per C
  statement. Each statement reads the memory the previous one wrote, so the
  aliasing cases behave as in C. One example is `list->next->prev = item` when
  `list` is the item's own neighbour.
- The actions are `AddHead`, `AddTail` and `Remove`. They are the calls of a
  client that respects the documented precondition: the item is in no list.
  The anchor is a head or a linked item.
- The refinement mapping walks `next` from each head (`dlist_for_each_item`).
  `AddHead` implements `InsertAfter`, `AddTail` implements `InsertBefore`, and
  `Remove` of an unlinked item is a stuttering step.

### `LldpPayload`

A frame is the sequence of its TLVs. A TLV is a record of a type and an
abstract value (one of `Values`). Other type bytes are
`UNSUPPORTED_TLV_TYPE`, which `parse_lldp_TLV_from_packet` turns into NULL. A
PAYLOAD is `list_of_TLVs` as a function `1..MAX_LLDP_TLVS -> TLV \cup {NULL}`.
The heap is three counters: PAYLOAD structs, TLV structs and forged buffers.

The caller is a script (`todo`), taken from the repository's tests:

- parse, compare, visit, free (`_check` of `tests/lldp_payload_parsing.c`);
- forge, transmit, parse, compare, free (`tests/lldp_payload_forging.c`,
  followed by a peer parsing the frame);
- parse, adopt, forge, free (an AL entity re-sending what it received).

A failing forge or compare makes the caller skip to free, as the tests' early
returns do. A failing parse returns NULL to the caller, which goes on: the
parsing test compares and visits the NULL result before freeing it.

| Action | Code |
|---|---|
| `ParseBegin` | allocate and clear the PAYLOAD (lines 70-89) |
| `ParseRead` | one iteration of `while (1)` (lines 91-146) |
| `ParseCheck` | the mandatory-TLV count check and its cleanup (148-186) |
| `Forge` | all of `forge_lldp_PAYLOAD_from_structure`. Its disjuncts are: the list check fails; a TLV forge fails after the buffer is allocated (`ForgeFailed`); success (`ForgedFrame`). |
| `Compare` | `compare_lldp_PAYLOAD_structures`, with the recursive `CompareFrom` |
| `Free` | `free_lldp_PAYLOAD_structure` plus `free()` of the buffer |
| `Transmit`, `Adopt` | the caller handing a forged frame to a peer, or forging what it parsed |
| `Visit` | `_check` lines 71-91: when compare says the two differ, both PAYLOADs are visited with `print_callback` under the test's prefix (one of `PrefixLens`); it applies `LldpVisit`'s operators to the types of their TLVs (`Types`) |

`ParseRead` does one of three things:

- it bails out on a NULL TLV or a full list (`ParseBail`);
- it stops at the end TLV;
- or it stores the TLV.

The function has no length argument. At `p > Len(frame)` the model reads any
TLV (the bytes after the buffer are unknown) and records `overread`.

### `PrintCallback`

The byte-sequence branch of `print_callback` is modelled with its lengths
only:

- `len = strlen(prefix) + strlen(name)`; only their sum is used;
- the field `size` and `fmt`;
- the width `j` of each `snprintf`, chosen from `Widths(fmt)`;
- `space_left` as a `size_t` (modulo `2^SIZE_T_BITS`), `aux1_offset`, and
  `written`, the highest byte of `aux1` written.

`Dispatch` is the `fmt`/`size` dispatch at the top of the function. `Element`
is one iteration of the `for` loop, or the loop's exit. Inside it, `Fits` is
the test at line 168.

`copyLengthString` (utils.c lines 71-79) is the other function of the file.
Both functions are stateless, so a behaviour is one call of either: from
`pc = "start"` the module takes `Dispatch` or `copyLengthString(n, sz)`. The
action takes `n = strlen(src)` from `StrLens` and `sz = size` from
`CopySizes`. It clamps `n` to `sz`. When `sz > UINT8_MAX`, the assert at line
76 aborts (`pc = "aborted"`). Otherwise it stores the `uint8_t` cast of the
clamped length in `lengthByte` and records in `copied` how many bytes
`memcpy` writes (`pc = "copied"`).

### `HListSpec` (abstract) and `HList`

**`HListSpec`.** Allocated items form a forest: each is loose or owned by one
list head, a root head or one of the `HLIST_MAX_CHILDREN` child lists of a live
item. `Alloc`, `DeleteItem` (a loose item and its subtree) and `DeleteList`
(everything below a head) are single steps.

**`HList`.** It is built on `DList` through a parameterised
`INSTANCE DList WITH mem <- m`, so every list operation is DList's pointer
code. `hlist.c` is absent; the operations follow the contracts of `hlist.h`.
`hlist_delete` and `hlist_delete_item` are mutually recursive, and run as a
call `stack` one loop iteration per step (`ListStep`, `ItemStep`), so that the
walk that unlinks and frees items while iterating is explicit. `hlist.h` does
not fix the order of that walk (the model reads the successor before it
unlinks the current item), so no property is about the order or about the
walk's termination. The refinement mapping sends the items a running delete
has yet to free (`Doomed`) to "already deleted": a whole call is one abstract
step.

### `TlvStructCodec` and `TlvStruct`

`TlvStructCodec` holds the operators and no state; `TlvStruct` adds the
structure `t1` and the invariants, and `TlvList` reuses the operators. The
default codec of `tlv.h` that a `tlv_struct_description` drives. A
description is its field sizes and its child-list descriptions; a structure is
a value tree. `tlv_struct_length`, `tlv_struct_forge`, `tlv_struct_parse` and
`tlv_struct_compare`, with their `_list` companions, are RECURSIVE operators.
A list is forged as a one-byte count (`CountByte`, `% COUNT_MOD`) and its
items. `Read` is the length check of the `_EnBL` accessors. The module is a
pure-algorithm harness: `t1` ranges over `Trees` and the invariants quantify
over trailing junk, every truncation and every second structure.

### `DataModel`

The object graph of `datamodel.h` (`datamodel.c` is absent, so each action
follows the function's documented contract). State: live devices, interfaces
and radios, `owner` of each interface, `nbrs` (the `neighbors` pointer
array, a sequence), `radioDev`, `bss` (`configured_bsses`), `wifiIfs` (the
interfaces `interfaceWifiAlloc` made, the only ones `radioAddInterfaceWifi`
accepts, as its `struct interfaceWifi *` parameter demands) and `wifi` (the
`interfaceWifi::radio` pointer). Freeing an interface removes it from `ifs`
but leaves its fields as they were, as `free()` does. Every API call is one
action; the cascades inside it (`interfaceDelete` removing all neighbours,
each of which may free an unowned neighbour; `radioDelete` removing its
BSSes; `alDeviceDelete` deleting radios and interfaces) are RECURSIVE
operators on a record of the whole state. `datamodel.h` does not say in which
order `alDeviceDelete` deletes radios and interfaces; the model deletes the
radios first, and the invariants are about the states between calls only.

### `LldpVisit`

`visit_lldp_PAYLOAD_structure` as operators, with no state of its own: the
call is synchronous, so `LldpPayload`'s `Visit` applies it in one step of the
caller (`V == INSTANCE LldpVisit`). Strings are their lengths and a TLV is its
type. `VisitFrom` is the `while` loop, one TLV per level of recursion: the
`switch` (`Tag`), `snprintf` into `new_prefix[MAX_PREFIX]` with size
`MAX_PREFIX-1` (`SnprintfLen`, in `NewPrefixLens`), and the visit of the
TLV's fields (`FieldNames`, the members in `lldp_tlvs.h`). In the default
branch `new_prefix` is uninitialised, so its length is any value. The outcome
is the set of possible lengths of the longest prefix plus field name handed
to `print_callback`, the quantity `PrintCallback` is checked for.
`LldpPayload` keeps its running maximum in `printed`.

### `TlvList`

The TLV-list API of `tlv.h` (`tlv.c` is absent, so each operation follows its
contract). It extends `TlvStructCodec`, so a registered TLV's value is
forged, measured and parsed by the same operators `tlv_struct_codec` checks. A TLV is a record `[type, val]`: a value tree for
a registered type, the raw bytes for an unknown one (`struct tlv_unknown`).
On the wire a TLV is its type byte, a two-byte big-endian length (the
`uint16_t length` of `tlv_unknown`) and its value.

| Definition | Code |
|---|---|
| `TLV_DEF_ENTRY`, `tlv_find_def` | the registry entries (at most three fields and one child list) and the lookup, NULL for an empty slot |
| `tlv_add`, `Duplicate` | append, or fail on a type already present: `aggregate` is not implemented. `ADD_REJECTS_DUPLICATE` chooses between the header's reading (fails) and the spec's (accepts). |
| `tlv_forge_length`, `tlv_forge` | the packet length from the length functions, then each TLV in list order |
| `ParseTlv` | one iteration of `tlv_parse`: header fits, value fits, unknown type kept raw, known type parsed by its description, which must use the whole value |

There are three actors:

- **Sender.** `Add` is `TLV_DECLARE` of a loose TLV plus `tlv_add`; the
  caller frees a refused TLV. Then `ForgeOk`, or `ForgeTooLong` when the list
  exceeds `max_length` (no fragmentation).
- **Link.** `Deliver` hands the receiver the packet or any prefix of it.
- **Receiver.** `tlv_parse` runs one step per TLV: `ParseStep` appends,
  `ParseReject` returns false when `tlv_add` refuses a TLV (the header does
  not say what happens to that TLV; it is on no list, so the model frees it),
  `ParseMalformed` returns false, and `ParseDone` returns true at the end of
  the buffer. The receiver may parse the same frame twice into one list, as
  when a TLV split over packets is parsed into one list.

`Cleanup` is `hlist_delete` of both lists and `free` of the forged buffer.

## 3. Runs

| Run | Cfg | Expect | Checks |
|---|---|---|---|
| `dlist_refinement` | `MC_DList.cfg` | pass | TypeOK, DoublyLinked, EmptyIffUnlinked, Refinement (DList implements DListSpec) |
| `lldp_receive` | `MC_LldpPayload_rx.cfg` | pass | TypeOK, CompareMatchesReference, CallbackLenWithinPrintBound, ParseMatchesReference (parse equals the reference `ParseRef` on every frame read within bounds; the visit of what was parsed stays within `print_callback`'s proven bound) |
| `lldp_send` | `MC_LldpPayload_tx.cfg` | pass | ForgeOutputReparses, NoLeakAfterCleanup over every hand-built PAYLOAD |
| `lldp_cap_leak` | `MC_LldpPayload_leak.cfg` | violation | NoLeakAfterCleanup |
| `lldp_overread` | `MC_LldpPayload_overread.cfg` | violation | NoReadPastFrame |
| `lldp_roundtrip` | `MC_LldpPayload_roundtrip.cfg` | violation | ReforgeReproducesFrame |
| `print_callback_bounds` | `MC_PrintCallback.cfg` | pass | Aux1WithinBounds, LengthPrefixedCopy (a `copyLengthString` call stores a length byte equal to the bytes copied, at most `size`, and all of `src` when it fits) |
| `print_callback_wrap` | `MC_PrintCallback_wrap.cfg` | violation | SpaceLeftNeverWraps |
| `hlist_ownership` | `MC_HList.cfg` | pass | TypeOK, OwnedByLive, Refinement (HList implements HListSpec) |
| `tlv_struct_codec` | `MC_TlvStruct.cfg` | pass | LengthMatchesForge, ParseInvertsForge, TruncatedParseFails, CompareAgreesWithBytes |
| `datamodel_graph` | `MC_DataModel.cfg` | pass | NeighborsLiveAndSymmetric, ReferencesLive |
| `tlv_list_exchange` | `MC_TlvList.cfg` | pass | TypeOK, ParseYieldsForgedPrefix (the first parse of the packet, cut after any byte, yields exactly the TLVs that arrived whole and succeeds exactly at a TLV boundary) |

### Bounds and why they are enough

**dlist.** There are 2 heads and 4 items (261 states). This covers two lists
of up to four items, moves between lists, and every aliasing case of the four
stores: an empty list, adding next to the last item, and removing the only
item.

**lldp_receive.**

- `MAX_LLDP_TLVS = 5`. The value is defined in `lldp_payload.h`, which is not
  in the repository.
- Every frame of up to 6 TLVs over 5 TLV kinds is checked, against every
  expected list of up to 3 mandatory TLVs (8.0 million states, about 80 s).
  The round-trip script overwrites the expected PAYLOAD before reading it,
  so `Init` gives it one expected value instead of all of them.
- The visit runs with the test's prefix of length 0 and with one of 120
  characters, longer than `new_prefix[100]`, so `snprintf` truncates.
- With 5 slots, a frame with a duplicated TLV (chassis, chassis, port, TTL,
  end) reaches the count check. With 4 slots only the list cap rejects it, so
  the "exactly one" check is then indistinguishable from "at least one".

**lldp_send.** `MAX_LLDP_TLVS = 4`, and every list of up to 4 entries over all
TLV kinds with two values. This includes full lists and lists with end or
unsupported TLVs.

**print_callback.** Prefix plus name runs up to 130 characters. The visit
functions cut their prefix at 98 characters, and field names are short. The
sizes are 0, 1, 2, 4, 6, 16 and 255, which covers every branch and a field
long enough to reach the truncation from every starting budget. A width of
1-3 covers `%d` of a byte; `%02x` has width 2. `SIZE_T_BITS = 16` is enough
to see a wrap, since every real length is below 2^16.
For `copyLengthString`, string lengths are 0, 1, 254, 255, 256 and 300, and
sizes are 0, 1, 255, 256 and 300. So each of the clamp, the cast and the
assert decides some call (360,780 states in all).

**hlist.** One root head and three items with two child lists each: an item
with a child in each list, or three generations, so that a delete recurses two
levels and removes while it iterates at each.

**TlvStruct.** Three descriptions: a leaf with a one-byte field, a node with
one child list of leaves, and a node with two child lists (leaves and nodes).
Bytes are 0 and 1, lists have at most two items: 408 trees, two levels of
nesting, empty and non-empty lists in each slot, and equal and different
fields at every depth. The count byte holds 256 values (`COUNT_MOD = 256`), as in `tlv.h`; a list
long enough to wrap it is out of reach.

**DataModel.** Two devices, three interfaces and two radios (115,906
states). This is enough for:
- an interface that is owned, and one that is only a neighbour;
- BSSes on both radios, linked as neighbours, so that one radio's delete
  reaches into the other's BSS list;
- a device delete that meets all of them.

A fourth interface takes the run past 14 million states.

**TlvList.** Three registered descriptions and one unknown type: a 1-byte
field, a list of those, a 0-length TLV, and raw values of 0 and 1 bytes.
There are eight TLVs, lists of up to 3, `max_length` 6 or 64 (a list of two
TLVs already exceeds 6), and two parses per frame (13,007 states). This
covers every cut point of every packet: inside a type, inside a length,
inside a value, and on each boundary. It also covers a 0-length TLV, which
makes a boundary look like a header, an unknown type, and a repeated parse
that meets a duplicate. With `ADD_REJECTS_DUPLICATE = FALSE`, the spec's
reading, both invariants also hold (39,066 states).

## 4. What the failing runs show (see `findings`)

- **`lldp_cap_leak`.** A frame with `MAX_LLDP_TLVS` mandatory TLVs before its
  end TLV is rejected, but the TLV just parsed is not freed (line 100). One
  TLV leaks per such frame.
- **`lldp_overread`.** A frame without an end TLV is read past its end. There
  is no length argument (line 70). This goes against the spec's truncation
  safety property.
- **`lldp_roundtrip`.** A frame with chassis, TTL, port, end is accepted. It
  is re-forged as chassis, port, TTL, end, so forge(parse(bytes)) ≠ bytes.
- **`print_callback_wrap`.** Take prefix plus name of 126 characters and 14
  elements of 3 characters. The budget is then exactly 2 at the truncation,
  and `space_left -= 3` wraps. This goes against the comment at lines
  171-172. No write leaves `aux1`, as `print_callback_bounds` shows.

## 5. Fairness

No run states liveness, and no specification assumes fairness. Every
operation is a bounded loop inside one synchronous call, modelled as one step
or as a script whose end is a legitimate final state. The one multi-step
call, `HList`'s delete walk, follows an order `hlist.h` does not fix, so its
termination would be a property of the model's walk, not of the code. The LLDP, print_callback and TLV-list runs set `CHECK_DEADLOCK FALSE`,
because a finished script or a returned call is final. The dlist, hlist, TlvStruct and
data-model runs check deadlock, and never stop.

## 6. Not modelled, and the plan

**Not modelled:**

- The default print function and type-specific overrides of the TLV
  framework. Printing is formatting only. No override is defined in this
  repository.
- The end-of-message TLV. `tlv_parse` is modelled as stopping at the end of
  the buffer, since `tlv.h` names no end marker.
- Data model: the lookups (no state change), `radioAllocLocal` and
  `local_device`, the registrar and `registrarAddWsc`, the backhaul SSID and
  the driver callbacks, through which `interfaceTearDown`, `radioAddAp` and
  `radioAddSta` act. `datamodel.c` is absent, and the header does not say
  whether deleting the registrar's device clears `registrar.d`.
- WSC and ALME: declarations only, no behaviour to translate.
- The AP onboarding test: network I/O.

**Planned next:**

1. `visit_lldp_PAYLOAD_structure` and `free_lldp_PAYLOAD_structure` on a
   full PAYLOAD. No caller in the repository builds one: a PAYLOAD that parse
   returns holds exactly three TLVs.
2. A caller of `copyLengthString` that reads `dest` as a C string (hazard
   `utils.c:77`). `dest` is not NUL-terminated, and no such caller is in the
   repository.
