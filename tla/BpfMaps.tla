------------------------------ MODULE BpfMaps ------------------------------
(***************************************************************************)
(* The kernel's preallocated BPF hash map (BPF_MAP_TYPE_HASH), as the      *)
(* programs under examples/ use it.  A map is a function whose domain is   *)
(* the set of keys it holds.  The map lives in the kernel, outside the     *)
(* repository: these operators say what a call leaves behind, including    *)
(* the refusal of a new key by a full map, which no caller in examples/    *)
(* looks at.                                                               *)
(***************************************************************************)
EXTENDS Naturals, FiniteSets, Functions

EmptyMap == [k \in {} |-> 0]

\* The map holds k already, or has a free element for it.
HasRoom(map, k, capacity) ==
    k \in DOMAIN map \/ Cardinality(DOMAIN map) < capacity

Put(map, k, v) ==
    [x \in DOMAIN map \cup {k} |-> IF x = k THEN v ELSE map[x]]

\* bpf_map_update_elem(map, k, v, BPF_ANY)
UpdateAny(map, k, v, capacity) ==
    IF HasRoom(map, k, capacity) THEN Put(map, k, v) ELSE map

\* bpf_map_update_elem(map, k, v, BPF_NOEXIST)
UpdateNoExist(map, k, v, capacity) ==
    IF k \in DOMAIN map THEN map ELSE UpdateAny(map, k, v, capacity)

\* bpf_map_delete_elem(map, k)
DeleteElem(map, k) == Restrict(map, DOMAIN map \ {k})

\* The value a user of the map sees for a key, 0 when the key is not there.
ValueAt(map, k) == IF k \in DOMAIN map THEN map[k] ELSE 0

=============================================================================
