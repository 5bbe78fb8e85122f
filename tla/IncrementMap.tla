---------------------------- MODULE IncrementMap ----------------------------
(***************************************************************************)
(* increment_map of examples/maps.bpf.h, run by the programs of several    *)
(* CPUs on one hash map at the same time.  A CPU runs one call at a time   *)
(* and every map helper is one step: lookup, update with BPF_NOEXIST, the  *)
(* second lookup, and the atomic add through the pointer a lookup gave.    *)
(***************************************************************************)
EXTENDS BpfMaps

CONSTANTS
    Cpus,
    Keys,
    Capacity,   \* max_entries of the map
    Amounts,    \* the increments the callers pass
    MaxAsked    \* bound of the model: how much is asked of one key

ASSUME CpusAssumption == IsFiniteSet(Cpus)
ASSUME CapacityAssumption == Capacity \in Nat
ASSUME AmountsAssumption == Amounts \subseteq Nat

VARIABLES
    table,      \* the map: counter of each key it holds
    pc,         \* next instruction of the call each CPU is in
    call,       \* arguments of that call
    asked,      \* history: sum of all increments asked, by key
    lost        \* history: sum of the increments given up, by key

vars == <<table, pc, call, asked, lost>>

Calls == [key : Keys, amount : Amounts]

Init ==
    /\ table = EmptyMap
    /\ pc = [c \in Cpus |-> "idle"]
    /\ \E any \in Calls : call = [c \in Cpus |-> any]
    /\ asked = [k \in Keys |-> 0]
    /\ lost = [k \in Keys |-> 0]

-----------------------------------------------------------------------------
\* The call and its first lookup.
Lookup(c, k, n) ==
    /\ pc[c] = "idle"
    /\ asked[k] + n <= MaxAsked
    /\ call' = [call EXCEPT ![c] = [key |-> k, amount |-> n]]
    /\ asked' = [asked EXCEPT ![k] = @ + n]
    /\ pc' = [pc EXCEPT ![c] = IF k \in DOMAIN table THEN "add" ELSE "create"]
    /\ UNCHANGED <<table, lost>>

\* Mutants of Create: the update with BPF_ANY, and a map without max_entries.
CreateAny(c) ==
    /\ pc[c] = "create"
    /\ table' = UpdateAny(table, call[c].key, 0, Capacity)
    /\ pc' = [pc EXCEPT ![c] = "again"]
    /\ UNCHANGED <<call, asked, lost>>

CreateUnbounded(c) ==
    /\ pc[c] = "create"
    /\ table' = IF call[c].key \in DOMAIN table THEN table ELSE Put(table, call[c].key, 0)
    /\ pc' = [pc EXCEPT ![c] = "again"]
    /\ UNCHANGED <<call, asked, lost>>

\* The update with &zero: it changes nothing if another CPU was first or the
\* map is full, and its result is not looked at.
Create(c) ==
    /\ pc[c] = "create"
    /\ table' = UpdateNoExist(table, call[c].key, 0, Capacity)
    /\ pc' = [pc EXCEPT ![c] = "again"]
    /\ UNCHANGED <<call, asked, lost>>

\* Mutant of Again: no second lookup, the call that creates the key returns.
AgainGivesUp(c) ==
    /\ pc[c] = "again"
    /\ pc' = [pc EXCEPT ![c] = "idle"]
    /\ lost' = [lost EXCEPT ![call[c].key] = @ + call[c].amount]
    /\ UNCHANGED <<table, call, asked>>

\* The second lookup, and the return that drops the increment.
Again(c) ==
    /\ pc[c] = "again"
    /\ IF call[c].key \in DOMAIN table
       THEN /\ pc' = [pc EXCEPT ![c] = "add"]
            /\ UNCHANGED lost
       ELSE /\ pc' = [pc EXCEPT ![c] = "idle"]
            /\ lost' = [lost EXCEPT ![call[c].key] = @ + call[c].amount]
    /\ UNCHANGED <<table, call, asked>>

\* __sync_fetch_and_add.  No caller uses the value read back at the end.
Add(c) ==
    /\ pc[c] = "add"
    /\ table' = [table EXCEPT ![call[c].key] = @ + call[c].amount]
    /\ pc' = [pc EXCEPT ![c] = "idle"]
    /\ UNCHANGED <<call, asked, lost>>

Next ==
    \E c \in Cpus :
        \/ \E k \in Keys, n \in Amounts : Lookup(c, k, n)
        \/ Create(c)
        \/ Again(c)
        \/ Add(c)

Spec == Init /\ [][Next]_vars

-----------------------------------------------------------------------------
\* Type invariant of the map, the calls and the two histories; the map never
\* holds more than max_entries keys (maps.bpf.h, increment_map).
TypeOK ==
    /\ DOMAIN table \subseteq Keys
    /\ \A k \in DOMAIN table : table[k] \in Nat
    /\ IsFiniteSet(DOMAIN table)
    /\ Cardinality(DOMAIN table) <= Capacity
    /\ pc \in [Cpus -> {"idle", "create", "again", "add"}]
    /\ call \in [Cpus -> Calls]
    /\ asked \in [Keys -> Nat]
    /\ lost \in [Keys -> Nat]

Full == Cardinality(DOMAIN table) >= Capacity

InFlight(k) ==
    LET running == {c \in Cpus : pc[c] # "idle" /\ call[c].key = k}
    IN  SumFunctionOnSet([c \in running |-> call[c].amount], running)

\* Whatever order the CPUs run their steps in, an increment asked of a key is
\* in its counter, or was given up, or is in a call still running: two CPUs
\* that create the same key at once overwrite and lose nothing.
Conservation ==
    \A k \in Keys : asked[k] = ValueAt(table, k) + lost[k] + InFlight(k)

\* A key in the map has never lost an increment, so the counter the exporter
\* reads is complete; a key that lost one met a full map and never enters it.
AllOrNothing ==
    \A k \in Keys : lost[k] > 0 => k \notin DOMAIN table /\ Full

\* No step of increment_map removes a key or lowers a counter, which is what
\* lets the exporter publish the map as Prometheus counters.
CountsNeverDecrease ==
    [][\A k \in DOMAIN table : k \in DOMAIN table' /\ table'[k] >= table[k]]_vars

\* The promise of CounterMap, with the keys of the map as the admitted ones.
Abstract == INSTANCE CounterMap WITH
    admitted <- DOMAIN table,
    count <- [k \in Keys |-> ValueAt(table, k)]

ImplementsCounterMap == Abstract!Spec

-----------------------------------------------------------------------------
\* The inductive strengthening of AllOrNothing.  A CPU about to add holds a
\* pointer to a key of the map.  A CPU that found its key missing after its
\* own update did so because the map was full.
PointersValid == \A c \in Cpus : pc[c] = "add" => call[c].key \in DOMAIN table

RefusedByFullMap ==
    \A c \in Cpus : pc[c] = "again" => call[c].key \in DOMAIN table \/ Full

Inv == TypeOK /\ PointersValid /\ RefusedByFullMap /\ AllOrNothing

=============================================================================
