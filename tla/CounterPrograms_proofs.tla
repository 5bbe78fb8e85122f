----------------------- MODULE CounterPrograms_proofs -----------------------
(***************************************************************************)
(* Proofs about IncrementMap, for any CPUs, keys, capacity and increments: *)
(* its type invariant, the fate of a key that lost an increment, where     *)
(* every increment is, counters that never decrease, and that it           *)
(* implements CounterMap.  Then about the programs that call it: they make *)
(* no call but those IncrementMap allows, so that what is proved of        *)
(* IncrementMap holds of them, and one whose keys fit its map loses        *)
(* nothing.                                                                *)
(***************************************************************************)
EXTENDS CounterPrograms, SharedLemmas

LEMMA InitInv == Init => Inv
<1> SUFFICES ASSUME Init PROVE Inv
  OBVIOUS
<1>1. DOMAIN table = {}
  BY DEF Init, EmptyMap
<1>2. IsFiniteSet({}) /\ Cardinality({}) = 0
  BY FS_EmptySet
<1>3. TypeOK
  BY <1>1, <1>2, CapacityAssumption DEF Init, TypeOK
<1>4. PointersValid /\ RefusedByFullMap /\ AllOrNothing
  BY DEF Init, PointersValid, RefusedByFullMap, AllOrNothing
<1> QED
  BY <1>3, <1>4 DEF Inv

LEMMA NextInv == Inv /\ [Next]_vars => Inv'
<1> SUFFICES ASSUME Inv, [Next]_vars PROVE Inv'
  OBVIOUS
<1> USE DEF Inv
<1>0. Cardinality(DOMAIN table) \in Nat
  BY FS_CardinalityType DEF TypeOK
<1>1. ASSUME NEW c \in Cpus, NEW k \in Keys, NEW n \in Amounts, Lookup(c, k, n)
      PROVE  Inv'
  <2>1. TypeOK'
    BY <1>1, AmountsAssumption DEF Lookup, TypeOK, Calls
  <2>2. PointersValid'
    BY <1>1 DEF Lookup, TypeOK, PointersValid
  <2>3. RefusedByFullMap' /\ AllOrNothing'
    BY <1>1 DEF Lookup, TypeOK, RefusedByFullMap, AllOrNothing, Full
  <2> QED
    BY <2>1, <2>2, <2>3
<1>2. ASSUME NEW c \in Cpus, Create(c)
      PROVE  Inv'
  <2> DEFINE k == call[c].key
  <2>0. k \in Keys
    BY DEF TypeOK, Calls
  <2>1. /\ IsFiniteSet(DOMAIN table')
        /\ Cardinality(DOMAIN table') <= Capacity
        /\ DOMAIN table \subseteq DOMAIN table'
        /\ DOMAIN table' \subseteq DOMAIN table \cup {k}
        /\ \A x \in DOMAIN table : table'[x] = table[x]
        /\ k \in DOMAIN table' \/ Cardinality(DOMAIN table') >= Capacity
        /\ k \in DOMAIN table' /\ k \notin DOMAIN table => table'[k] = 0
        /\ DOMAIN table' # DOMAIN table => Cardinality(DOMAIN table) < Capacity
        /\ DOMAIN table' = DOMAIN table => table' = table
    BY <1>2, CapacityAssumption, UpdateNoExistFacts DEF Create, TypeOK
  <2>2. TypeOK'
    BY <1>2, <2>0, <2>1 DEF Create, TypeOK
  <2>3. Full => table' = table
    BY <1>0, <2>1, CapacityAssumption DEF Full
  <2>4. PointersValid'
    BY <1>2, <2>1 DEF Create, TypeOK, PointersValid
  <2>5. RefusedByFullMap'
    BY <1>2, <2>1, <2>3 DEF Create, TypeOK, RefusedByFullMap, Full
  <2>6. AllOrNothing'
    BY <1>2, <2>3 DEF Create, AllOrNothing, Full
  <2> QED
    BY <2>2, <2>4, <2>5, <2>6
<1>3. ASSUME NEW c \in Cpus, Again(c)
      PROVE  Inv'
  <2>0. call[c].key \in Keys /\ call[c].amount \in Nat
    BY AmountsAssumption DEF TypeOK, Calls
  <2>1. TypeOK'
    BY <1>3, <2>0 DEF Again, TypeOK
  <2>2. PointersValid' /\ RefusedByFullMap'
    BY <1>3 DEF Again, TypeOK, PointersValid, RefusedByFullMap, Full
  <2>3. AllOrNothing'
    BY <1>3, <2>0 DEF Again, TypeOK, RefusedByFullMap, AllOrNothing, Full
  <2> QED
    BY <2>1, <2>2, <2>3
<1>4. ASSUME NEW c \in Cpus, Add(c)
      PROVE  Inv'
  <2>0. call[c].key \in Keys /\ call[c].amount \in Nat
    BY AmountsAssumption DEF TypeOK, Calls
  <2>1. DOMAIN table' = DOMAIN table
    BY <1>4 DEF Add
  <2>2. TypeOK'
    BY <1>4, <2>0, <2>1 DEF Add, TypeOK
  <2>3. PointersValid' /\ RefusedByFullMap' /\ AllOrNothing'
    BY <1>4, <2>1 DEF Add, TypeOK, PointersValid, RefusedByFullMap, AllOrNothing, Full
  <2> QED
    BY <2>2, <2>3
<1>5. CASE UNCHANGED vars
  BY <1>5 DEF vars, TypeOK, PointersValid, RefusedByFullMap, AllOrNothing, Full
<1> QED
  BY <1>1, <1>2, <1>3, <1>4, <1>5 DEF Next

LEMMA Invariant == Spec => []Inv
  BY InitInv, NextInv, PTL DEF Spec

\* Type correctness of increment_map on any number of CPUs: the map is never
\* overfilled and every counter stays a natural number.
THEOREM TypeCorrect == Spec => []TypeOK
  BY Invariant, PTL DEF Inv

\* A key of the map has lost nothing, and a key that lost an increment is
\* never admitted, however the calls of the CPUs interleave.
THEOREM NeverPartlyCounted == Spec => []AllOrNothing
  BY Invariant, PTL DEF Inv

-----------------------------------------------------------------------------
\* What the call that CPU c is in still has to add to key k.
Share(c, k) == IF pc[c] # "idle" /\ call[c].key = k THEN call[c].amount ELSE 0

LEMMA CallFields ==
    \A x \in Calls : x.key \in Keys /\ x.amount \in Amounts /\ x.amount \in Nat
  BY AmountsAssumption DEF Calls

\* A step of one CPU changes what is in flight by its own share: the sum over
\* the CPUs in a call for k is one over all CPUs, for the others have no share.
LEMMA InFlightStep ==
    ASSUME TypeOK, TypeOK', NEW k, NEW c \in Cpus,
           \A d \in Cpus \ {c} : pc'[d] = pc[d] /\ call'[d] = call[d]
    PROVE  /\ InFlight(k)' = InFlight(k) - Share(c, k) + Share(c, k)'
           /\ InFlight(k) \in Int
<1> DEFINE f == [d \in Cpus |-> Share(d, k)]
           g == [d \in Cpus |-> Share(d, k)']
           R == {d \in Cpus : pc[d] # "idle" /\ call[d].key = k}
           S == {d \in Cpus : pc'[d] # "idle" /\ call'[d].key = k}
           amountsR == [d \in R |-> call[d].amount]
           amountsS == [d \in S |-> call'[d].amount]
<1>1. InFlight(k) = SumFunctionOnSet(amountsR, R)
  BY DEF InFlight
<1>2. InFlight(k)' = SumFunctionOnSet(amountsS, S)
  BY DEF InFlight
<1>3. \A d \in Cpus : call[d].amount \in Nat /\ call'[d].amount \in Nat
  BY CallFields DEF TypeOK
<1>4. /\ R \in SUBSET Cpus /\ \A d \in Cpus \ R : f[d] = 0
      /\ \A d \in R : amountsR[d] \in Int /\ f[d] = amountsR[d]
  BY <1>3 DEF Share
<1>5. /\ S \in SUBSET Cpus /\ \A d \in Cpus \ S : g[d] = 0
      /\ \A d \in S : amountsS[d] \in Int /\ g[d] = amountsS[d]
  BY <1>3 DEF Share
<1>6. \A d \in Cpus : f[d] \in Int /\ g[d] \in Int
  BY <1>3 DEF Share
<1>7. \A d \in Cpus \ {c} : g[d] = f[d]
  BY DEF Share
<1>8. f[c] = Share(c, k) /\ g[c] = Share(c, k)'
  OBVIOUS
<1> HIDE DEF f, g, R, S, amountsR, amountsS
<1>9. /\ SumFunctionOnSet(f, Cpus) = SumFunctionOnSet(amountsR, R)
      /\ SumFunctionOnSet(g, Cpus) = SumFunctionOnSet(amountsS, S)
  BY <1>4, <1>5, CpusAssumption, SumSupport
<1>10. SumFunctionOnSet(g, Cpus) = SumFunctionOnSet(f, Cpus) - f[c] + g[c]
  BY <1>6, <1>7, CpusAssumption, SumUpdate
<1>11. SumFunctionOnSet(f, Cpus) \in Int
  BY <1>6, CpusAssumption, SumInt
<1> QED
  BY <1>1, <1>2, <1>8, <1>9, <1>10, <1>11

LEMMA InitConservation == Init => Conservation
<1> SUFFICES ASSUME Init, NEW k \in Keys
             PROVE  asked[k] = ValueAt(table, k) + lost[k] + InFlight(k)
  BY DEF Conservation
<1>1. {c \in Cpus : pc[c] # "idle" /\ call[c].key = k} = {}
  BY DEF Init
<1>2. InFlight(k) = 0
  BY <1>1, SumEmpty DEF InFlight
<1> QED
  BY <1>2 DEF Init, EmptyMap, ValueAt

LEMMA StepConserves == Inv /\ Conservation /\ [Next]_vars => Conservation'
<1> SUFFICES ASSUME Inv, Conservation, [Next]_vars, NEW k \in Keys
             PROVE  (asked[k] = ValueAt(table, k) + lost[k] + InFlight(k))'
  BY DEF Conservation
<1>0. /\ TypeOK /\ TypeOK'
      /\ asked[k] = ValueAt(table, k) + lost[k] + InFlight(k)
      /\ asked[k] \in Nat /\ lost[k] \in Nat /\ ValueAt(table, k) \in Nat
  BY NextInv DEF Inv, Conservation, TypeOK, ValueAt
<1>1. ASSUME NEW c \in Cpus PROVE Share(c, k) \in Nat /\ Share(c, k)' \in Nat
  BY <1>0, CallFields DEF TypeOK, Share
<1>2. ASSUME NEW c \in Cpus, NEW x \in Keys, NEW n \in Amounts, Lookup(c, x, n)
      PROVE  (asked[k] = ValueAt(table, k) + lost[k] + InFlight(k))'
  <2>1. Share(c, k) = 0
    BY <1>2 DEF Lookup, Share
  <2>2. Share(c, k)' = IF x = k THEN n ELSE 0
    BY <1>0, <1>2 DEF Lookup, Share, TypeOK
  <2>3. InFlight(k)' = InFlight(k) - Share(c, k) + Share(c, k)' /\ InFlight(k) \in Int
    BY <1>0, <1>2, InFlightStep DEF Lookup, TypeOK
  <2>4. asked'[k] = asked[k] + (IF x = k THEN n ELSE 0) /\ n \in Nat
    BY <1>0, <1>2, AmountsAssumption DEF Lookup, TypeOK
  <2>5. table' = table /\ lost' = lost
    BY <1>2 DEF Lookup
  <2> QED
    BY <1>0, <1>1, <2>1, <2>2, <2>3, <2>4, <2>5
<1>3. ASSUME NEW c \in Cpus, Create(c) \/ Again(c) \/ Add(c)
      PROVE  /\ InFlight(k)' = InFlight(k) - Share(c, k) + Share(c, k)'
             /\ InFlight(k) \in Int
             /\ Share(c, k) = IF call[c].key = k THEN call[c].amount ELSE 0
             /\ Share(c, k)' = IF pc'[c] = "idle" THEN 0 ELSE Share(c, k)
             /\ call[c].key \in Keys /\ call[c].amount \in Nat
             /\ asked' = asked
  <2>1. call' = call /\ asked' = asked /\ \A d \in Cpus \ {c} : pc'[d] = pc[d]
    BY <1>0, <1>3 DEF Create, Again, Add, TypeOK
  <2>2. InFlight(k)' = InFlight(k) - Share(c, k) + Share(c, k)' /\ InFlight(k) \in Int
    BY <1>0, <2>1, InFlightStep
  <2>3. pc[c] # "idle"
    BY <1>3 DEF Create, Again, Add
  <2>4. call[c].key \in Keys /\ call[c].amount \in Nat
    BY <1>0, CallFields DEF TypeOK
  <2> QED
    BY <2>1, <2>2, <2>3, <2>4 DEF Share
<1>4. ASSUME NEW c \in Cpus, Create(c)
      PROVE  (asked[k] = ValueAt(table, k) + lost[k] + InFlight(k))'
  <2>1. pc'[c] # "idle" /\ lost' = lost
    BY <1>0, <1>4 DEF Create, TypeOK
  <2>2. ValueAt(table', k) = ValueAt(table, k)
    BY <1>0, <1>4, CapacityAssumption, UpdateNoExistFacts DEF Create, TypeOK, ValueAt
  <2> QED
    BY <1>0, <1>1, <1>3, <1>4, <2>1, <2>2
<1>5. ASSUME NEW c \in Cpus, Again(c)
      PROVE  (asked[k] = ValueAt(table, k) + lost[k] + InFlight(k))'
  <2>1. table' = table
    BY <1>5 DEF Again
  <2>2. CASE call[c].key \in DOMAIN table
    <3>1. pc'[c] # "idle" /\ lost' = lost
      BY <1>0, <1>5, <2>2 DEF Again, TypeOK
    <3> QED
      BY <1>0, <1>1, <1>3, <1>5, <2>1, <3>1
  <2>3. CASE call[c].key \notin DOMAIN table
    <3>1. /\ pc'[c] = "idle"
          /\ lost'[k] = lost[k] + (IF call[c].key = k THEN call[c].amount ELSE 0)
      BY <1>0, <1>3, <1>5, <2>3 DEF Again, TypeOK
    <3> QED
      BY <1>0, <1>1, <1>3, <1>5, <2>1, <3>1
  <2> QED
    BY <2>2, <2>3
<1>6. ASSUME NEW c \in Cpus, Add(c)
      PROVE  (asked[k] = ValueAt(table, k) + lost[k] + InFlight(k))'
  <2>1. pc'[c] = "idle" /\ lost' = lost /\ call[c].key \in DOMAIN table
    BY <1>0, <1>6 DEF Add, TypeOK, Inv, PointersValid
  <2>2. /\ DOMAIN table' = DOMAIN table
        /\ \A x \in DOMAIN table :
              table'[x] = table[x] + (IF call[c].key = x THEN call[c].amount ELSE 0)
    BY <1>0, <1>3, <1>6 DEF Add, TypeOK
  <2>3. ValueAt(table', k)
          = ValueAt(table, k) + (IF call[c].key = k THEN call[c].amount ELSE 0)
    BY <1>3, <1>6, <2>1, <2>2 DEF ValueAt
  <2> QED
    BY <1>0, <1>1, <1>3, <1>6, <2>1, <2>3
<1>7. CASE UNCHANGED vars
  BY <1>0, <1>7 DEF vars, InFlight, ValueAt
<1> QED
  BY <1>2, <1>4, <1>5, <1>6, <1>7 DEF Next

\* Every increment asked of a key is in its counter, was given up at a full
\* map, or belongs to a call still running, on any number of CPUs that create
\* and increment the same keys at once.
THEOREM NothingVanishes == Spec => []Conservation
<1>1. Inv /\ Conservation /\ [Next]_vars => (Inv /\ Conservation)'
  BY NextInv, StepConserves
<1> QED
  BY <1>1, InitInv, InitConservation, PTL DEF Spec

-----------------------------------------------------------------------------
LEMMA StepKeepsCounts ==
    Inv /\ [Next]_vars
        => [\A k \in DOMAIN table : k \in DOMAIN table' /\ table'[k] >= table[k]]_vars
<1> SUFFICES ASSUME Inv, [Next]_vars, NEW k \in DOMAIN table
             PROVE  k \in DOMAIN table' /\ table'[k] >= table[k]
  OBVIOUS
<1>0. table[k] \in Nat
  BY DEF Inv, TypeOK
<1>1. CASE table' = table
  BY <1>0, <1>1
<1>2. ASSUME NEW c \in Cpus, Create(c)
      PROVE  k \in DOMAIN table' /\ table'[k] = table[k]
  BY <1>2, CapacityAssumption, UpdateNoExistFacts DEF Create, Inv, TypeOK
<1>3. ASSUME NEW c \in Cpus, Add(c)
      PROVE  k \in DOMAIN table' /\ table'[k] >= table[k]
  <2>1. call[c].amount \in Nat
    BY AmountsAssumption DEF Inv, TypeOK, Calls
  <2> QED
    BY <1>0, <1>3, <2>1 DEF Add
<1> QED
  BY <1>0, <1>1, <1>2, <1>3 DEF Next, Lookup, Again, vars

\* What the exporter publishes as a Prometheus counter or histogram bucket
\* never goes down and never disappears.
THEOREM Monotone == Spec => CountsNeverDecrease
  BY Invariant, StepKeepsCounts, PTL DEF Spec, CountsNeverDecrease

-----------------------------------------------------------------------------
LEMMA InitRefines == Init => Abstract!Init
  BY DEF Init, Abstract!Init, EmptyMap, ValueAt

\* Both modules mean the same cardinality.
LEMMA SameCardinality == \A S : Abstract!Cardinality(S) = Cardinality(S)
  BY Zenon DEF Cardinality, Abstract!Cardinality

LEMMA StepRefines ==
    Inv /\ [Next]_vars
        => [Abstract!Next]_<<DOMAIN table, [k \in Keys |-> ValueAt(table, k)], lost>>
<1> DEFINE counts == [k \in Keys |-> ValueAt(table, k)]
<1> SUFFICES ASSUME Inv, [Next]_vars
             PROVE  Abstract!Next \/ UNCHANGED <<DOMAIN table, counts, lost>>
  OBVIOUS
<1>1. CASE UNCHANGED <<table, lost>>
  BY <1>1
<1>2. ASSUME NEW c \in Cpus, Create(c)
      PROVE  Abstract!Next \/ UNCHANGED <<DOMAIN table, counts, lost>>
  <2> DEFINE k == call[c].key
  <2>0. k \in Keys
    BY DEF Inv, TypeOK, Calls
  <2>1. /\ DOMAIN table \subseteq DOMAIN table'
        /\ DOMAIN table' \subseteq DOMAIN table \cup {k}
        /\ \A x \in DOMAIN table : table'[x] = table[x]
        /\ k \in DOMAIN table' /\ k \notin DOMAIN table => table'[k] = 0
        /\ DOMAIN table' # DOMAIN table => Cardinality(DOMAIN table) < Capacity
        /\ DOMAIN table' = DOMAIN table => table' = table
    BY <1>2, CapacityAssumption, UpdateNoExistFacts DEF Create, Inv, TypeOK
  <2>2. CASE DOMAIN table' = DOMAIN table
    BY <1>1, <1>2, <2>1, <2>2 DEF Create
  <2>3. CASE DOMAIN table' # DOMAIN table
    <3>1. k \notin DOMAIN table /\ DOMAIN table' = DOMAIN table \cup {k}
      BY <2>1, <2>3
    <3>2. \A x \in Keys : ValueAt(table', x) = ValueAt(table, x)
      BY <2>1, <3>1 DEF ValueAt
    <3>3. counts' = counts
      BY <3>2
    <3>4. Abstract!Admit(k)
      BY <1>2, <2>1, <2>3, <3>1, <3>3, SameCardinality DEF Abstract!Admit, Create
    <3> QED
      BY <2>0, <3>4 DEF Abstract!Next
  <2> QED
    BY <2>2, <2>3
<1>3. ASSUME NEW c \in Cpus, Again(c)
      PROVE  Abstract!Next \/ UNCHANGED <<DOMAIN table, counts, lost>>
  <2> DEFINE k == call[c].key
             n == call[c].amount
  <2>0. k \in Keys /\ n \in Amounts
    BY DEF Inv, TypeOK, Calls
  <2>1. CASE k \in DOMAIN table
    BY <1>1, <1>3, <2>1 DEF Again
  <2>2. CASE k \notin DOMAIN table
    <3>1. Abstract!Lose(k, n)
      BY <1>3, <2>2, SameCardinality DEF Abstract!Lose, Again, Inv, RefusedByFullMap, Full
    <3> QED
      BY <2>0, <3>1 DEF Abstract!Next
  <2> QED
    BY <2>1, <2>2
<1>4. ASSUME NEW c \in Cpus, Add(c)
      PROVE  Abstract!Next \/ UNCHANGED <<DOMAIN table, counts, lost>>
  <2> DEFINE k == call[c].key
             n == call[c].amount
  <2>0. k \in Keys /\ n \in Amounts /\ k \in DOMAIN table
    BY <1>4 DEF Inv, TypeOK, Calls, PointersValid, Add
  <2>1. table' = [table EXCEPT ![k] = @ + n]
    BY <1>4 DEF Add
  <2>2. DOMAIN table' = DOMAIN table
    BY <2>1
  <2>3. counts' = [counts EXCEPT ![k] = @ + n]
    BY <2>0, <2>1, <2>2 DEF ValueAt
  <2>4. Abstract!Count(k, n)
    BY <1>4, <2>0, <2>2, <2>3 DEF Abstract!Count, Add
  <2> QED
    BY <2>0, <2>4 DEF Abstract!Next
<1> QED
  BY <1>1, <1>2, <1>3, <1>4 DEF Next, Lookup, vars

\* increment_map run by any number of CPUs implements the counters of
\* CounterMap: each call takes effect at one step, the add or the refusal, so
\* the models of the programs may take an increment as a single step.
THEOREM Refinement == Spec => ImplementsCounterMap
  BY Invariant, InitRefines, StepRefines, PTL
  DEF Spec, ImplementsCounterMap, Abstract!Spec

-----------------------------------------------------------------------------
USE DEF Programs, AllKeys

\* What a step of a handler is to its map.
LEMMA HandlerCalls ==
    ASSUME Inv, OwnKeys, NEW c \in Cpus,
           PageCacheOp(c) \/ NamedEvent(c) \/ CacheEvent(c) \/ SynRecv(c) \/ AddBacklog(c)
    PROVE  \E k \in AllKeys[program], n \in Amounts :
              /\ Lookup(c, k, n)
              /\ program' = program
              /\ \E m \in {<<>>} \cup {<<x>> : x \in Amounts} :
                    next' = [next EXCEPT ![c] = m]
<1>0. /\ 1 \in Amounts /\ Periods \subseteq Amounts
      /\ \A len \in Backlogs : Backlog(len) \in Amounts
  BY ProgramAmountsAssumption
<1>1. next = [next EXCEPT ![c] = next[c]] /\ next[c] \in {<<>>} \cup {<<x>> : x \in Amounts}
  BY DEF OwnKeys
<1>2. CASE PageCacheOp(c)
  <2>1. PICK f \in Probed : Lookup(c, f, 1)
    BY <1>2 DEF PageCacheOp
  <2>2. f \in AllKeys[program] /\ program' = program /\ next' = next
    BY <1>2 DEF PageCacheOp
  <2> QED
    BY <1>0, <1>1, <2>1, <2>2
<1>3. CASE NamedEvent(c)
  <2>1. PICK n \in Names : Lookup(c, n, 1)
    BY <1>3 DEF NamedEvent
  <2>2. n \in AllKeys[program] /\ program' = program /\ next' = next
    BY <1>3 DEF NamedEvent
  <2> QED
    BY <1>0, <1>1, <2>1, <2>2
<1>4. CASE CacheEvent(c)
  <2>1. PICK period \in Periods : Lookup(c, c, period)
    BY <1>4 DEF CacheEvent
  <2>2. c \in AllKeys[program] /\ program' = program /\ next' = next
    BY <1>4 DEF CacheEvent
  <2> QED
    BY <1>0, <1>1, <2>1, <2>2
<1>5. CASE SynRecv(c)
  <2>1. PICK len \in Backlogs : /\ Lookup(c, BacklogBucket(len), 1)
                                /\ next' = [next EXCEPT ![c] = <<Backlog(len)>>]
    BY <1>5 DEF SynRecv
  <2>2. BacklogBucket(len) \in AllKeys[program] /\ program' = program
    BY <1>5 DEF SynRecv
  <2>3. <<Backlog(len)>> \in {<<>>} \cup {<<x>> : x \in Amounts}
    BY <1>0
  <2> QED
    BY <1>0, <2>1, <2>2, <2>3
<1>6. CASE AddBacklog(c)
  <2>1. /\ next[c] # <<>>
        /\ Lookup(c, call[c].key, Head(next[c]))
        /\ next' = [next EXCEPT ![c] = <<>>] /\ program' = program
    BY <1>6 DEF AddBacklog
  <2>2. call[c].key \in AllKeys[program]
    BY <2>1 DEF OwnKeys
  <2>3. PICK n \in Amounts : next[c] = <<n>>
    BY <1>1, <2>1
  <2>4. Head(next[c]) \in Amounts
    BY <2>3
  <2> QED
    BY <2>1, <2>2, <2>4
<1> QED
  BY <1>2, <1>3, <1>4, <1>5, <1>6

\* Every step of a program is one that IncrementMap allows.
LEMMA StepIsCall == Inv /\ OwnKeys /\ [ProgNext]_progVars => [Next]_vars
<1> SUFFICES ASSUME Inv, OwnKeys, [ProgNext]_progVars PROVE [Next]_vars
  OBVIOUS
<1>1. CASE UNCHANGED progVars
  BY <1>1 DEF progVars, vars
<1>2. ASSUME NEW c \in Cpus,
             PageCacheOp(c) \/ NamedEvent(c) \/ CacheEvent(c) \/ SynRecv(c) \/ AddBacklog(c)
      PROVE  Next
  <2>1. PICK k \in AllKeys[program], n \in Amounts : Lookup(c, k, n)
    BY <1>2, HandlerCalls
  <2>2. k \in Keys
    BY ProgramKeysAssumption DEF OwnKeys
  <2> QED
    BY <2>1, <2>2 DEF Next
<1>3. ASSUME NEW c \in Cpus, Proceed(c) PROVE Next
  BY <1>3 DEF Proceed, Next
<1> QED
  BY <1>1, <1>2, <1>3 DEF ProgNext

LEMMA InitOwnKeys == ProgInit => OwnKeys
<1> SUFFICES ASSUME ProgInit PROVE OwnKeys
  OBVIOUS
<1>1. DOMAIN table = {}
  BY DEF ProgInit, Init, EmptyMap
<1>2. next \in [Cpus -> {<<>>} \cup {<<n>> : n \in Amounts}]
  BY DEF ProgInit
<1>3. \A c \in Cpus : pc[c] = "idle" /\ next[c] = <<>>
  BY DEF ProgInit, Init
<1>4. \A k \in Keys : ~(lost[k] > 0)
  BY DEF ProgInit, Init
<1> QED
  BY <1>1, <1>2, <1>3, <1>4 DEF OwnKeys, ProgInit

LEMMA NextOwnKeys == Inv /\ OwnKeys /\ [ProgNext]_progVars => OwnKeys'
<1> SUFFICES ASSUME Inv, OwnKeys, [ProgNext]_progVars PROVE OwnKeys'
  OBVIOUS
<1>0. /\ program' = program => AllKeys[program]' = AllKeys[program]
      /\ call \in [Cpus -> Calls] /\ pc \in [Cpus -> {"idle", "create", "again", "add"}]
      /\ lost \in [Keys -> Nat]
  BY DEF Inv, TypeOK
<1>1. CASE UNCHANGED progVars
  BY <1>1 DEF progVars, OwnKeys
<1>2. ASSUME NEW c \in Cpus,
             PageCacheOp(c) \/ NamedEvent(c) \/ CacheEvent(c) \/ SynRecv(c) \/ AddBacklog(c)
      PROVE  OwnKeys'
  <2>1. PICK k \in AllKeys[program], n \in Amounts :
              /\ Lookup(c, k, n)
              /\ program' = program
              /\ \E m \in {<<>>} \cup {<<x>> : x \in Amounts} :
                    next' = [next EXCEPT ![c] = m]
    BY <1>2, HandlerCalls
  <2>2. /\ call' = [call EXCEPT ![c] = [key |-> k, amount |-> n]]
        /\ table' = table /\ lost' = lost
        /\ \A d \in Cpus \ {c} : pc'[d] = pc[d] /\ call'[d] = call[d]
        /\ call'[c].key = k
    BY <1>0, <2>1 DEF Lookup
  <2>3. /\ next' \in [Cpus -> {<<>>} \cup {<<x>> : x \in Amounts}]
        /\ \A d \in Cpus \ {c} : next'[d] = next[d]
    BY <2>1 DEF OwnKeys
  <2> QED
    BY <1>0, <2>1, <2>2, <2>3 DEF OwnKeys
<1>3. ASSUME NEW c \in Cpus, Proceed(c) PROVE OwnKeys'
  <2>1. program' = program /\ next' = next /\ call' = call
    BY <1>3 DEF Proceed, Create, Again, Add
  <2>2. /\ pc[c] # "idle"
        /\ \A d \in Cpus \ {c} : pc'[d] = pc[d]
    BY <1>0, <1>3 DEF Proceed, Create, Again, Add
  <2>3. call[c].key \in AllKeys[program] /\ call[c].key \in Keys
    BY <1>0, <2>2 DEF OwnKeys, Calls
  <2>4. DOMAIN table' \subseteq DOMAIN table \cup {call[c].key}
    <3>1. CASE Create(c)
      BY <3>1, CapacityAssumption, UpdateNoExistFacts DEF Create, Inv, TypeOK
    <3>2. CASE Again(c) \/ Add(c)
      BY <3>2 DEF Again, Add
    <3> QED
      BY <1>3, <3>1, <3>2 DEF Proceed
  <2>5. \A k \in Keys \ {call[c].key} : lost'[k] = lost[k]
    BY <1>0, <1>3 DEF Proceed, Create, Again, Add
  <2> QED
    BY <1>0, <2>1, <2>2, <2>3, <2>4, <2>5 DEF OwnKeys
<1> QED
  BY <1>1, <1>2, <1>3 DEF ProgNext

LEMMA ProgInvariant == ProgSpec => [](Inv /\ OwnKeys)
<1>1. ProgInit => Inv /\ OwnKeys
  BY InitInv, InitOwnKeys DEF ProgInit
<1>2. Inv /\ OwnKeys /\ [ProgNext]_progVars => (Inv /\ OwnKeys)'
  BY StepIsCall, NextInv, NextOwnKeys
<1> QED
  BY <1>1, <1>2, PTL DEF ProgSpec

\* The handlers call increment_map as IncrementMap allows and do nothing else
\* to the map: every theorem about IncrementMap is one about the programs.
THEOREM ProgramsCallIncrementMap == ProgSpec => Spec
<1>1. ProgInit => Init
  BY DEF ProgInit
<1> QED
  BY <1>1, ProgInvariant, StepIsCall, PTL DEF ProgSpec, Spec

\* A program whose keys fit its map loses no increment, on any number of CPUs.
THEOREM NothingLostWhenItFits == ProgSpec => []CompleteWhenItFits
<1>1. Inv /\ OwnKeys => CompleteWhenItFits
  <2> SUFFICES ASSUME Inv, OwnKeys,
                      IsFiniteSet(AllKeys[program]),
                      Cardinality(AllKeys[program]) <= Capacity,
                      NEW k \in Keys, lost[k] # 0
               PROVE  FALSE
    BY DEF CompleteWhenItFits
  <2> DEFINE own == AllKeys[program]
  <2>1. lost[k] > 0
    BY DEF Inv, TypeOK
  <2>2. k \in own /\ k \notin DOMAIN table /\ Cardinality(DOMAIN table) >= Capacity
    BY <2>1 DEF OwnKeys, Inv, AllOrNothing, Full
  <2>3. DOMAIN table \subseteq own \ {k}
    BY <2>2 DEF OwnKeys
  <2>4. IsFiniteSet(own \ {k}) /\ Cardinality(own \ {k}) = Cardinality(own) - 1
    BY <2>2, FS_RemoveElement
  <2>5. Cardinality(DOMAIN table) <= Cardinality(own \ {k})
    BY <2>3, <2>4, FS_Subset
  <2>6. /\ Cardinality(own) \in Nat /\ Cardinality(DOMAIN table) \in Nat
        /\ Capacity \in Nat
    BY FS_CardinalityType, CapacityAssumption DEF Inv, TypeOK
  <2> QED
    BY <2>2, <2>4, <2>5, <2>6
<1> QED
  BY <1>1, ProgInvariant, PTL

=============================================================================
