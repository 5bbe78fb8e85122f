------------------------ MODULE CgroupDecoder_proofs ------------------------
(***************************************************************************)
(* Proofs about CgroupDecoder, for any goroutines, cgroups and paths: its  *)
(* type invariant, that one goroutine at a time is in the decoder, that a  *)
(* cgroup that is there is not taken for an unknown one, and that a path   *)
(* once found is kept.                                                     *)
(***************************************************************************)
EXTENDS CgroupDecoder, FiniteSetTheorems, TLAPS

\* What the type of a task says of its fields.
LEMMA TaskFields ==
    ASSUME TypeOK, NEW d \in Decoders
    PROVE  /\ task[d].at \in {"idle", "lock", "lookup", "walk"}
           /\ task[d] = Idle <=> task[d].at = "idle"
           /\ task[d] # Idle => task[d].id \in Ids
           /\ task[d].at = "walk" =>
                 task[d].todo \subseteq DOMAIN Paths /\ task[d].reading \subseteq DOMAIN Paths
           /\ task[d].at = "lock" =>
                 [task[d] EXCEPT !.at = "lookup"] = [at |-> "lookup", id |-> task[d].id]
<1>1. task[d] \in Tasks
  BY DEF TypeOK
<1>2. CASE task[d] = Idle
  BY <1>2 DEF Idle
<1>3. CASE task[d] \in [at : {"lock", "lookup"}, id : Ids]
  BY <1>3 DEF Idle
<1>4. CASE task[d] \in [at : {"walk"}, id : Ids, todo : SUBSET DOMAIN Paths,
                         reading : SUBSET DOMAIN Paths]
  BY <1>4 DEF Idle
<1> QED
  BY <1>1, <1>2, <1>3, <1>4 DEF Tasks

\* A goroutine that goes on with its task is the only one whose task changes.
LEMMA TaskStep ==
    ASSUME TypeOK, NEW d \in Decoders, NEW t \in Tasks, task' = [task EXCEPT ![d] = t]
    PROVE  /\ task' \in [Decoders -> Tasks]
           /\ task'[d] = t
           /\ \A e \in Decoders : e # d => task'[e] = task[e]
  BY DEF TypeOK

LEMMA InitInv == Init => Inv
<1> SUFFICES ASSUME Init PROVE Inv
  OBVIOUS
<1> USE DEF Init
<1>1. TypeOK
  BY DEF TypeOK, Tasks, Range
<1>2. \A d \in Decoders : task[d].at = "idle"
  BY DEF Idle
<1>3. HolderDecodes
  BY <1>2 DEF HolderDecodes
<1>4. SeenIds /\ CacheIsTrue /\ WalkReaches /\ LivingIsKnown
  BY <1>2 DEF SeenIds, CacheIsTrue, WalkReaches, LivingIsKnown
<1> QED
  BY <1>1, <1>3, <1>4 DEF Inv

LEMMA CreateStep ==
    ASSUME Inv, NEW i \in Ids, Create(i)
    PROVE  Inv'
<1> USE DEF Inv, Create
<1>1. TypeOK'
  BY DEF TypeOK
<1>2. HolderDecodes' /\ SeenIds'
  BY DEF HolderDecodes, SeenIds
<1>3. CacheIsTrue'
  BY DEF CacheIsTrue, TypeOK
<1>4. WalkReaches'
  BY TaskFields DEF WalkReaches, SeenIds
<1>5. LivingIsKnown'
  BY DEF LivingIsKnown, SeenIds
<1> QED
  BY <1>1, <1>2, <1>3, <1>4, <1>5

LEMMA RemoveStep ==
    ASSUME Inv, NEW i \in Ids, Remove(i)
    PROVE  Inv'
<1> USE DEF Inv, Remove
<1>1. TypeOK'
  BY DEF TypeOK
<1> QED
  BY <1>1 DEF HolderDecodes, SeenIds, CacheIsTrue, WalkReaches, LivingIsKnown

LEMMA DecodeStep ==
    ASSUME Inv, NEW d \in Decoders, NEW i \in Ids, Decode(d, i)
    PROVE  Inv'
<1> USE DEF Inv, Decode
<1> DEFINE t == [at |-> "lock", id |-> i]
<1>1. t \in Tasks /\ t # Idle
  BY DEF Tasks, Idle
<1>2. /\ task' \in [Decoders -> Tasks]
      /\ task'[d] = t
      /\ \A e \in Decoders : e # d => task'[e] = task[e]
  BY <1>1, TaskStep
<1>3. TypeOK'
  BY <1>2 DEF TypeOK
<1>4. HolderDecodes'
  BY <1>2, TaskFields DEF HolderDecodes
<1> QED
  BY <1>2, <1>3, <1>4 DEF SeenIds, CacheIsTrue, WalkReaches, LivingIsKnown

LEMMA LockStep ==
    ASSUME Inv, NEW d \in Decoders, Lock(d)
    PROVE  Inv'
<1> USE DEF Inv, Lock
<1> DEFINE t == [at |-> "lookup", id |-> task[d].id]
<1>1. t \in Tasks /\ task' = [task EXCEPT ![d] = t] /\ task[d] # Idle
  BY TaskFields DEF Tasks, Idle
<1>2. /\ task' \in [Decoders -> Tasks]
      /\ task'[d] = t
      /\ \A e \in Decoders : e # d => task'[e] = task[e]
  BY <1>1, TaskStep
<1>3. TypeOK'
  BY <1>2 DEF TypeOK
<1>4. HolderDecodes'
  BY <1>2 DEF HolderDecodes
<1>5. SeenIds'
  BY <1>1, <1>2 DEF SeenIds
<1> QED
  BY <1>2, <1>3, <1>4, <1>5 DEF CacheIsTrue, WalkReaches, LivingIsKnown

\* The mutex is given back with a name that is true of the id.
LEMMA FinishStep ==
    ASSUME Inv, NEW d \in Decoders, task[d].at \in {"lookup", "walk"},
           NEW name \in Names, Finish(d, name), UNCHANGED <<exists, removed, cutOff>>,
           name = Unknown => task[d].id \notin exists \ cutOff
    PROVE  /\ mu' = {} /\ given' \subseteq Ids \X Names
           /\ task' \in [Decoders -> Tasks]
           /\ \A e \in Decoders : task'[e].at \notin {"lookup", "walk"}
           /\ HolderDecodes' /\ SeenIds' /\ WalkReaches' /\ LivingIsKnown'
<1> USE DEF Inv, Finish
<1>1. task[d].id \in Ids /\ task[d].id \in exists \cup removed /\ mu = {d}
  BY TaskFields DEF SeenIds, HolderDecodes
<1>2. /\ task' \in [Decoders -> Tasks]
      /\ task'[d] = Idle
      /\ \A e \in Decoders : e # d => task'[e] = task[e]
  BY TaskStep DEF Tasks
<1>3. \A e \in Decoders : task'[e].at \notin {"lookup", "walk"}
  BY <1>1, <1>2 DEF HolderDecodes, Idle
<1>4. given' = given \cup {<<task[d].id, name>>}
  OBVIOUS
<1>5. given' \subseteq Ids \X Names
  BY <1>1, <1>4 DEF TypeOK
<1>6. HolderDecodes' /\ WalkReaches'
  BY <1>3 DEF HolderDecodes, WalkReaches
<1>7. SeenIds'
  BY <1>1, <1>2, <1>4 DEF SeenIds
<1>8. LivingIsKnown'
  BY <1>4 DEF LivingIsKnown
<1> QED
  BY <1>2, <1>3, <1>5, <1>6, <1>7, <1>8

LEMMA HitStep ==
    ASSUME Inv, NEW d \in Decoders, Hit(d)
    PROVE  Inv'
<1> USE DEF Inv, Hit
<1> DEFINE name == cache[task[d].id]
<1>1. name \in Names
  BY DEF TypeOK, Range
<1>2. name = Unknown => task[d].id \notin exists \ cutOff
  <2>1. task[d].id \in Ids
    BY TaskFields
  <2>2. PathOf[task[d].id] # Unknown
    BY <2>1, PathsAssumption
  <2> QED
    BY <2>2 DEF CacheIsTrue
<1>3. /\ mu' = {} /\ given' \subseteq Ids \X Names
      /\ task' \in [Decoders -> Tasks]
      /\ HolderDecodes' /\ SeenIds' /\ WalkReaches' /\ LivingIsKnown'
  BY <1>1, <1>2, FinishStep
<1>4. TypeOK'
  BY <1>3 DEF TypeOK
<1> QED
  BY <1>3, <1>4 DEF CacheIsTrue

LEMMA SettleStep ==
    ASSUME Inv, NEW d \in Decoders, Settle(d)
    PROVE  Inv'
<1> USE DEF Inv, Settle
<1> DEFINE i == task[d].id
           name == IF i \in DOMAIN cache THEN cache[i] ELSE Unknown
<1>0. i \in Ids /\ i \in exists \cup removed
  BY TaskFields DEF SeenIds
<1>1. name \in Names
  BY DEF TypeOK, Range, Names
<1>2. name = PathOf[i] \/ (name = Unknown /\ i \notin exists \ cutOff)
  BY DEF CacheIsTrue, WalkReaches
<1>3. PathOf[i] # Unknown
  BY <1>0, PathsAssumption
<1>4. /\ mu' = {} /\ given' \subseteq Ids \X Names
      /\ task' \in [Decoders -> Tasks]
      /\ HolderDecodes' /\ SeenIds' /\ WalkReaches' /\ LivingIsKnown'
  BY <1>1, <1>2, <1>3, FinishStep
<1>5. /\ DOMAIN cache' = DOMAIN cache \cup {i}
      /\ \A j \in DOMAIN cache' : cache'[j] = IF j = i THEN name ELSE cache[j]
  OBVIOUS
<1>6. TypeOK'
  BY <1>0, <1>1, <1>4, <1>5 DEF TypeOK, Range
<1>7. CacheIsTrue'
  BY <1>2, <1>5 DEF CacheIsTrue
<1> QED
  BY <1>4, <1>6, <1>7

\* What passing over some places adds to the history.
LEMMA PassOverIds ==
    ASSUME TypeOK, NEW d \in Decoders, task[d] # Idle, NEW places, PassOver(d, places)
    PROVE  /\ cutOff \subseteq cutOff' /\ cutOff' \subseteq Ids
           /\ \A n \in places : task[d].id \in At(n) => task[d].id \in cutOff'
<1>1. task[d].id \in Ids
  BY TaskFields
<1>2. cutOff' = cutOff \cup {i \in {task[d].id} : \E n \in places : i \in At(n)}
  BY DEF PassOver
<1> QED
  BY <1>1, <1>2 DEF TypeOK

LEMMA MissStep ==
    ASSUME Inv, NEW d \in Decoders, Miss(d)
    PROVE  Inv'
<1> DEFINE i == task[d].id
           there == {n \in DOMAIN Paths : At(n) # {}}
           t(entries) == [at |-> "walk", id |-> i, todo |-> entries, reading |-> {}]
<1>1. /\ task[d].at = "lookup" /\ task[d] # Idle /\ i \in Ids
      /\ UNCHANGED <<exists, removed, mu, cache, given>>
  BY TaskFields DEF Miss, Inv, Idle
<1>2. PICK entries \in {there, {}} :
          task' = [task EXCEPT ![d] = t(entries)] /\ PassOver(d, there \ entries)
  BY DEF Miss, Walk
<1>3. t(entries) \in Tasks
  BY <1>1 DEF Tasks
<1>4. /\ task' \in [Decoders -> Tasks]
      /\ task'[d] = t(entries)
      /\ \A e \in Decoders : e # d => task'[e] = task[e]
  BY <1>2, <1>3, TaskStep DEF Inv
<1>5. /\ cutOff \subseteq cutOff' /\ cutOff' \subseteq Ids
      /\ \A n \in there \ entries : i \in At(n) => i \in cutOff'
  BY <1>1, <1>2, PassOverIds DEF Inv
<1>6. TypeOK'
  BY <1>1, <1>4, <1>5 DEF Inv, TypeOK
<1>7. HolderDecodes'
  BY <1>1, <1>4 DEF Inv, HolderDecodes
<1>8. SeenIds'
  BY <1>1, <1>4 DEF Inv, SeenIds
<1>9. i \in exists \ cutOff' => \E n \in entries : Paths[n] = PathOf[i]
  <2> SUFFICES ASSUME i \in exists \ cutOff' PROVE \E n \in entries : Paths[n] = PathOf[i]
    OBVIOUS
  <2>1. PICK n \in DOMAIN Paths : PathOf[i] = Paths[n]
    BY <1>1, PathsAssumption DEF Range
  <2>2. i \in At(n)
    BY <2>1 DEF At
  <2> QED
    BY <1>5, <2>1, <2>2
<1>10. WalkReaches'
  BY <1>1, <1>4, <1>5, <1>9 DEF Inv, WalkReaches
<1> QED
  BY <1>1, <1>5, <1>6, <1>7, <1>8, <1>10 DEF Inv, CacheIsTrue, LivingIsKnown

\* What a visit leaves in the cache.
LEMMA VisitCache ==
    ASSUME Inv, NEW n \in DOMAIN Paths, NEW resolved \in {At(n), {}},
           cache' = [j \in DOMAIN cache \cup resolved |->
                        IF j \in resolved THEN Paths[n] ELSE cache[j]]
    PROVE  /\ DOMAIN cache' = DOMAIN cache \cup resolved
           /\ \A j \in DOMAIN cache' :
                 cache'[j] = IF j \in resolved THEN PathOf[j] ELSE cache[j]
           /\ DOMAIN cache' \subseteq exists \cup removed
           /\ Range(cache') \subseteq Names
<1>1. Paths[n] \in Names
  BY DEF Names, Range
<1>2. \A j \in resolved : j \in exists /\ PathOf[j] = Paths[n]
  BY DEF At
<1> QED
  BY <1>1, <1>2 DEF Inv, TypeOK, Range

\* What a step of the walk does to the tasks.
LEMMA WalkTask ==
    ASSUME Inv, NEW d \in Decoders, task[d].at = "walk",
           NEW left \in SUBSET DOMAIN Paths, NEW some \in SUBSET DOMAIN Paths,
           task' = [task EXCEPT ![d] = Walk(task[d].id, left, some)],
           UNCHANGED <<exists, removed, mu, given>>
    PROVE  /\ task' \in [Decoders -> Tasks]
           /\ task'[d] = Walk(task[d].id, left, some)
           /\ \A e \in Decoders : e # d => task'[e] = task[e] /\ task[e].at # "walk"
           /\ HolderDecodes' /\ SeenIds'
<1> DEFINE t == Walk(task[d].id, left, some)
<1>1. task[d].id \in Ids /\ task[d] # Idle
  BY TaskFields DEF Inv, Idle
<1>2. t \in Tasks /\ t.at = "walk" /\ t.id = task[d].id /\ t # Idle
  BY <1>1 DEF Tasks, Walk, Idle
<1>3. task' = [task EXCEPT ![d] = t]
  OBVIOUS
<1> HIDE DEF t
<1>4. /\ task' \in [Decoders -> Tasks]
      /\ task'[d] = t
      /\ \A e \in Decoders : e # d => task'[e] = task[e]
  BY <1>2, <1>3, TaskStep DEF Inv
<1>5. \A e \in Decoders : e # d => task[e].at # "walk"
  BY DEF Inv, HolderDecodes, TypeOK
<1>6. HolderDecodes' /\ SeenIds'
  BY <1>1, <1>2, <1>4 DEF Inv, HolderDecodes, SeenIds
<1> QED
  BY <1>4, <1>5, <1>6 DEF t

LEMMA VisitStep ==
    ASSUME Inv, NEW d \in Decoders, Visit(d)
    PROVE  Inv'
<1> DEFINE i == task[d].id
<1>1. PICK n \in First(task[d].todo), resolved \in SUBSET exists :
          /\ resolved \in {At(n), {}}
          /\ cache' = [j \in DOMAIN cache \cup resolved |->
                          IF j \in resolved THEN Paths[n] ELSE cache[j]]
          /\ task' = [task EXCEPT ![d] = Walk(task[d].id, task[d].todo \ {n}, {n})]
          /\ PassOver(d, IF resolved = {} THEN {n} ELSE {})
  BY DEF Visit, At
<1> DEFINE left == task[d].todo \ {n}
<1>2. task[d].at = "walk" /\ UNCHANGED <<exists, removed, mu, given>>
  BY DEF Visit
<1>3. n \in DOMAIN Paths /\ left \in SUBSET DOMAIN Paths /\ {n} \in SUBSET DOMAIN Paths
  BY <1>2, TaskFields DEF First, Inv
<1>4. /\ task' \in [Decoders -> Tasks]
      /\ task'[d] = Walk(i, left, {n})
      /\ \A e \in Decoders : e # d => task'[e] = task[e] /\ task[e].at # "walk"
      /\ HolderDecodes' /\ SeenIds'
  BY <1>1, <1>2, <1>3, WalkTask
<1>5. /\ DOMAIN cache' = DOMAIN cache \cup resolved
      /\ \A j \in DOMAIN cache' :
            cache'[j] = IF j \in resolved THEN PathOf[j] ELSE cache[j]
      /\ DOMAIN cache' \subseteq exists \cup removed
      /\ Range(cache') \subseteq Names
  BY <1>1, <1>3, VisitCache
<1>6. /\ cutOff \subseteq cutOff' /\ cutOff' \subseteq Ids
      /\ resolved = {} => (i \in At(n) => i \in cutOff')
  <2>1. task[d] # Idle
    BY <1>2 DEF Idle
  <2> QED
    BY <1>1, <2>1, PassOverIds DEF Inv
<1>7. TypeOK'
  BY <1>2, <1>4, <1>5, <1>6 DEF Inv, TypeOK
<1>8. CacheIsTrue'
  BY <1>2, <1>5, <1>6 DEF Inv, CacheIsTrue
<1>9. WalkReaches'
  <2>1. ASSUME i \in exists \ cutOff', i \notin DOMAIN cache'
        PROVE  \E m \in left : Paths[m] = PathOf[i]
    <3>1. PICK m \in task[d].todo : Paths[m] = PathOf[i]
      BY <1>2, <1>5, <1>6, <2>1 DEF Inv, WalkReaches
    <3>2. m # n
      BY <1>1, <1>5, <1>6, <2>1, <3>1 DEF At
    <3> QED
      BY <3>1, <3>2
  <2>2. task'[d].id = i /\ task'[d].todo = left
    BY <1>4 DEF Walk
  <2> QED
    BY <1>2, <1>4, <2>1, <2>2 DEF WalkReaches
<1>10. LivingIsKnown'
  BY <1>2, <1>6 DEF Inv, LivingIsKnown
<1> QED
  BY <1>4, <1>7, <1>8, <1>9, <1>10 DEF Inv

LEMMA ReadDirStep ==
    ASSUME Inv, NEW d \in Decoders, ReadDir(d)
    PROVE  Inv'
<1> DEFINE i == task[d].id
<1>1. PICK left \in {task[d].todo, {}} :
          /\ task' = [task EXCEPT ![d] = Walk(task[d].id, left, {})]
          /\ PassOver(d, task[d].todo \ left)
  BY DEF ReadDir
<1>2. task[d].at = "walk" /\ task[d] # Idle /\ UNCHANGED <<exists, removed, mu, cache, given>>
  BY DEF ReadDir, Idle
<1>3. left \in SUBSET DOMAIN Paths /\ {} \in SUBSET DOMAIN Paths
  BY <1>2, TaskFields DEF Inv
<1>4. /\ cutOff \subseteq cutOff' /\ cutOff' \subseteq Ids
      /\ \A m \in task[d].todo \ left : i \in At(m) => i \in cutOff'
  BY <1>1, <1>2, PassOverIds DEF Inv
<1>5. /\ task' \in [Decoders -> Tasks]
      /\ task'[d] = Walk(i, left, {})
      /\ \A e \in Decoders : e # d => task'[e] = task[e] /\ task[e].at # "walk"
      /\ HolderDecodes' /\ SeenIds'
  BY <1>1, <1>2, <1>3, WalkTask
<1>6. TypeOK'
  BY <1>2, <1>4, <1>5 DEF Inv, TypeOK
<1>7. CacheIsTrue'
  BY <1>2, <1>4 DEF Inv, CacheIsTrue
<1>8. WalkReaches'
  <2>1. ASSUME i \in exists \ cutOff', i \notin DOMAIN cache
        PROVE  \E m \in left : Paths[m] = PathOf[i]
    <3>1. PICK m \in task[d].todo : Paths[m] = PathOf[i]
      BY <1>2, <1>4, <2>1 DEF Inv, WalkReaches
    <3>2. i \in At(m)
      BY <2>1, <3>1 DEF At
    <3> QED
      BY <1>4, <2>1, <3>1, <3>2
  <2>2. task'[d].id = i /\ task'[d].todo = left
    BY <1>5 DEF Walk
  <2> QED
    BY <1>2, <1>5, <2>1, <2>2 DEF WalkReaches
<1>9. LivingIsKnown'
  BY <1>2, <1>4 DEF Inv, LivingIsKnown
<1> QED
  BY <1>5, <1>6, <1>7, <1>8, <1>9 DEF Inv

LEMMA NextInv == Inv /\ [Next]_vars => Inv'
<1> SUFFICES ASSUME Inv, [Next]_vars PROVE Inv'
  OBVIOUS
<1>1. ASSUME NEW i \in Ids, Create(i) \/ Remove(i) PROVE Inv'
  BY <1>1, CreateStep, RemoveStep
<1>2. ASSUME NEW d \in Decoders, NEW i \in Ids, Decode(d, i) PROVE Inv'
  BY <1>2, DecodeStep
<1>3. ASSUME NEW d \in Decoders, Run(d) PROVE Inv'
  BY <1>3, LockStep, HitStep, MissStep, VisitStep, ReadDirStep, SettleStep DEF Run
<1>4. CASE UNCHANGED vars
  BY <1>4 DEF vars, Inv, TypeOK, HolderDecodes, SeenIds, CacheIsTrue, WalkReaches,
              LivingIsKnown
<1> QED
  BY <1>1, <1>2, <1>3, <1>4 DEF Next

LEMMA Invariant == Spec => []Inv
  BY InitInv, NextInv, PTL DEF Spec

\* Type correctness of the decoder set and of the cache.
THEOREM TypeCorrect == Spec => []TypeOK
  BY Invariant, PTL DEF Inv

\* However many scrapes, sinks and /maps requests decode at once, one at a time
\* is inside the decoder and its cache.
THEOREM OneAtATime == Spec => []OneInDecoder
<1>1. Inv => OneInDecoder
  <2> SUFFICES ASSUME Inv PROVE OneInDecoder
    OBVIOUS
  <2> DEFINE inside == {d \in Decoders : task[d].at \in {"lookup", "walk"}}
  <2>1. inside = mu
    BY DEF Inv, TypeOK, HolderDecodes
  <2>2. Cardinality(mu) <= 1
    <3>1. CASE mu = {}
      <4>1. Cardinality({}) = 0
        BY FS_EmptySet
      <4> QED
        BY <3>1, <4>1
    <3>2. ASSUME NEW d \in Decoders, mu = {d} PROVE Cardinality(mu) <= 1
      <4>1. Cardinality({d}) = 1
        BY FS_Singleton
      <4> QED
        BY <3>2, <4>1
    <3> QED
      BY <3>1, <3>2 DEF Inv, TypeOK
  <2> QED
    BY <2>1, <2>2 DEF OneInDecoder
<1> QED
  BY <1>1, Invariant, PTL

\* A cgroup that is there is decoded as unknown only after the walk made for it
\* has failed at it or before it.
THEOREM LivingAreKnown == Spec => []LivingIsKnown
  BY Invariant, PTL DEF Inv

\* A path that was found for an id stays its name.
THEOREM PathsAreKept == Spec => PathIsKept
<1> DEFINE Kept == \A i \in DOMAIN cache :
                      cache[i] # Unknown => i \in DOMAIN cache' /\ cache'[i] = cache[i]
<1>1. Inv /\ [Next]_vars => [Kept]_vars
  <2> SUFFICES ASSUME Inv, Next PROVE Kept
    BY DEF vars
  <2>1. ASSUME NEW i \in Ids, Create(i) \/ Remove(i) PROVE Kept
    BY <2>1 DEF Create, Remove
  <2>2. ASSUME NEW d \in Decoders, NEW i \in Ids, Decode(d, i) PROVE Kept
    BY <2>2 DEF Decode
  <2>3. ASSUME NEW d \in Decoders, Lock(d) \/ Hit(d) \/ Miss(d) \/ ReadDir(d) PROVE Kept
    BY <2>3 DEF Lock, Hit, Miss, ReadDir
  <2>4. ASSUME NEW d \in Decoders, Settle(d) PROVE Kept
    BY <2>4 DEF Settle
  <2>5. ASSUME NEW d \in Decoders, Visit(d) PROVE Kept
    <3>1. PICK n \in First(task[d].todo), resolved \in SUBSET exists :
              /\ resolved \in {At(n), {}}
              /\ cache' = [j \in DOMAIN cache \cup resolved |->
                              IF j \in resolved THEN Paths[n] ELSE cache[j]]
      BY <2>5 DEF Visit, At
    <3>2. n \in DOMAIN Paths
      BY <2>5, TaskFields DEF Visit, First, Inv
    <3>3. /\ DOMAIN cache' = DOMAIN cache \cup resolved
          /\ \A j \in DOMAIN cache' :
                cache'[j] = IF j \in resolved THEN PathOf[j] ELSE cache[j]
      BY <3>1, <3>2, VisitCache
    <3> QED
      BY <3>3 DEF Inv, CacheIsTrue
  <2> QED
    BY <2>1, <2>2, <2>3, <2>4, <2>5 DEF Next, Run
<1> QED
  BY <1>1, Invariant, PTL DEF Spec, PathIsKept

=============================================================================
