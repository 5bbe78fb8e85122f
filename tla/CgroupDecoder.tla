---------------------------- MODULE CgroupDecoder ----------------------------
(***************************************************************************)
(* The cgroup decoder (decoder/cgroup.go) as the decoder set runs it       *)
(* (decoder/decoder.go, Set.Decode): scrapes, requests for /maps and       *)
(* perf event sinks decode at the same time, the set's mutex is held       *)
(* around one decoder, and an id that is not in the cache makes the        *)
(* decoder walk /sys/fs/cgroup while cgroups come and go.                  *)
(*                                                                         *)
(* cgroupfs is outside the repository: an id is never used again, a path   *)
(* is, as when a service is restarted.  The walk reads a directory once    *)
(* and then visits its entries in order; one directory is enough here.     *)
(* Every call of the walk on cgroupfs may fail, for a directory that has   *)
(* gone or for any other reason.                                           *)
(***************************************************************************)
EXTENDS Naturals, FiniteSets, Sequences, Functions

CONSTANTS
    Decoders,    \* the goroutines that decode
    Ids,         \* cgroup ids
    Paths,       \* the paths under /sys/fs/cgroup, in the order of the walk
    PathOf,      \* path of each id
    Unknown      \* stands for the name unknown_cgroup_id:<id>

ASSUME PathsAssumption ==
    /\ IsInjective(Paths)
    /\ PathOf \in [Ids -> Range(Paths)]
    /\ Unknown \notin Range(Paths)

VARIABLES
    exists,      \* ids of the cgroups there are
    removed,     \* ids of those there were
    mu,          \* holder of the mutex, or {}
    cache,       \* the cache: id -> path, or Unknown
    task,        \* what each goroutine is doing
    given,       \* history: <<id, name>> decoded
    cutOff       \* history: ids whose own walk failed at them or before them

vars == <<exists, removed, mu, cache, task, given, cutOff>>

Idle == [at |-> "idle"]
Names == Range(Paths) \cup {Unknown}

Init ==
    /\ exists = {}
    /\ removed = {}
    /\ mu = {}
    /\ cache = [i \in {} |-> Unknown]
    /\ task = [d \in Decoders |-> Idle]
    /\ given = {}
    /\ cutOff = {}

-----------------------------------------------------------------------------
\* cgroupfs: one cgroup at a time has a path.
Create(i) ==
    /\ i \notin exists \cup removed
    /\ \A j \in exists : PathOf[j] # PathOf[i]
    /\ exists' = exists \cup {i}
    /\ UNCHANGED <<removed, mu, cache, task, given, cutOff>>

Remove(i) ==
    /\ i \in exists
    /\ exists' = exists \ {i}
    /\ removed' = removed \cup {i}
    /\ UNCHANGED <<mu, cache, task, given, cutOff>>

-----------------------------------------------------------------------------
\* A key of a map is the id of a cgroup that there is or was.
Decode(d, i) ==
    /\ task[d] = Idle
    /\ i \in exists \cup removed
    /\ task' = [task EXCEPT ![d] = [at |-> "lock", id |-> i]]
    /\ UNCHANGED <<exists, removed, mu, cache, given, cutOff>>

\* Mutant of Lock: the mutex is not waited for.
LockNothing(d) ==
    /\ task[d].at = "lock"
    /\ mu' = mu \cup {d}
    /\ task' = [task EXCEPT ![d].at = "lookup"]
    /\ UNCHANGED <<exists, removed, cache, given, cutOff>>

Lock(d) ==
    /\ task[d].at = "lock"
    /\ mu = {}
    /\ mu' = {d}
    /\ task' = [task EXCEPT ![d].at = "lookup"]
    /\ UNCHANGED <<exists, removed, cache, given, cutOff>>

\* What the decoder returns, and s.mu.Unlock().
Finish(d, name) ==
    /\ given' = given \cup {<<task[d].id, name>>}
    /\ mu' = {}
    /\ task' = [task EXCEPT ![d] = Idle]

Hit(d) ==
    /\ task[d].at = "lookup"
    /\ task[d].id \in DOMAIN cache
    /\ Finish(d, cache[task[d].id])
    /\ UNCHANGED <<exists, removed, cache, cutOff>>

\* A walk for an id: the places still to visit, and the one being read.
Walk(i, places, read) == [at |-> "walk", id |-> i, todo |-> places, reading |-> read]

\* The directories at a place of the walk.
At(n) == {i \in exists : PathOf[i] = Paths[n]}

First(places) == {n \in places : \A m \in places : n <= m}

\* The walk of d will not visit these places: is the id it is made for there?
PassOver(d, places) ==
    cutOff' = cutOff \cup {i \in {task[d].id} : \E n \in places : i \in At(n)}

\* refreshCache begins: the entries of the directory, or none if it cannot be
\* read, because of its type, a permission or a limit.
Miss(d) ==
    /\ task[d].at = "lookup"
    /\ task[d].id \notin DOMAIN cache
    /\ LET there == {n \in DOMAIN Paths : At(n) # {}}
       IN  \E entries \in {there, {}} :
              /\ task' = [task EXCEPT ![d] = Walk(@.id, entries, {})]
              /\ PassOver(d, there \ entries)
    /\ UNCHANGED <<exists, removed, mu, cache, given>>

\* The next directory of the walk: NameToHandleAt gives its id, or fails, which
\* is only logged.
Visit(d) ==
    /\ task[d].at = "walk" /\ task[d].reading = {}
    /\ \E n \in First(task[d].todo) : \E resolved \in {At(n), {}} :
          /\ cache' = [j \in DOMAIN cache \cup resolved |->
                          IF j \in resolved THEN Paths[n] ELSE cache[j]]
          /\ task' = [task EXCEPT ![d] = Walk(@.id, @.todo \ {n}, {n})]
          /\ PassOver(d, IF resolved = {} THEN {n} ELSE {})
    /\ UNCHANGED <<exists, removed, mu, given>>

\* Mutant of ReadDir: a directory that has gone is waited for.
ReadDirWaits(d) ==
    /\ task[d].at = "walk"
    /\ \E n \in task[d].reading : At(n) # {}
    /\ task' = [task EXCEPT ![d] = Walk(@.id, @.todo, {})]
    /\ UNCHANGED <<exists, removed, mu, cache, given, cutOff>>

\* WalkDir reads the directory.  If that fails, as it must for one that has gone,
\* the function gets the error and returns it: the walk is over.
ReadDir(d) ==
    /\ task[d].at = "walk"
    /\ \E n \in task[d].reading :
       \E left \in IF At(n) = {} THEN {{}} ELSE {task[d].todo, {}} :
          /\ task' = [task EXCEPT ![d] = Walk(@.id, left, {})]
          /\ PassOver(d, task[d].todo \ left)
    /\ UNCHANGED <<exists, removed, mu, cache, given>>

\* Mutant of Settle: no second lookup, the id is unknown from now on.
SettleUnknown(d) ==
    /\ task[d].at = "walk"
    /\ task[d].todo = {} /\ task[d].reading = {}
    /\ cache' = [j \in DOMAIN cache \cup {task[d].id} |->
                    IF j = task[d].id THEN Unknown ELSE cache[j]]
    /\ Finish(d, Unknown)
    /\ UNCHANGED <<exists, removed, cutOff>>

\* The second lookup; an id not found is unknown, and is cached as that.
Settle(d) ==
    /\ task[d].at = "walk"
    /\ task[d].todo = {} /\ task[d].reading = {}
    /\ LET i == task[d].id
           name == IF i \in DOMAIN cache THEN cache[i] ELSE Unknown
       IN  /\ cache' = [j \in DOMAIN cache \cup {i} |-> IF j = i THEN name ELSE cache[j]]
           /\ Finish(d, name)
    /\ UNCHANGED <<exists, removed, cutOff>>

Run(d) == Lock(d) \/ Hit(d) \/ Miss(d) \/ Visit(d) \/ ReadDir(d) \/ Settle(d)

Next ==
    \/ \E i \in Ids : Create(i) \/ Remove(i)
    \/ \E d \in Decoders : (\E i \in Ids : Decode(d, i)) \/ Run(d)

Spec == Init /\ [][Next]_vars

\* A goroutine keeps running, and sync.Mutex passes to a goroutine that has
\* waited for a millisecond, whatever others lock it again.
FairSpec == Spec /\ \A d \in Decoders : SF_vars(Lock(d)) /\ WF_vars(Run(d))

-----------------------------------------------------------------------------
Tasks ==
    {Idle}
    \cup [at : {"lock", "lookup"}, id : Ids]
    \cup [at : {"walk"}, id : Ids, todo : SUBSET DOMAIN Paths,
          reading : SUBSET DOMAIN Paths]

\* Type invariant of the cache and of the goroutines (cgroup.go).
TypeOK ==
    /\ exists \subseteq Ids /\ removed \subseteq Ids \ exists
    /\ mu = {} \/ \E d \in Decoders : mu = {d}
    /\ DOMAIN cache \subseteq exists \cup removed /\ Range(cache) \subseteq Names
    /\ task \in [Decoders -> Tasks]
    /\ given \subseteq Ids \X Names /\ cutOff \subseteq Ids

\* Two goroutines are never in the decoder at once: its cache is a plain Go
\* map, and a concurrent write to it ends the process.
OneInDecoder ==
    Cardinality({d \in Decoders : task[d].at \in {"lookup", "walk"}}) <= 1

\* Once the decoder has named the path of an id it keeps to it, through later
\* walks and when the cgroup is gone, so that its counter stays in one series.
PathIsKept ==
    [][\A i \in DOMAIN cache :
          cache[i] # Unknown => i \in DOMAIN cache' /\ cache'[i] = cache[i]]_vars

\* Every decoding ends, however the cgroups change: no path through the
\* decoder keeps the mutex.
DecodingEnds == \A d \in Decoders : task[d].at = "lock" ~> task[d] = Idle

\* A cgroup that is there is decoded as unknown only if the walk made for it
\* failed at it or before it, whatever other walks did for other goroutines:
\* README.md:480-481 promises its path, and after a failed walk unknown stays in
\* the cache (cgroup.go:43-44) until the walk for another id comes by.
LivingIsKnown == \A i \in exists \ cutOff : <<i, Unknown>> \notin given

-----------------------------------------------------------------------------
\* The inductive strengthening.  The goroutine in the decoder is the one that
\* holds the mutex.
HolderDecodes ==
    \A d \in Decoders : task[d].at \in {"lookup", "walk"} <=> mu = {d}

\* An id that is decoded has been seen, and is never used again.
SeenIds ==
    /\ \A d \in Decoders : task[d] # Idle => task[d].id \in exists \cup removed
    /\ \A e \in given : e[1] \in exists \cup removed

\* The cache has the path of an id, or its cgroup is gone or its walk failed.
CacheIsTrue ==
    \A i \in DOMAIN cache :
        \/ cache[i] = PathOf[i]
        \/ cache[i] = Unknown /\ i \notin exists \ cutOff

\* A walk has found the cgroup it is made for, or has still to come to it.
WalkReaches ==
    \A d \in Decoders :
        task[d].at = "walk" /\ task[d].id \in exists \ cutOff =>
            \/ task[d].id \in DOMAIN cache
            \/ \E n \in task[d].todo : Paths[n] = PathOf[task[d].id]

Inv ==
    /\ TypeOK
    /\ HolderDecodes
    /\ SeenIds
    /\ CacheIsTrue
    /\ WalkReaches
    /\ LivingIsKnown

=============================================================================
