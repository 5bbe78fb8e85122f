---------------------------- MODULE LatencyProbe ----------------------------
(***************************************************************************)
(* The shape the latency programs of examples/ share: one probe stores the *)
(* time in the start map under the object's address; another looks it up,  *)
(* reads the time through the pointer, counts the latency in a bucket of   *)
(* the histogram map, adds it to the sum slot and forgets the start.       *)
(* Modules that EXTEND this one say who calls the probes, and when.        *)
(*                                                                         *)
(* A call of increment_map is one step here: IncrementMap implements       *)
(* CounterMap, whose increments are single steps.  Time counts             *)
(* microseconds, the unit of the histograms.                               *)
(***************************************************************************)
EXTENDS BpfMaps, Integers, Bits

CONSTANTS
    Cpus,
    Objects,          \* requests or sockets, by address
    Labels,           \* the part of the histogram's key before the slot
    StartCapacity,    \* max_entries of the start map
    HistCapacity,     \* max_entries of the histogram map
    MaxSlot,          \* MAX_LATENCY_SLOT
    Wrap,             \* 2^64: a counter and a difference of two times are u64
    NsPerUs,          \* 1000: the clock counts nanoseconds
    MaxTime,          \* bound of the model: the clock stops here
    MaxStarts         \* bound of the model: how often a start is recorded

ASSUME CpusAssumption == IsFiniteSet(Cpus)
ASSUME CapacitiesAssumption == StartCapacity \in Nat /\ HistCapacity \in Nat
ASSUME BoundsAssumption == MaxSlot \in Nat /\ MaxTime \in Nat /\ MaxStarts \in Nat
ASSUME WrapAssumption ==
    /\ Wrap \in Nat /\ NsPerUs \in Nat \ {0}
    /\ MaxTime * NsPerUs < Wrap

VARIABLES
    now,        \* bpf_ktime_get_ns
    start,      \* the start map: object -> time
    hist,       \* the histogram map: <<label, slot>> -> count or sum
    wrapped,    \* history: labels one of whose counters has exceeded a u64
    run,        \* the run of the second probe each CPU is in
    stamped,    \* history: when the first probe last saw the object
    unsampled,  \* history: objects not yet counted since then
    starts      \* history: number of runs of the first probe

probeVars == <<now, start, hist, wrapped, run, stamped, unsampled, starts>>

Idle == [at |-> "idle"]
SumSlot == MaxSlot + 1
HistKeys == Labels \X (0..SumSlot)

Running(c, at) == run[c].at = at

\* The CPUs inside the second probe for object o.
Probing(o) == {c \in Cpus : run[c] # Idle /\ run[c].obj = o}

\* The histogram's map begins empty, or, for an array, with its elements.
ProbeInit(map) ==
    /\ now = 0
    /\ start = EmptyMap
    /\ hist = map
    /\ wrapped = {}
    /\ run = [c \in Cpus |-> Idle]
    /\ stamped = [o \in Objects |-> 0]
    /\ unsampled = {}
    /\ starts = 0

Tick ==
    /\ now < MaxTime
    /\ now' = now + 1
    /\ UNCHANGED <<start, hist, wrapped, run, stamped, unsampled, starts>>

\* Mutants of RecordStart: the update with BPF_NOEXIST, and a map that grows.
RecordStartOnce(o) ==
    /\ starts < MaxStarts
    /\ starts' = starts + 1
    /\ start' = UpdateNoExist(start, o, now, StartCapacity)
    /\ stamped' = [stamped EXCEPT ![o] = now]
    /\ unsampled' = unsampled \cup {o}
    /\ UNCHANGED <<now, hist, wrapped, run>>

RecordStartUnbounded(o) ==
    /\ starts < MaxStarts
    /\ starts' = starts + 1
    /\ start' = Put(start, o, now)
    /\ stamped' = [stamped EXCEPT ![o] = now]
    /\ unsampled' = unsampled \cup {o}
    /\ UNCHANGED <<now, hist, wrapped, run>>

\* The first probe.  Its result is not looked at: a full map drops it.
RecordStart(o) ==
    /\ starts < MaxStarts
    /\ starts' = starts + 1
    /\ start' = UpdateAny(start, o, now, StartCapacity)
    /\ stamped' = [stamped EXCEPT ![o] = now]
    /\ unsampled' = unsampled \cup {o}
    /\ UNCHANGED <<now, hist, wrapped, run>>

\* The second probe begins: the lookup gives a pointer into the start map, or
\* the probe returns.
LookupStart(c, o) ==
    /\ run[c] = Idle
    /\ run' = IF o \in DOMAIN start
              THEN [run EXCEPT ![c] =
                      [at |-> "read", obj |-> o, ts |-> start[o], since |-> now]]
              ELSE run
    /\ UNCHANGED <<now, start, hist, wrapped, stamped, unsampled, starts>>

\* What *tsp gives: the time found, or, once another CPU has deleted or
\* replaced the entry, that time still or the time that was stored in the
\* freed element since.
Held(c) == run[c].obj \in DOMAIN start /\ start[run[c].obj] = run[c].ts

PointedTo(c) ==
    {run[c].ts}
    \cup {start[x] : x \in {y \in DOMAIN start : ~Held(c) /\ start[y] >= run[c].since}}

\* The difference of two u64 of nanoseconds, in microseconds.
Elapsed(from, to) ==
    IF from <= to THEN to - from ELSE (Wrap - NsPerUs * (from - to)) \div NsPerUs

\* The clock and *tsp are read in two instructions, in this order in
\* biolatency and accept-latency: the clock at any time since the lookup.
MeasureFrom(c, ts, clock) ==
    /\ run' = [run EXCEPT ![c] =
                 [at |-> "bucket", obj |-> run[c].obj, delta |-> Elapsed(ts, clock)]]
    /\ UNCHANGED <<now, start, hist, wrapped, stamped, unsampled, starts>>

Measure(c) ==
    /\ Running(c, "read")
    /\ \E ts \in PointedTo(c), clock \in run[c].since..now : MeasureFrom(c, ts, clock)

\* Mutant of CapSlot: the cap is left out.
CapNothing(delta) == Log2OfU64(delta)

\* The slot of a latency: its log2, capped.
CapSlot(delta) == IF Log2OfU64(delta) > MaxSlot THEN MaxSlot ELSE Log2OfU64(delta)

\* increment_map on the histogram map, whose counters are u64.  Nobody looks
\* whether it was full.
Increment(key, n) ==
    LET total == ValueAt(hist, key) + n
        fits == HasRoom(hist, key, HistCapacity)
    IN  /\ hist' = IF fits THEN Put(hist, key, total % Wrap) ELSE hist
        /\ wrapped' = IF fits /\ total >= Wrap THEN wrapped \cup {key[1]} ELSE wrapped

CountBucket(c, label) ==
    /\ Running(c, "bucket")
    /\ Increment(<<label, CapSlot(run[c].delta)>>, 1)
    /\ run' = [run EXCEPT ![c].at = "sum"]
    /\ unsampled' = unsampled \ {run[c].obj}
    /\ UNCHANGED <<now, start, stamped, starts>>

\* Mutant of CountSum: the sum slot counts events.
CountSumOfOnes(c, label) ==
    /\ Running(c, "sum")
    /\ Increment(<<label, SumSlot>>, 1)
    /\ run' = [run EXCEPT ![c].at = "forget"]
    /\ UNCHANGED <<now, start, stamped, unsampled, starts>>

CountSum(c, label) ==
    /\ Running(c, "sum")
    /\ Increment(<<label, SumSlot>>, run[c].delta)
    /\ run' = [run EXCEPT ![c].at = "forget"]
    /\ UNCHANGED <<now, start, stamped, unsampled, starts>>

\* Mutant of Forget: the start stays in the map.
ForgetNothing(c) ==
    /\ Running(c, "forget")
    /\ run' = [run EXCEPT ![c] = Idle]
    /\ UNCHANGED <<now, start, hist, wrapped, stamped, unsampled, starts>>

Forget(c) ==
    /\ Running(c, "forget")
    /\ start' = DeleteElem(start, run[c].obj)
    /\ run' = [run EXCEPT ![c] = Idle]
    /\ UNCHANGED <<now, hist, wrapped, stamped, unsampled, starts>>

-----------------------------------------------------------------------------
Times == 0..MaxTime
Words == 0..(Wrap - 1)

Runs ==
    {Idle}
    \cup [at : {"read"}, obj : Objects, ts : Times, since : Times]
    \cup [at : {"bucket", "sum", "forget"}, obj : Objects, delta : Words]

\* Type invariant of the probes; neither map ever outgrows its max_entries.
ProbeTypeOK ==
    /\ now \in Times
    /\ DOMAIN start \subseteq Objects /\ \A o \in DOMAIN start : start[o] \in 0..now
    /\ IsFiniteSet(DOMAIN start) /\ Cardinality(DOMAIN start) <= StartCapacity
    /\ \A k \in DOMAIN hist : hist[k] \in Words
    /\ wrapped \subseteq Labels
    /\ IsFiniteSet(DOMAIN hist) /\ Cardinality(DOMAIN hist) <= HistCapacity
    /\ run \in [Cpus -> Runs]
    /\ stamped \in [Objects -> 0..now]
    /\ unsampled \subseteq Objects
    /\ starts \in 0..MaxStarts

\* A latency counted for an object is the time since the first probe last saw
\* that object, never since an earlier use of the same address, whatever a
\* full map refused and whatever entries earlier uses left behind; so it is
\* never a difference below zero, which a u64 turns into 584 years.
FreshTimestamps ==
    \A c \in Cpus :
        Running(c, "bucket") => run[c].delta <= now - stamped[run[c].obj]

\* One run of the first probe is counted in the histogram at most once.
SampledOnce ==
    \A c \in Cpus : Running(c, "bucket") => run[c].obj \in unsampled

\* Once the sum slot of a label is in the map, it holds at least what the
\* buckets of the label account for, up to the samples between their two
\* increments, until one of the label's counters exceeds a u64.
LowerBound(slot) == IF slot = 0 THEN 0 ELSE 2^slot

DeltasOf(cs) == SumFunction([c \in cs |-> run[c].delta])

AccountedFor(map, l) ==
    SumFunction([s \in 0..MaxSlot |-> LowerBound(s) * ValueAt(map, <<l, s>>)])

SumCoversBuckets(Between(_)) ==
    \A l \in Labels \ wrapped :
        <<l, SumSlot>> \in DOMAIN hist =>
            AccountedFor(hist, l) <= hist[<<l, SumSlot>>] + Between(l)

\* Its inductive strengthening: before the sum slot is in the map, the samples
\* between their two increments account for the buckets, or the map is full
\* and the slot will never be there.
Covered(map, l, between) ==
    <<l, SumSlot>> \in DOMAIN map \/ Cardinality(DOMAIN map) < HistCapacity =>
        AccountedFor(map, l) <= ValueAt(map, <<l, SumSlot>>) + between

-----------------------------------------------------------------------------
\* What holds of the start map whoever calls the second probe: an entry is the
\* time the first probe last saw the object, and has not been counted unless a
\* run is about to delete it.
EntriesAreLatest == \A o \in DOMAIN start : start[o] = stamped[o]

SampledEntriesGo ==
    \A o \in DOMAIN start :
        o \in unsampled
        \/ \E c \in Cpus : run[c].at \in {"sum", "forget"} /\ run[c].obj = o

EntriesInv == ProbeTypeOK /\ EntriesAreLatest /\ SampledEntriesGo

\* The pointer of a run still points to the entry it was looked up for.
PointerValid(c) ==
    /\ run[c].obj \in DOMAIN start
    /\ start[run[c].obj] = run[c].ts
    /\ run[c].ts <= run[c].since /\ run[c].since <= now

\* The inductive strengthening of FreshTimestamps and SampledOnce, for programs
\* whose objects are in the second probe on one CPU at a time, and in no other
\* probe meanwhile.
ProbedOnce ==
    \A c, d \in Cpus :
        c # d /\ run[c] # Idle /\ run[d] # Idle => run[c].obj # run[d].obj

PointersValid == \A c \in Cpus : Running(c, "read") => PointerValid(c)

\* The part of it that holds also when the first probe takes more than a step
\* and runs for an object that is in the second probe.
UnsampledRuns ==
    \A c \in Cpus : run[c].at \in {"read", "bucket"} => run[c].obj \in unsampled

OnceInv == ProbeTypeOK /\ SampledEntriesGo /\ ProbedOnce /\ UnsampledRuns

ProbeInv ==
    /\ EntriesInv
    /\ ProbedOnce
    /\ PointersValid
    /\ FreshTimestamps
    /\ SampledOnce

=============================================================================
