------------------------- MODULE LatencyProbe_proofs -------------------------
(***************************************************************************)
(* Lemmas about the steps of LatencyProbe, for any CPUs, objects, labels   *)
(* and capacities of the two maps.  Each step keeps EntriesInv whoever     *)
(* takes it; OnceInv, when an object is in the second probe on one CPU     *)
(* only; ProbeInv, when it is in no first probe either; and an increment   *)
(* keeps the sum slot of each label above what its buckets account for.    *)
(* The proofs about the programs show that they take no other steps.       *)
(***************************************************************************)
EXTENDS LatencyProbe, SharedLemmas

\* Arithmetic of words.
LEMMA WordFacts ==
    /\ Wrap \in Nat \ {0} /\ MaxTime < Wrap
    /\ \A v \in Nat : v % Wrap \in Words
    /\ \A v \in Nat : v < Wrap => v % Wrap = v
    /\ \A from, to \in Times : Elapsed(from, to) \in Words
<1>1. Wrap \in Nat /\ NsPerUs \in Nat \ {0} /\ MaxTime \in Nat /\ MaxTime * NsPerUs < Wrap
  BY WrapAssumption, BoundsAssumption
<1>2. MaxTime <= MaxTime * NsPerUs /\ MaxTime * NsPerUs \in Nat
  BY <1>1
<1>3. Wrap \in Nat \ {0} /\ MaxTime < Wrap
  BY <1>1, <1>2
<1>4. \A v \in Nat : v % Wrap \in Words
  BY <1>3 DEF Words
<1>5. \A v \in Nat : v < Wrap => v % Wrap = v
  BY <1>3
<1>6. ASSUME NEW from \in Times, NEW to \in Times PROVE Elapsed(from, to) \in Words
  <2>1. from \in Nat /\ to \in Nat /\ from <= MaxTime /\ to <= MaxTime
    BY <1>1 DEF Times
  <2>2. CASE from <= to
    BY <1>1, <1>3, <2>1, <2>2 DEF Elapsed, Words
  <2>3. CASE ~(from <= to)
    <3> DEFINE d == from - to
               x == NsPerUs * d
    <3>1. d \in Nat \ {0} /\ d <= MaxTime
      BY <1>1, <2>1, <2>3
    <3>2. x \in Nat \ {0} /\ x <= MaxTime * NsPerUs
      <4> HIDE DEF d
      <4> QED
        BY <1>1, <3>1
    <3>3. Wrap - x \in Nat /\ Wrap - x < Wrap
      <4> HIDE DEF x
      <4> QED
        BY <1>1, <1>2, <3>2
    <3>4. \A v \in Nat : v < Wrap => v \div NsPerUs \in Words
      BY <1>1 DEF Words
    <3>5. Elapsed(from, to) = (Wrap - x) \div NsPerUs
      BY <2>3 DEF Elapsed
    <3> HIDE DEF x
    <3> QED
      BY <3>3, <3>4, <3>5
  <2> QED
    BY <2>2, <2>3
<1> QED
  BY <1>3, <1>4, <1>5, <1>6

\* increment_map on the histogram adds no key but its own and keeps the map
\* within its capacity.
LEMMA IncrementFacts ==
    ASSUME ProbeTypeOK, NEW key, key[1] \in Labels, NEW n \in Nat, Increment(key, n)
    PROVE  /\ DOMAIN hist \subseteq DOMAIN hist'
           /\ DOMAIN hist' \subseteq DOMAIN hist \cup {key}
           /\ \A k \in DOMAIN hist' : hist'[k] \in Words
           /\ IsFiniteSet(DOMAIN hist')
           /\ Cardinality(DOMAIN hist') <= HistCapacity
           /\ Cardinality(DOMAIN hist) >= HistCapacity => DOMAIN hist' = DOMAIN hist
           /\ wrapped \subseteq wrapped' /\ wrapped' \subseteq Labels
<1> DEFINE total == ValueAt(hist, key) + n
<1>0. total % Wrap \in Words
  <2>1. total \in Nat
    BY WordFacts DEF ProbeTypeOK, ValueAt, Words
  <2> QED
    BY <2>1, WordFacts
<1>a. wrapped \subseteq wrapped' /\ wrapped' \subseteq Labels
  BY DEF Increment, ProbeTypeOK
<1>1. CASE HasRoom(hist, key, HistCapacity)
  <2>1. hist' = UpdateAny(hist, key, total % Wrap, HistCapacity)
    BY <1>1 DEF Increment, UpdateAny
  <2> HIDE DEF total
  <2>2. /\ IsFiniteSet(DOMAIN hist) /\ Cardinality(DOMAIN hist) <= HistCapacity
        /\ HistCapacity \in Nat /\ Cardinality(DOMAIN hist) \in Nat
    BY CapacitiesAssumption, FS_CardinalityType DEF ProbeTypeOK
  <2>3. /\ IsFiniteSet(DOMAIN hist')
        /\ Cardinality(DOMAIN hist') <= HistCapacity
        /\ DOMAIN hist \subseteq DOMAIN hist'
        /\ DOMAIN hist' \subseteq DOMAIN hist \cup {key}
        /\ key \in DOMAIN hist' => hist'[key] = total % Wrap
        /\ \A x \in DOMAIN hist : x # key => hist'[x] = hist[x]
    BY <2>1, <2>2, UpdateAnyFacts
  <2>4. Cardinality(DOMAIN hist) >= HistCapacity => key \in DOMAIN hist
    BY <1>1, <2>2 DEF HasRoom
  <2> QED
    BY <1>0, <1>a, <2>3, <2>4 DEF ProbeTypeOK
<1>2. CASE ~HasRoom(hist, key, HistCapacity)
  BY <1>2, <1>a DEF Increment, ProbeTypeOK
<1> QED
  BY <1>1, <1>2

\* What it does to a counter that stays within a u64.
LEMMA IncrementExact ==
    ASSUME ProbeTypeOK, NEW key, NEW n \in Nat, Increment(key, n), key[1] \notin wrapped'
    PROVE  hist' = IF HasRoom(hist, key, HistCapacity)
                   THEN Put(hist, key, ValueAt(hist, key) + n) ELSE hist
<1> DEFINE total == ValueAt(hist, key) + n
<1>1. total \in Nat
  BY WordFacts DEF ProbeTypeOK, ValueAt, Words
<1>2. HasRoom(hist, key, HistCapacity) => total < Wrap
  BY <1>1, WordFacts DEF Increment
<1>3. HasRoom(hist, key, HistCapacity) => total % Wrap = total
  <2> HIDE DEF total
  <2> QED
    BY <1>1, <1>2, WordFacts
<1> QED
  BY <1>3 DEF Increment

-----------------------------------------------------------------------------
\* The start map: no step of the probes leaves an old time in it.
LEMMA EntriesInit ==
    ASSUME NEW map, ProbeInit(map), \A k \in DOMAIN map : map[k] = 0,
           IsFiniteSet(DOMAIN map), Cardinality(DOMAIN map) <= HistCapacity
    PROVE  EntriesInv
<1> USE DEF ProbeInit
<1>1. DOMAIN start = {} /\ IsFiniteSet({}) /\ Cardinality({}) = 0
  BY FS_EmptySet DEF EmptyMap
<1>2. ProbeTypeOK
  <2>1. \A k \in DOMAIN hist : hist[k] \in Words
    BY WordFacts DEF Words
  <2>2. now \in Times /\ run \in [Cpus -> Runs] /\ stamped \in [Objects -> 0..now]
    BY BoundsAssumption DEF Times, Runs
  <2> QED
    BY <1>1, <2>1, <2>2, CapacitiesAssumption, BoundsAssumption DEF ProbeTypeOK
<1> QED
  BY <1>1, <1>2 DEF EntriesInv, EntriesAreLatest, SampledEntriesGo

LEMMA EntriesStutter ==
    ASSUME EntriesInv, UNCHANGED probeVars
    PROVE  EntriesInv'
  BY DEF EntriesInv, probeVars, ProbeTypeOK, EntriesAreLatest, SampledEntriesGo

\* What the type of a run says of its fields.
LEMMA RunFields ==
    ASSUME ProbeTypeOK, NEW c \in Cpus
    PROVE  /\ Running(c, "read")
                 => run[c].obj \in Objects /\ run[c].ts \in Times /\ run[c].since \in Times
           /\ run[c].at \in {"bucket", "sum", "forget"}
                 => run[c].obj \in Objects /\ run[c].delta \in Nat
           /\ run[c] # Idle <=> run[c].at \in {"read", "bucket", "sum", "forget"}
           /\ run[c] # Idle => run[c].obj \in Objects
           /\ run[c].at \in {"idle", "read", "bucket", "sum", "forget"}
  BY WordFacts DEF ProbeTypeOK, Runs, Words, Running, Idle

\* The start map is given a time for an object, or refuses it.
LEMMA StoreFacts ==
    ASSUME ProbeTypeOK, NEW o \in Objects, NEW ts,
           start' = UpdateAny(start, o, ts, StartCapacity)
    PROVE  /\ IsFiniteSet(DOMAIN start')
           /\ Cardinality(DOMAIN start') <= StartCapacity
           /\ DOMAIN start \subseteq DOMAIN start'
           /\ DOMAIN start' \subseteq DOMAIN start \cup {o}
           /\ o \in DOMAIN start' => start'[o] = ts
           /\ \A x \in DOMAIN start : x # o => start'[x] = start[x]
<1>1. /\ IsFiniteSet(DOMAIN start) /\ Cardinality(DOMAIN start) <= StartCapacity
      /\ StartCapacity \in Nat
  BY CapacitiesAssumption DEF ProbeTypeOK
<1> QED
  BY <1>1, UpdateAnyFacts

LEMMA StartFacts ==
    ASSUME ProbeTypeOK, NEW o \in Objects, RecordStart(o)
    PROVE  /\ DOMAIN start \subseteq DOMAIN start'
           /\ DOMAIN start' \subseteq DOMAIN start \cup {o}
           /\ o \in DOMAIN start' => start'[o] = now
           /\ \A x \in DOMAIN start : x # o => start'[x] = start[x]
  BY StoreFacts DEF RecordStart

\* The type invariant and SampledEntriesGo, by themselves: they hold whoever
\* calls either probe.
LEMMA RunsStore ==
    ASSUME ProbeTypeOK, SampledEntriesGo, NEW o \in Objects, NEW ts \in 0..now,
           start' = UpdateAny(start, o, ts, StartCapacity),
           unsampled' = unsampled \cup {o}, UNCHANGED <<now, hist, wrapped, run>>,
           stamped' \in [Objects -> 0..now], starts' \in 0..MaxStarts
    PROVE  ProbeTypeOK' /\ SampledEntriesGo'
<1>1. ProbeTypeOK'
  <2>1. \A x \in DOMAIN start' : start'[x] \in 0..now
    BY StoreFacts DEF ProbeTypeOK
  <2>2. /\ IsFiniteSet(DOMAIN start') /\ Cardinality(DOMAIN start') <= StartCapacity
        /\ DOMAIN start' \subseteq Objects
    BY StoreFacts DEF ProbeTypeOK
  <2> QED
    BY <2>1, <2>2 DEF ProbeTypeOK
<1>2. SampledEntriesGo'
  BY StoreFacts DEF SampledEntriesGo
<1> QED
  BY <1>1, <1>2

LEMMA EntriesStart ==
    ASSUME EntriesInv, NEW o \in Objects, RecordStart(o)
    PROVE  EntriesInv'
<1> USE DEF EntriesInv
<1>1. ProbeTypeOK' /\ SampledEntriesGo'
  <2>1. now \in 0..now /\ stamped' \in [Objects -> 0..now]
    BY BoundsAssumption DEF ProbeTypeOK, Times, RecordStart
  <2>2. starts' \in 0..MaxStarts
    BY BoundsAssumption DEF ProbeTypeOK, RecordStart
  <2> QED
    BY <2>1, <2>2, RunsStore DEF RecordStart
<1>2. EntriesAreLatest'
  BY StartFacts DEF EntriesAreLatest, ProbeTypeOK, RecordStart
<1> QED
  BY <1>1, <1>2

LEMMA RunsTick ==
    ASSUME ProbeTypeOK, SampledEntriesGo, Tick
    PROVE  ProbeTypeOK' /\ SampledEntriesGo'
<1>1. ProbeTypeOK'
  BY BoundsAssumption DEF ProbeTypeOK, Times, Tick
<1> QED
  BY <1>1 DEF SampledEntriesGo, Tick

LEMMA EntriesTick ==
    ASSUME EntriesInv, Tick
    PROVE  EntriesInv'
  BY RunsTick DEF EntriesInv, EntriesAreLatest, Tick

\* A lookup that finds the object begins a run on it.
LEMMA LookupFacts ==
    ASSUME ProbeTypeOK, NEW c \in Cpus, NEW o \in DOMAIN start, LookupStart(c, o),
           NEW rec, rec = [at |-> "read", obj |-> o, ts |-> start[o], since |-> now]
    PROVE  /\ run' = [run EXCEPT ![c] = rec]
           /\ rec \in Runs /\ rec # Idle
           /\ \A d \in Cpus : run'[d] = IF d = c THEN rec ELSE run[d]
<1>1. run' = [run EXCEPT ![c] = rec]
  BY DEF LookupStart
<1>2. rec \in Runs /\ rec # Idle
  BY BoundsAssumption DEF ProbeTypeOK, Runs, Times, Idle
<1> QED
  BY <1>1, <1>2 DEF ProbeTypeOK

LEMMA RunsLookup ==
    ASSUME ProbeTypeOK, SampledEntriesGo, NEW c \in Cpus, NEW o, LookupStart(c, o)
    PROVE  ProbeTypeOK' /\ SampledEntriesGo'
<1>1. CASE o \in DOMAIN start
  <2> DEFINE rec == [at |-> "read", obj |-> o, ts |-> start[o], since |-> now]
  <2>1. /\ run' = [run EXCEPT ![c] = rec] /\ rec \in Runs
        /\ \A d \in Cpus : run'[d] = IF d = c THEN rec ELSE run[d]
    BY <1>1, LookupFacts
  <2>2. ProbeTypeOK'
    BY <2>1 DEF ProbeTypeOK, LookupStart
  <2>3. SampledEntriesGo'
    BY <2>1 DEF SampledEntriesGo, LookupStart, Idle
  <2> QED
    BY <2>2, <2>3
<1>2. CASE o \notin DOMAIN start
  BY <1>2 DEF ProbeTypeOK, SampledEntriesGo, LookupStart
<1> QED
  BY <1>1, <1>2

LEMMA EntriesLookup ==
    ASSUME EntriesInv, NEW c \in Cpus, NEW o, LookupStart(c, o)
    PROVE  EntriesInv'
  BY RunsLookup DEF EntriesInv, EntriesAreLatest, LookupStart

\* A difference of times is a u64.
LEMMA MeasureFromFacts ==
    ASSUME ProbeTypeOK, NEW c \in Cpus, Running(c, "read"), NEW ts \in Times,
           NEW clock \in Times, MeasureFrom(c, ts, clock)
    PROVE  LET rec == [at |-> "bucket", obj |-> run[c].obj, delta |-> Elapsed(ts, clock)]
           IN  /\ run' = [run EXCEPT ![c] = rec]
               /\ rec \in Runs /\ rec # Idle
               /\ \A d \in Cpus : run'[d] = IF d = c THEN rec ELSE run[d]
<1> DEFINE rec == [at |-> "bucket", obj |-> run[c].obj, delta |-> Elapsed(ts, clock)]
<1>1. run' = [run EXCEPT ![c] = rec]
  BY DEF MeasureFrom
<1>2. run[c].obj \in Objects /\ Elapsed(ts, clock) \in Words
  BY RunFields, WordFacts
<1>3. rec \in Runs /\ rec # Idle
  BY <1>2 DEF Runs, Idle
<1>4. \A d \in Cpus : run'[d] = IF d = c THEN rec ELSE run[d]
  BY <1>1 DEF ProbeTypeOK
<1> QED
  BY <1>1, <1>3, <1>4

\* Whatever the pointer gives is a time.
LEMMA MeasureFacts ==
    ASSUME ProbeTypeOK, NEW c \in Cpus, Measure(c)
    PROVE  \E ts \in PointedTo(c), clock \in run[c].since..now :
               LET rec == [at |-> "bucket", obj |-> run[c].obj, delta |-> Elapsed(ts, clock)]
               IN  /\ run' = [run EXCEPT ![c] = rec]
                   /\ rec \in Runs /\ rec # Idle
                   /\ \A d \in Cpus : run'[d] = IF d = c THEN rec ELSE run[d]
<1>1. PICK ts \in PointedTo(c), clock \in run[c].since..now : MeasureFrom(c, ts, clock)
  BY DEF Measure
<1>2. run[c].ts \in Times /\ run[c].since \in Times /\ now \in Times
  BY RunFields DEF Measure, ProbeTypeOK
<1>3. ts \in Times /\ clock \in Times
  BY <1>1, <1>2, BoundsAssumption DEF PointedTo, ProbeTypeOK, Times
<1> QED
  BY <1>1, <1>3, MeasureFromFacts DEF Measure

LEMMA RunsMeasure ==
    ASSUME ProbeTypeOK, SampledEntriesGo, NEW c \in Cpus, Running(c, "read"),
           NEW ts \in Times, NEW clock \in Times, MeasureFrom(c, ts, clock)
    PROVE  ProbeTypeOK' /\ SampledEntriesGo'
<1>1. PICK rec \in Runs : /\ run' = [run EXCEPT ![c] = rec]
                          /\ \A d \in Cpus : run'[d] = IF d = c THEN rec ELSE run[d]
  BY MeasureFromFacts
<1>2. ProbeTypeOK'
  BY <1>1 DEF ProbeTypeOK, MeasureFrom
<1>3. SampledEntriesGo'
  BY <1>1 DEF SampledEntriesGo, MeasureFrom, Running
<1> QED
  BY <1>2, <1>3

LEMMA EntriesMeasure ==
    ASSUME EntriesInv, NEW c \in Cpus, Measure(c)
    PROVE  EntriesInv'
<1> USE DEF EntriesInv
<1>1. PICK ts \in PointedTo(c), clock \in run[c].since..now : MeasureFrom(c, ts, clock)
  BY DEF Measure
<1>2. run[c].ts \in Times /\ run[c].since \in Times /\ now \in Times
  BY RunFields DEF Measure, ProbeTypeOK
<1>3. ts \in Times /\ clock \in Times
  BY <1>1, <1>2, BoundsAssumption DEF PointedTo, ProbeTypeOK, Times
<1>4. ProbeTypeOK' /\ SampledEntriesGo'
  BY <1>1, <1>3, RunsMeasure DEF Measure
<1>5. EntriesAreLatest'
  BY <1>1 DEF EntriesAreLatest, MeasureFrom
<1> QED
  BY <1>4, <1>5

LEMMA MeasureKeepsObjects ==
    ASSUME ProbeTypeOK, NEW c \in Cpus, Measure(c), NEW d \in Cpus, run'[d] # Idle
    PROVE  run[d] # Idle /\ run'[d].obj = run[d].obj
<1>1. PICK rec : run' = [run EXCEPT ![c] = rec] /\ rec.obj = run[c].obj
  BY DEF Measure, MeasureFrom
<1> QED
  BY <1>1 DEF Measure, Running, Idle, ProbeTypeOK

\* A run moves on to another step, with the same object and latency.
LEMMA AdvanceFacts ==
    ASSUME ProbeTypeOK, NEW c \in Cpus, NEW at \in {"sum", "forget"},
           run[c].at \in {"bucket", "sum"}, run' = [run EXCEPT ![c].at = at]
    PROVE  /\ run' \in [Cpus -> Runs]
           /\ \A d \in Cpus : d # c => run'[d] = run[d]
           /\ run'[c].at = at /\ run'[c].obj = run[c].obj
           /\ run'[c].delta = run[c].delta
           /\ run[c] # Idle /\ run'[c] # Idle
<1>1. run \in [Cpus -> Runs]
  BY DEF ProbeTypeOK
<1>2. PICK from \in {"bucket", "sum"}, o \in Objects, t \in Words :
          run[c] = [at |-> from, obj |-> o, delta |-> t]
  BY <1>1 DEF Runs, Idle
<1>3. run'[c] = [at |-> at, obj |-> o, delta |-> t]
  BY <1>1, <1>2
<1>4. run'[c] \in Runs
  BY <1>3 DEF Runs
<1> QED
  BY <1>1, <1>2, <1>3, <1>4 DEF Idle

\* The latency is counted under whatever key.
LEMMA RunsBucket ==
    ASSUME ProbeTypeOK, SampledEntriesGo, NEW c \in Cpus, Running(c, "bucket"),
           NEW key, key[1] \in Labels, Increment(key, 1),
           run' = [run EXCEPT ![c].at = "sum"], unsampled' = unsampled \ {run[c].obj},
           UNCHANGED <<now, start, stamped, starts>>
    PROVE  ProbeTypeOK' /\ SampledEntriesGo'
<1>1. ProbeTypeOK'
  BY IncrementFacts, AdvanceFacts DEF ProbeTypeOK, Running
<1>2. SampledEntriesGo'
  BY AdvanceFacts DEF SampledEntriesGo, Running
<1> QED
  BY <1>1, <1>2

LEMMA EntriesBucket ==
    ASSUME EntriesInv, NEW c \in Cpus, Running(c, "bucket"),
           NEW key, key[1] \in Labels, Increment(key, 1),
           run' = [run EXCEPT ![c].at = "sum"], unsampled' = unsampled \ {run[c].obj},
           UNCHANGED <<now, start, stamped, starts>>
    PROVE  EntriesInv'
  BY RunsBucket DEF EntriesInv, EntriesAreLatest

LEMMA RunsSum ==
    ASSUME ProbeTypeOK, SampledEntriesGo, NEW c \in Cpus, Running(c, "sum"),
           NEW key, key[1] \in Labels, Increment(key, run[c].delta),
           run' = [run EXCEPT ![c].at = "forget"],
           UNCHANGED <<now, start, stamped, unsampled, starts>>
    PROVE  ProbeTypeOK' /\ SampledEntriesGo'
<1>0. run[c].delta \in Nat
  BY RunFields DEF Running
<1>1. ProbeTypeOK'
  BY <1>0, IncrementFacts, AdvanceFacts DEF ProbeTypeOK, Running
<1>2. SampledEntriesGo'
  BY AdvanceFacts DEF SampledEntriesGo, Running
<1> QED
  BY <1>1, <1>2

LEMMA EntriesSum ==
    ASSUME EntriesInv, NEW c \in Cpus, Running(c, "sum"),
           NEW key, key[1] \in Labels, Increment(key, run[c].delta),
           run' = [run EXCEPT ![c].at = "forget"],
           UNCHANGED <<now, start, stamped, unsampled, starts>>
    PROVE  EntriesInv'
  BY RunsSum DEF EntriesInv, EntriesAreLatest

LEMMA ForgetFacts ==
    ASSUME ProbeTypeOK, NEW c \in Cpus, Forget(c)
    PROVE  /\ IsFiniteSet(DOMAIN start')
           /\ Cardinality(DOMAIN start') <= StartCapacity
           /\ DOMAIN start' = DOMAIN start \ {run[c].obj}
           /\ \A x \in DOMAIN start' : start'[x] = start[x]
           /\ \A d \in Cpus : run'[d] = IF d = c THEN Idle ELSE run[d]
<1>1. /\ IsFiniteSet(DOMAIN start) /\ Cardinality(DOMAIN start) <= StartCapacity
      /\ StartCapacity \in Nat
  BY CapacitiesAssumption DEF ProbeTypeOK
<1>2. \A d \in Cpus : run'[d] = IF d = c THEN Idle ELSE run[d]
  BY DEF ProbeTypeOK, Forget
<1>3. start' = DeleteElem(start, run[c].obj)
  BY DEF Forget
<1>4. /\ IsFiniteSet(DOMAIN start')
      /\ Cardinality(DOMAIN start') <= StartCapacity
      /\ DOMAIN start' = DOMAIN start \ {run[c].obj}
      /\ \A x \in DOMAIN start' : start'[x] = start[x]
  BY <1>1, <1>3, DeleteElemFacts
<1> QED
  BY <1>2, <1>4

LEMMA RunsForget ==
    ASSUME ProbeTypeOK, SampledEntriesGo, NEW c \in Cpus, Forget(c)
    PROVE  ProbeTypeOK' /\ SampledEntriesGo'
<1>1. ProbeTypeOK'
  BY ForgetFacts DEF ProbeTypeOK, Runs, Forget
<1>2. SampledEntriesGo'
  <2>1. /\ DOMAIN start' = DOMAIN start \ {run[c].obj}
        /\ \A d \in Cpus : d # c => run'[d] = run[d]
        /\ unsampled' = unsampled
    BY ForgetFacts DEF Forget
  <2> QED
    BY <2>1 DEF SampledEntriesGo
<1> QED
  BY <1>1, <1>2

LEMMA EntriesForget ==
    ASSUME EntriesInv, NEW c \in Cpus, Forget(c)
    PROVE  EntriesInv'
<1>1. EntriesAreLatest'
  BY ForgetFacts DEF EntriesInv, EntriesAreLatest, Forget
<1> QED
  BY <1>1, RunsForget DEF EntriesInv

-----------------------------------------------------------------------------
\* Objects that one CPU at a time is measuring.
LEMMA ProbeInitInv ==
    ASSUME NEW map, ProbeInit(map), \A k \in DOMAIN map : map[k] = 0,
           IsFiniteSet(DOMAIN map), Cardinality(DOMAIN map) <= HistCapacity
    PROVE  ProbeInv
<1>1. EntriesInv
  BY EntriesInit
<1>2. ProbedOnce /\ PointersValid /\ FreshTimestamps /\ SampledOnce
  BY DEF ProbeInit, ProbedOnce, PointersValid, FreshTimestamps, SampledOnce, Running, Idle
<1> QED
  BY <1>1, <1>2 DEF ProbeInv

\* Nothing the probes use changes.
LEMMA ProbeStutter ==
    ASSUME ProbeInv, UNCHANGED probeVars
    PROVE  ProbeInv'
<1>1. EntriesInv'
  BY EntriesStutter DEF ProbeInv
<1> QED
  BY <1>1 DEF ProbeInv, probeVars, ProbedOnce, PointersValid, PointerValid,
              FreshTimestamps, SampledOnce, Running

LEMMA StartStep ==
    ASSUME ProbeInv, NEW o \in Objects, RecordStart(o), Probing(o) = {}
    PROVE  ProbeInv'
<1> USE DEF ProbeInv, EntriesInv, RecordStart
<1>1. \A c \in Cpus : run[c] # Idle => run[c].obj # o
  BY DEF Probing
<1>2. EntriesInv'
  BY EntriesStart
<1>3. ProbedOnce'
  BY DEF ProbedOnce
<1>4. PointersValid'
  <2> SUFFICES ASSUME NEW c \in Cpus, Running(c, "read") PROVE PointerValid(c)'
    BY DEF PointersValid, Running
  <2>1. run[c].obj # o
    BY <1>1, RunFields DEF Running
  <2> QED
    BY <2>1, StartFacts DEF PointersValid, PointerValid
<1>5. FreshTimestamps'
  BY <1>1, RunFields DEF FreshTimestamps, Running, ProbeTypeOK
<1>6. SampledOnce'
  BY DEF SampledOnce, Running
<1> QED
  BY <1>2, <1>3, <1>4, <1>5, <1>6

\* A pointer and a latency that are right stay so while the clock goes on.
LEMMA TickKeepsPointer ==
    ASSUME ProbeTypeOK, Tick, NEW c \in Cpus
    PROVE  /\ Running(c, "read") /\ PointerValid(c) => PointerValid(c)'
           /\ Running(c, "bucket") /\ run[c].delta <= now - stamped[run[c].obj]
                => (run[c].delta <= now - stamped[run[c].obj])'
<1>1. now \in Nat /\ now' = now + 1 /\ UNCHANGED <<start, run, stamped>>
  BY BoundsAssumption DEF ProbeTypeOK, Times, Tick
<1>2. ASSUME Running(c, "read"), PointerValid(c) PROVE PointerValid(c)'
  <2>1. run[c].since \in Nat /\ run[c].since <= now
    BY <1>2, RunFields, BoundsAssumption DEF PointerValid, Times
  <2> QED
    BY <1>1, <1>2, <2>1 DEF PointerValid
<1>3. ASSUME Running(c, "bucket"), run[c].delta <= now - stamped[run[c].obj]
      PROVE  (run[c].delta <= now - stamped[run[c].obj])'
  <2>1. run[c].obj \in Objects /\ run[c].delta \in Nat
    BY <1>3, RunFields DEF Running
  <2>2. stamped[run[c].obj] \in Nat
    BY <1>1, <2>1 DEF ProbeTypeOK
  <2> QED
    BY <1>1, <1>3, <2>1, <2>2
<1> QED
  BY <1>2, <1>3

LEMMA TickStep ==
    ASSUME ProbeInv, Tick
    PROVE  ProbeInv'
<1>1. EntriesInv' /\ ProbeTypeOK /\ run' = run
  BY EntriesTick DEF ProbeInv, EntriesInv, Tick
<1>2. PointersValid' /\ FreshTimestamps'
  BY <1>1, TickKeepsPointer DEF ProbeInv, PointersValid, FreshTimestamps, Running
<1>3. ProbedOnce' /\ SampledOnce'
  BY DEF ProbeInv, ProbedOnce, SampledOnce, Running, Tick
<1> QED
  BY <1>1, <1>2, <1>3 DEF ProbeInv

LEMMA LookupStep ==
    ASSUME ProbeInv, NEW c \in Cpus, NEW o \in Objects, LookupStart(c, o), Probing(o) = {}
    PROVE  ProbeInv'
<1> USE DEF ProbeInv, EntriesInv
<1>1. CASE o \in DOMAIN start
  <2> DEFINE rec == [at |-> "read", obj |-> o, ts |-> start[o], since |-> now]
  <2>1. rec # Idle /\ \A d \in Cpus : run'[d] = IF d = c THEN rec ELSE run[d]
    BY <1>1, LookupFacts
  <2>2. \A d \in Cpus : run[d] # Idle => run[d].obj # o
    BY DEF Probing
  <2>3. EntriesInv'
    BY EntriesLookup
  <2>4. ProbedOnce'
    BY <2>1, <2>2 DEF ProbedOnce
  <2>5. PointersValid'
    BY <1>1, <2>1, BoundsAssumption
    DEF PointersValid, PointerValid, Running, ProbeTypeOK, Times, LookupStart
  <2>6. FreshTimestamps' /\ SampledOnce'
    BY <2>1 DEF FreshTimestamps, SampledOnce, Running, LookupStart
  <2> QED
    BY <2>3, <2>4, <2>5, <2>6
<1>2. CASE o \notin DOMAIN start
  BY <1>2, ProbeStutter DEF probeVars, LookupStart
<1> QED
  BY <1>1, <1>2

\* The time read through a valid pointer is the one the last run of the first
\* probe stored.
LEMMA MeasuredIsFresh ==
    ASSUME EntriesInv, NEW c \in Cpus, PointerValid(c), Measure(c)
    PROVE  Running(c, "bucket")' /\ (run[c].delta <= now - stamped[run[c].obj])'
<1> USE DEF EntriesInv
<1> DEFINE o == run[c].obj
<1>1. PointedTo(c) = {start[o]}
  BY DEF PointerValid, PointedTo, Held
<1>2. UNCHANGED <<now, stamped>>
  BY DEF Measure, MeasureFrom
<1>b. \E ts \in PointedTo(c), clock \in run[c].since..now :
          run'[c] = [at |-> "bucket", obj |-> o, delta |-> Elapsed(ts, clock)]
  BY MeasureFacts
<1>a. PICK clock \in run[c].since..now :
          run'[c] = [at |-> "bucket", obj |-> o, delta |-> Elapsed(start[o], clock)]
  BY <1>1, <1>b
<1>3. /\ now \in Nat /\ clock \in Nat /\ start[o] \in Nat
      /\ start[o] <= clock /\ clock <= now /\ start[o] = stamped[o]
  BY <1>a, RunFields, BoundsAssumption
  DEF ProbeTypeOK, EntriesAreLatest, PointerValid, Measure, Times
<1>4. Elapsed(start[o], clock) <= now - stamped[o]
  BY <1>3 DEF Elapsed
<1> QED
  BY <1>2, <1>a, <1>4 DEF Running

LEMMA MeasureStep ==
    ASSUME ProbeInv, NEW c \in Cpus, Measure(c)
    PROVE  ProbeInv'
<1> USE DEF ProbeInv, EntriesInv
<1> DEFINE o == run[c].obj
<1>1. PICK rec : /\ rec.at = "bucket" /\ rec.obj = o /\ rec # Idle
                 /\ \A d \in Cpus : run'[d] = IF d = c THEN rec ELSE run[d]
  BY MeasureFacts
<1>2. PointerValid(c) /\ o \in Objects /\ o \in DOMAIN start /\ run[c] # Idle
  BY RunFields DEF PointersValid, PointerValid, Measure, Running
<1>3. EntriesInv'
  BY EntriesMeasure
<1>4. ProbedOnce'
  BY <1>1, <1>2 DEF ProbedOnce
<1>5. PointersValid'
  BY <1>1 DEF PointersValid, PointerValid, Running, Measure, MeasureFrom
<1>6. FreshTimestamps'
  <2>1. (run[c].delta <= now - stamped[run[c].obj])'
    BY <1>2, MeasuredIsFresh
  <2> QED
    BY <1>1, <2>1 DEF FreshTimestamps, Running, Measure, MeasureFrom
<1>7. o \in unsampled
  <2>1. \A d \in Cpus : run[d].at \in {"sum", "forget"} => run[d].obj # o
    BY <1>2, RunFields DEF ProbedOnce, Running, Measure
  <2> QED
    BY <1>2, <2>1 DEF SampledEntriesGo
<1>8. SampledOnce'
  BY <1>1, <1>7 DEF SampledOnce, Running, Measure, MeasureFrom
<1> QED
  BY <1>3, <1>4, <1>5, <1>6, <1>8

\* The object is no longer unsampled, and its entry goes before any other CPU
\* may look it up.
LEMMA BucketStep ==
    ASSUME ProbeInv, NEW c \in Cpus, Running(c, "bucket"),
           NEW key, key[1] \in Labels, Increment(key, 1),
           run' = [run EXCEPT ![c].at = "sum"], unsampled' = unsampled \ {run[c].obj},
           UNCHANGED <<now, start, stamped, starts>>
    PROVE  ProbeInv'
<1> USE DEF ProbeInv, EntriesInv
<1>1. /\ \A d \in Cpus : d # c => run'[d] = run[d]
      /\ run'[c].at = "sum" /\ run'[c].obj = run[c].obj
      /\ run[c] # Idle /\ run'[c] # Idle
  BY AdvanceFacts DEF Running
<1>2. EntriesInv'
  BY EntriesBucket
<1>3. ProbedOnce'
  BY <1>1 DEF ProbedOnce
<1>4. PointersValid' /\ FreshTimestamps'
  BY <1>1 DEF PointersValid, PointerValid, FreshTimestamps, Running
<1>5. SampledOnce'
  <2>1. \A d \in Cpus : d # c /\ Running(d, "bucket") => run[d].obj # run[c].obj
    BY <1>1, RunFields DEF ProbedOnce, Running
  <2> QED
    BY <1>1, <2>1 DEF SampledOnce, Running
<1> QED
  BY <1>2, <1>3, <1>4, <1>5

LEMMA SumStep ==
    ASSUME ProbeInv, NEW c \in Cpus, Running(c, "sum"),
           NEW key, key[1] \in Labels, Increment(key, run[c].delta),
           run' = [run EXCEPT ![c].at = "forget"],
           UNCHANGED <<now, start, stamped, unsampled, starts>>
    PROVE  ProbeInv'
<1> USE DEF ProbeInv, EntriesInv
<1>1. /\ \A d \in Cpus : d # c => run'[d] = run[d]
      /\ run'[c].at = "forget" /\ run'[c].obj = run[c].obj
      /\ run[c] # Idle /\ run'[c] # Idle
  BY AdvanceFacts DEF Running
<1>2. EntriesInv'
  BY EntriesSum
<1>3. ProbedOnce'
  BY <1>1 DEF ProbedOnce
<1>4. PointersValid' /\ FreshTimestamps' /\ SampledOnce'
  BY <1>1 DEF PointersValid, PointerValid, FreshTimestamps, SampledOnce, Running
<1> QED
  BY <1>2, <1>3, <1>4

LEMMA ForgetStep ==
    ASSUME ProbeInv, NEW c \in Cpus, Forget(c)
    PROVE  ProbeInv'
<1> USE DEF ProbeInv, EntriesInv
<1>1. \A d \in Cpus : run'[d] = IF d = c THEN Idle ELSE run[d]
  BY ForgetFacts
<1>2. EntriesInv'
  BY EntriesForget
<1>3. ProbedOnce'
  BY <1>1 DEF ProbedOnce
<1>4. \A d \in Cpus : d # c /\ run[d] # Idle => run[d].obj # run[c].obj
  BY RunFields DEF ProbedOnce, Running, Forget
<1>5. PointersValid'
  <2>1. /\ DOMAIN start' = DOMAIN start \ {run[c].obj}
        /\ \A x \in DOMAIN start' : start'[x] = start[x]
        /\ now' = now
    BY ForgetFacts DEF Forget
  <2> SUFFICES ASSUME NEW d \in Cpus, Running(d, "read")' PROVE PointerValid(d)'
    BY DEF PointersValid
  <2>2. d # c /\ run'[d] = run[d] /\ Running(d, "read")
    BY <1>1 DEF Running, Idle
  <2>3. PointerValid(d) /\ run[d].obj # run[c].obj
    BY <1>4, <2>2, RunFields DEF PointersValid, Running
  <2> QED
    BY <2>1, <2>2, <2>3 DEF PointerValid
<1>6. FreshTimestamps' /\ SampledOnce'
  BY <1>1 DEF FreshTimestamps, SampledOnce, Running, Idle, Forget
<1> QED
  BY <1>2, <1>3, <1>5, <1>6

-----------------------------------------------------------------------------
\* Objects that are in the second probe on one CPU at a time, while the first
\* probe may run for them on others.
LEMMA ProbeInvIsOnce == ProbeInv => OnceInv
<1> SUFFICES ASSUME ProbeInv, NEW c \in Cpus, run[c].at \in {"read", "bucket"}
             PROVE  run[c].obj \in unsampled
  BY DEF ProbeInv, EntriesInv, OnceInv, UnsampledRuns
<1> USE DEF ProbeInv, EntriesInv
<1>1. CASE Running(c, "bucket")
  BY <1>1 DEF SampledOnce
<1>2. CASE Running(c, "read")
  <2>1. run[c].obj \in DOMAIN start /\ run[c] # Idle
    BY <1>2, RunFields DEF PointersValid, PointerValid, Running
  <2>2. \A d \in Cpus : run[d].at \in {"sum", "forget"} => run[d].obj # run[c].obj
    BY <1>2, <2>1, RunFields DEF ProbedOnce, Running
  <2> QED
    BY <2>1, <2>2 DEF SampledEntriesGo
<1> QED
  BY <1>1, <1>2 DEF Running

LEMMA OnceStutter ==
    ASSUME OnceInv, UNCHANGED <<now, start, hist, wrapped, run, unsampled>>,
           stamped' \in [Objects -> 0..now], starts' \in 0..MaxStarts
    PROVE  OnceInv'
  BY DEF OnceInv, ProbeTypeOK, SampledEntriesGo, ProbedOnce, UnsampledRuns

LEMMA OnceTick ==
    ASSUME OnceInv, Tick
    PROVE  OnceInv'
  BY RunsTick DEF OnceInv, ProbedOnce, UnsampledRuns, Tick

\* A start that is recorded meanwhile only adds to what is unsampled.
LEMMA OnceStore ==
    ASSUME OnceInv, NEW o \in Objects, NEW ts \in 0..now,
           start' = UpdateAny(start, o, ts, StartCapacity),
           unsampled' = unsampled \cup {o}, UNCHANGED <<now, hist, wrapped, run>>,
           stamped' \in [Objects -> 0..now], starts' \in 0..MaxStarts
    PROVE  OnceInv'
<1>1. ProbeTypeOK' /\ SampledEntriesGo'
  BY RunsStore DEF OnceInv
<1> QED
  BY <1>1 DEF OnceInv, ProbedOnce, UnsampledRuns

\* What a lookup finds has not been counted: a run that has counted it would
\* still be in the second probe.
LEMMA OnceLookup ==
    ASSUME OnceInv, NEW c \in Cpus, NEW o \in Objects, LookupStart(c, o), Probing(o) = {}
    PROVE  OnceInv'
<1> USE DEF OnceInv
<1>1. ProbeTypeOK' /\ SampledEntriesGo'
  BY RunsLookup
<1>2. CASE o \in DOMAIN start
  <2> DEFINE rec == [at |-> "read", obj |-> o, ts |-> start[o], since |-> now]
  <2>1. rec # Idle /\ \A d \in Cpus : run'[d] = IF d = c THEN rec ELSE run[d]
    BY <1>2, LookupFacts
  <2>2. \A d \in Cpus : run[d] # Idle => run[d].obj # o
    BY DEF Probing
  <2>3. ProbedOnce'
    BY <2>1, <2>2 DEF ProbedOnce
  <2>4. o \in unsampled
    BY <1>2, <2>2, RunFields DEF SampledEntriesGo
  <2>5. UnsampledRuns'
    BY <2>1, <2>4 DEF UnsampledRuns, LookupStart
  <2> QED
    BY <1>1, <2>3, <2>5
<1>3. CASE o \notin DOMAIN start
  BY <1>1, <1>3 DEF ProbedOnce, UnsampledRuns, LookupStart
<1> QED
  BY <1>2, <1>3

LEMMA OnceMeasure ==
    ASSUME OnceInv, NEW c \in Cpus, Running(c, "read"), NEW ts \in Times,
           NEW clock \in Times, MeasureFrom(c, ts, clock)
    PROVE  OnceInv'
<1> USE DEF OnceInv
<1>1. PICK rec : /\ rec.at = "bucket" /\ rec.obj = run[c].obj /\ rec # Idle
                 /\ \A d \in Cpus : run'[d] = IF d = c THEN rec ELSE run[d]
  BY MeasureFromFacts
<1>2. ProbeTypeOK' /\ SampledEntriesGo'
  BY RunsMeasure
<1>3. run[c] # Idle
  BY RunFields DEF Running
<1>4. ProbedOnce'
  BY <1>1, <1>3 DEF ProbedOnce
<1>5. UnsampledRuns'
  BY <1>1 DEF UnsampledRuns, Running, MeasureFrom
<1> QED
  BY <1>2, <1>4, <1>5

LEMMA OnceBucket ==
    ASSUME OnceInv, NEW c \in Cpus, Running(c, "bucket"),
           NEW key, key[1] \in Labels, Increment(key, 1),
           run' = [run EXCEPT ![c].at = "sum"], unsampled' = unsampled \ {run[c].obj},
           UNCHANGED <<now, start, stamped, starts>>
    PROVE  OnceInv'
<1> USE DEF OnceInv
<1>1. /\ \A d \in Cpus : d # c => run'[d] = run[d]
      /\ run'[c].at = "sum" /\ run'[c].obj = run[c].obj
      /\ run[c] # Idle /\ run'[c] # Idle
  BY AdvanceFacts DEF Running
<1>2. ProbeTypeOK' /\ SampledEntriesGo'
  BY RunsBucket
<1>3. ProbedOnce'
  BY <1>1 DEF ProbedOnce
<1>4. UnsampledRuns'
  <2>1. \A d \in Cpus : d # c /\ run[d].at \in {"read", "bucket"} => run[d].obj # run[c].obj
    BY <1>1, RunFields DEF ProbedOnce
  <2> QED
    BY <1>1, <2>1 DEF UnsampledRuns
<1> QED
  BY <1>2, <1>3, <1>4

LEMMA OnceSum ==
    ASSUME OnceInv, NEW c \in Cpus, Running(c, "sum"),
           NEW key, key[1] \in Labels, Increment(key, run[c].delta),
           run' = [run EXCEPT ![c].at = "forget"],
           UNCHANGED <<now, start, stamped, unsampled, starts>>
    PROVE  OnceInv'
<1> USE DEF OnceInv
<1>1. /\ \A d \in Cpus : d # c => run'[d] = run[d]
      /\ run'[c].at = "forget" /\ run'[c].obj = run[c].obj
      /\ run[c] # Idle /\ run'[c] # Idle
  BY AdvanceFacts DEF Running
<1>2. ProbeTypeOK' /\ SampledEntriesGo'
  BY RunsSum
<1>3. ProbedOnce' /\ UnsampledRuns'
  BY <1>1 DEF ProbedOnce, UnsampledRuns
<1> QED
  BY <1>2, <1>3

LEMMA OnceForget ==
    ASSUME OnceInv, NEW c \in Cpus, Forget(c)
    PROVE  OnceInv'
<1> USE DEF OnceInv
<1>1. \A d \in Cpus : run'[d] = IF d = c THEN Idle ELSE run[d]
  BY ForgetFacts
<1>2. ProbeTypeOK' /\ SampledEntriesGo'
  BY RunsForget
<1>3. ProbedOnce' /\ UnsampledRuns'
  BY <1>1 DEF ProbedOnce, UnsampledRuns, Idle, Forget
<1> QED
  BY <1>2, <1>3

-----------------------------------------------------------------------------
\* Buckets and sums.  A latency falls in one of the slots below the sum slot,
\* whose values are not below the lower bound of the slot.
LEMMA CapSlotType ==
    ASSUME NEW v \in Nat
    PROVE  CapSlot(v) \in 0..MaxSlot
  BY Log2Type, BoundsAssumption DEF CapSlot

LEMMA LowerBoundFacts ==
    ASSUME MaxSlot <= 27
    PROVE  /\ \A s \in 0..MaxSlot : LowerBound(s) \in Nat
           /\ \A v \in Nat : LowerBound(CapSlot(v)) <= v
<1>1. ASSUME NEW s \in 0..MaxSlot PROVE LowerBound(s) \in Nat
  <2>1. s # 0 => s \in 1..27
    BY BoundsAssumption
  <2> QED
    BY <2>1, Powers DEF LowerBound
<1>2. ASSUME NEW v \in Nat PROVE LowerBound(CapSlot(v)) <= v
  <2> DEFINE s == CapSlot(v)
  <2>1. s \in 0..MaxSlot
    BY CapSlotType
  <2>2. CASE s = 0
    BY <2>2 DEF LowerBound
  <2>3. CASE s # 0
    <3>1. s \in 1..27
      BY <2>1, <2>3, BoundsAssumption
    <3>2. Log2OfU64(v) \in Nat
      BY Log2Type
    <3>3. s <= Log2OfU64(v)
      BY <3>2, BoundsAssumption DEF CapSlot
    <3> QED
      BY <2>3, <3>1, <3>3, Powers DEF LowerBound
  <2> QED
    BY <2>2, <2>3
<1> QED
  BY <1>1, <1>2

\* What the buckets account for, after a latency more in one of them.
LEMMA AccountedBucket ==
    ASSUME MaxSlot <= 27, NEW map, \A k \in DOMAIN map : map[k] \in Nat,
           NEW l, NEW label, NEW slot \in 0..MaxSlot, NEW new,
           new = Put(map, <<label, slot>>, ValueAt(map, <<label, slot>>) + 1)
    PROVE  /\ AccountedFor(map, l) \in Nat
           /\ AccountedFor(new, l)
                = AccountedFor(map, l) + (IF l = label THEN LowerBound(slot) ELSE 0)
<1> DEFINE S == 0..MaxSlot
           f == [s \in S |-> LowerBound(s) * ValueAt(map, <<l, s>>)]
           g == [s \in S |-> LowerBound(s) * ValueAt(new, <<l, s>>)]
<1>1. IsFiniteSet(S)
  BY FS_Interval, BoundsAssumption
<1>2. \A s \in S : LowerBound(s) \in Nat
  BY LowerBoundFacts
<1>3. \A s \in S : ValueAt(map, <<l, s>>) \in Nat
  BY DEF ValueAt
<1>4. \A s \in S : ValueAt(new, <<l, s>>)
                     = ValueAt(map, <<l, s>>) + (IF l = label /\ s = slot THEN 1 ELSE 0)
  BY <1>3 DEF ValueAt, Put
<1>5. \A s \in S : f[s] \in Nat /\ g[s] \in Nat
  BY <1>2, <1>3, <1>4
<1>6. /\ AccountedFor(map, l) = SumFunctionOnSet(f, S)
      /\ AccountedFor(new, l) = SumFunctionOnSet(g, S)
  BY DEF AccountedFor, SumFunction
<1>7. SumFunctionOnSet(f, S) \in Nat
  <2> HIDE DEF S, f
  <2> QED
    BY <1>1, <1>5, SumNat
<1>8. CASE l = label
  <2>1. /\ g[slot] = f[slot] + LowerBound(slot)
        /\ f[slot] \in Nat /\ LowerBound(slot) \in Nat
    BY <1>2, <1>3, <1>4, <1>5, <1>8
  <2>2. /\ \A s \in S \ {slot} : g[s] = f[s]
        /\ \A s \in S : f[s] \in Int /\ g[s] \in Int
    BY <1>3, <1>4, <1>5
  <2>3. slot \in S
    OBVIOUS
  <2> HIDE DEF S, f, g
  <2>4. ASSUME NEW e \in S, \A s \in S \ {e} : g[s] = f[s]
        PROVE  SumFunctionOnSet(g, S) = SumFunctionOnSet(f, S) - f[e] + g[e]
    BY <1>1, <2>2, <2>4, SumUpdate
  <2>5. SumFunctionOnSet(g, S) = SumFunctionOnSet(f, S) - f[slot] + g[slot]
    BY <2>2, <2>3, <2>4
  <2> QED
    BY <1>6, <1>7, <1>8, <2>1, <2>5
<1>9. CASE l # label
  <2>1. \A s \in S : f[s] \in Int /\ g[s] = f[s]
    BY <1>3, <1>4, <1>5, <1>9
  <2> HIDE DEF S, f, g
  <2>2. SumFunctionOnSet(g, S) = SumFunctionOnSet(f, S)
    BY <1>1, <2>1, SumSame
  <2> QED
    BY <1>6, <1>7, <1>9, <2>2
<1> QED
  BY <1>8, <1>9

LEMMA CoveredEmpty ==
    ASSUME MaxSlot <= 27, NEW l, NEW between \in Nat
    PROVE  Covered(EmptyMap, l, between)
<1> DEFINE S == 0..MaxSlot
           f == [s \in S |-> LowerBound(s) * ValueAt(EmptyMap, <<l, s>>)]
<1>1. IsFiniteSet(S)
  BY FS_Interval, BoundsAssumption
<1>2. \A x : ValueAt(EmptyMap, x) = 0
  BY DEF ValueAt, EmptyMap
<1>3. \A s \in S : f[s] = 0
  BY <1>2, LowerBoundFacts
<1>4. SumFunctionOnSet(f, S) = 0
  <2> HIDE DEF S, f
  <2> QED
    BY <1>1, <1>3, SumZero
<1>5. AccountedFor(EmptyMap, l) = 0
  BY <1>4 DEF AccountedFor, SumFunction
<1> QED
  BY <1>2, <1>5 DEF Covered

\* The sum slot is none of the buckets.
LEMMA AccountedSum ==
    ASSUME NEW map, NEW l, NEW label, NEW v, NEW new, new = Put(map, <<label, SumSlot>>, v)
    PROVE  AccountedFor(new, l) = AccountedFor(map, l)
<1>1. \A s \in 0..MaxSlot : ValueAt(new, <<l, s>>) = ValueAt(map, <<l, s>>)
  BY BoundsAssumption DEF ValueAt, Put, SumSlot
<1> QED
  BY <1>1 DEF AccountedFor

\* A map that has room for a key more had room before.
LEMMA RoomBefore ==
    ASSUME NEW map, IsFiniteSet(DOMAIN map), NEW key, NEW v
    PROVE  \A n \in Nat : Cardinality(DOMAIN Put(map, key, v)) < n
                             => Cardinality(DOMAIN map) < n
<1> DEFINE S == DOMAIN map
           T == DOMAIN Put(map, key, v)
<1>1. T = S \cup {key}
  BY DEF Put
<1>2. IsFiniteSet(T) /\ S \in SUBSET T
  BY <1>1, FS_AddElement
<1> HIDE DEF S, T
<1>3. Cardinality(S) <= Cardinality(T) /\ IsFiniteSet(S)
  BY <1>2, FS_Subset
<1>4. Cardinality(S) \in Nat /\ Cardinality(T) \in Nat
  BY <1>2, <1>3, FS_CardinalityType
<1>5. \A n \in Nat : Cardinality(T) < n => Cardinality(S) < n
  BY <1>3, <1>4
<1> QED
  BY <1>5 DEF S, T

\* A latency is counted in its bucket and now waits for the sum slot.
LEMMA CoveredBucket ==
    ASSUME MaxSlot <= 27, NEW map, \A k \in DOMAIN map : map[k] \in Nat,
           IsFiniteSet(DOMAIN map), NEW l, NEW label, NEW delta \in Nat,
           NEW between \in Nat, Covered(map, l, between),
           NEW key, key = <<label, CapSlot(delta)>>,
           NEW new, new = IF HasRoom(map, key, HistCapacity)
                          THEN Put(map, key, ValueAt(map, key) + 1) ELSE map
    PROVE  Covered(new, l, IF l = label THEN between + delta ELSE between)
<1> DEFINE sum == <<l, SumSlot>>
           after == IF l = label THEN between + delta ELSE between
<1>1. CapSlot(delta) \in 0..MaxSlot /\ LowerBound(CapSlot(delta)) <= delta
  BY CapSlotType, LowerBoundFacts
<1>2. LowerBound(CapSlot(delta)) \in Nat /\ HistCapacity \in Nat
  BY <1>1, LowerBoundFacts, CapacitiesAssumption
<1>3. ValueAt(map, sum) \in Nat
  BY DEF ValueAt
<1>4. AccountedFor(map, l) \in Nat
  <2>1. AccountedFor(map, l) \in Nat
    <3> DEFINE some == Put(map, <<label, 0>>, ValueAt(map, <<label, 0>>) + 1)
    <3>1. 0 \in 0..MaxSlot
      BY BoundsAssumption
    <3> QED
      BY <3>1, AccountedBucket
  <2> QED
    BY <2>1
<1>5. CASE HasRoom(map, key, HistCapacity)
  <2>1. new = Put(map, key, ValueAt(map, key) + 1)
    BY <1>5
  <2>2. sum # key
    BY <1>1, BoundsAssumption DEF SumSlot
  <2>3. /\ sum \in DOMAIN new <=> sum \in DOMAIN map
        /\ ValueAt(new, sum) = ValueAt(map, sum)
    BY <2>1, <2>2 DEF Put, ValueAt
  <2>4. Cardinality(DOMAIN new) < HistCapacity => Cardinality(DOMAIN map) < HistCapacity
    BY <1>2, <2>1, RoomBefore
  <2>5. AccountedFor(new, l)
          = AccountedFor(map, l) + (IF l = label THEN LowerBound(CapSlot(delta)) ELSE 0)
    BY <1>1, <2>1, AccountedBucket
  <2>6. SUFFICES ASSUME AccountedFor(map, l) <= ValueAt(map, sum) + between
                 PROVE  AccountedFor(new, l) <= ValueAt(new, sum) + after
    BY <2>3, <2>4 DEF Covered
  <2> QED
    BY <1>1, <1>2, <1>3, <1>4, <2>3, <2>5, <2>6
<1>6. CASE ~HasRoom(map, key, HistCapacity)
  <2>1. new = map
    BY <1>6
  <2>2. SUFFICES ASSUME AccountedFor(map, l) <= ValueAt(map, sum) + between
                 PROVE  AccountedFor(map, l) <= ValueAt(map, sum) + after
    BY <2>1 DEF Covered
  <2> QED
    BY <1>3, <1>4, <2>2
<1> QED
  BY <1>5, <1>6

\* A latency that waited is added to the sum slot, if there is one or room for
\* one.  If not, there never is.
LEMMA CoveredSum ==
    ASSUME MaxSlot <= 27, NEW map, \A k \in DOMAIN map : map[k] \in Nat,
           IsFiniteSet(DOMAIN map), NEW l, NEW label, NEW delta \in Nat,
           NEW after \in Nat,
           Covered(map, l, IF l = label THEN after + delta ELSE after),
           NEW key, key = <<label, SumSlot>>,
           NEW new, new = IF HasRoom(map, key, HistCapacity)
                          THEN Put(map, key, ValueAt(map, key) + delta) ELSE map
    PROVE  Covered(new, l, after)
<1> DEFINE sum == <<l, SumSlot>>
<1>1. ValueAt(map, sum) \in Nat /\ HistCapacity \in Nat
  BY CapacitiesAssumption DEF ValueAt
<1>2. CASE HasRoom(map, key, HistCapacity)
  <2>1. new = Put(map, key, ValueAt(map, key) + delta)
    BY <1>2
  <2>2. AccountedFor(new, l) = AccountedFor(map, l)
    BY <2>1, AccountedSum
  <2>3. CASE l = label
    <3>1. AccountedFor(map, l) <= ValueAt(map, sum) + (after + delta)
      BY <1>2, <2>3 DEF Covered, HasRoom
    <3>2. ValueAt(new, sum) = ValueAt(map, sum) + delta
      BY <2>1, <2>3 DEF ValueAt, Put
    <3>3. AccountedFor(map, l) <= ValueAt(new, sum) + after
      <4>1. ValueAt(map, sum) + (after + delta) = (ValueAt(map, sum) + delta) + after
        BY <1>1
      <4> QED
        BY <3>1, <3>2, <4>1
    <3> QED
      BY <2>2, <3>3 DEF Covered
  <2>4. CASE l # label
    <3>1. /\ sum \in DOMAIN new <=> sum \in DOMAIN map
          /\ ValueAt(new, sum) = ValueAt(map, sum)
      BY <2>1, <2>4 DEF Put, ValueAt
    <3>2. Cardinality(DOMAIN new) < HistCapacity => Cardinality(DOMAIN map) < HistCapacity
      BY <1>1, <2>1, RoomBefore
    <3> QED
      BY <2>2, <2>4, <3>1, <3>2 DEF Covered
  <2> QED
    BY <2>3, <2>4
<1>3. CASE ~HasRoom(map, key, HistCapacity)
  BY <1>3 DEF Covered, HasRoom
<1> QED
  BY <1>2, <1>3

\* The latencies that wait for the sum slot, after a run has gone on.
LEMMA DeltasType ==
    ASSUME ProbeTypeOK, NEW cs \in SUBSET Cpus, \A d \in cs : Running(d, "sum")
    PROVE  DeltasOf(cs) \in Nat
<1> DEFINE f == [d \in cs |-> run[d].delta]
<1>1. IsFiniteSet(cs) /\ \A d \in cs : f[d] \in Nat
  BY CpusAssumption, FS_Subset, RunFields DEF Running
<1>2. SumFunctionOnSet(f, cs) \in Nat
  <2> HIDE DEF f
  <2> QED
    BY <1>1, SumNat
<1> QED
  BY <1>2 DEF DeltasOf, SumFunction

LEMMA DeltasAdvance ==
    ASSUME ProbeTypeOK, NEW c \in Cpus, NEW at \in {"sum", "forget"},
           run[c].at \in {"bucket", "sum"}, run' = [run EXCEPT ![c].at = at],
           NEW cs \in SUBSET Cpus, c \notin cs, \A d \in cs : Running(d, "sum")
    PROVE  /\ SumFunction([d \in cs |-> run'[d].delta]) = DeltasOf(cs)
           /\ SumFunction([d \in cs \cup {c} |-> run'[d].delta])
                = DeltasOf(cs) + run[c].delta
           /\ SumFunction([d \in cs \cup {c} |-> run[d].delta])
                = DeltasOf(cs) + run[c].delta
<1> DEFINE f == [d \in cs |-> run[d].delta]
           g == [d \in cs \cup {c} |-> run[d].delta]
<1>1. \A d \in cs \cup {c} : run'[d].delta = run[d].delta
  BY AdvanceFacts
<1>2. /\ [d \in cs |-> run'[d].delta] = f
      /\ [d \in cs \cup {c} |-> run'[d].delta] = g
  BY <1>1
<1>3. /\ IsFiniteSet(cs) /\ DOMAIN f = cs /\ DOMAIN g = cs \cup {c}
      /\ g[c] = run[c].delta /\ \A d \in cs : g[d] = f[d]
  BY CpusAssumption, FS_Subset
<1>4. \A d \in cs \cup {c} : g[d] \in Int
  BY RunFields DEF Running
<1>5. SumFunction(g) = SumFunction(f) + g[c]
  <2> HIDE DEF f, g
  <2> QED
    BY <1>3, <1>4, SumExtend
<1> QED
  BY <1>2, <1>3, <1>5 DEF DeltasOf

\* A counter of another label changes, in whatever way.
LEMMA CoveredOther ==
    ASSUME NEW map, IsFiniteSet(DOMAIN map), NEW l, NEW label, l # label, NEW slot, NEW v,
           NEW between, Covered(map, l, between),
           NEW key, key = <<label, slot>>,
           NEW new, new = IF HasRoom(map, key, HistCapacity) THEN Put(map, key, v) ELSE map
    PROVE  Covered(new, l, between)
<1>1. CASE HasRoom(map, key, HistCapacity)
  <2>1. new = Put(map, key, v)
    BY <1>1
  <2>2. \A s : /\ <<l, s>> \in DOMAIN new <=> <<l, s>> \in DOMAIN map
               /\ ValueAt(new, <<l, s>>) = ValueAt(map, <<l, s>>)
    BY <2>1 DEF Put, ValueAt
  <2>3. AccountedFor(new, l) = AccountedFor(map, l)
    BY <2>2 DEF AccountedFor
  <2>4. Cardinality(DOMAIN new) < HistCapacity => Cardinality(DOMAIN map) < HistCapacity
    BY <2>1, RoomBefore, CapacitiesAssumption
  <2> QED
    BY <2>2, <2>3, <2>4 DEF Covered
<1>2. CASE ~HasRoom(map, key, HistCapacity)
  BY <1>2
<1> QED
  BY <1>1, <1>2

\* The increment of a bucket and that of a sum slot keep every label covered
\* whose counters stay within a u64, whichever CPUs wait for the sum slot of
\* which label.
LEMMA CountBucketCovers ==
    ASSUME ProbeTypeOK, MaxSlot <= 27, NEW c \in Cpus, NEW label, CountBucket(c, label),
           NEW l, l \notin wrapped', NEW cs \in SUBSET Cpus, \A d \in cs : Running(d, "sum"),
           Covered(hist, l, DeltasOf(cs)),
           NEW after, after = IF l = label THEN cs \cup {c} ELSE cs
    PROVE  Covered(hist', l, SumFunction([d \in after |-> run'[d].delta]))
<1> DEFINE delta == run[c].delta
           key == <<label, CapSlot(delta)>>
<1>1. delta \in Nat /\ DeltasOf(cs) \in Nat
  BY RunFields, DeltasType DEF CountBucket, Running
<1>2. run' = [run EXCEPT ![c].at = "sum"] /\ Increment(key, 1)
  BY DEF CountBucket
<1>3. Covered(hist', l, IF l = label THEN DeltasOf(cs) + delta ELSE DeltasOf(cs))
  <2>1. IsFiniteSet(DOMAIN hist) /\ \A k \in DOMAIN hist : hist[k] \in Nat
    BY WordFacts DEF ProbeTypeOK, Words
  <2>2. CASE l = label
    <3>1. hist' = IF HasRoom(hist, key, HistCapacity)
                  THEN Put(hist, key, ValueAt(hist, key) + 1) ELSE hist
      BY <1>2, <2>2, IncrementExact
    <3> HIDE DEF delta
    <3> QED
      BY <1>1, <2>1, <3>1, CoveredBucket
  <2>3. CASE l # label
    <3>1. \E v : hist' = IF HasRoom(hist, key, HistCapacity) THEN Put(hist, key, v) ELSE hist
      BY <1>2 DEF Increment
    <3> HIDE DEF delta
    <3> QED
      BY <2>1, <2>3, <3>1, CoveredOther
  <2> QED
    BY <2>2, <2>3
<1>4. c \notin cs
  BY DEF CountBucket, Running
<1>5. /\ SumFunction([d \in cs |-> run'[d].delta]) = DeltasOf(cs)
      /\ SumFunction([d \in cs \cup {c} |-> run'[d].delta]) = DeltasOf(cs) + delta
  BY <1>2, <1>4, DeltasAdvance DEF CountBucket, Running
<1> QED
  BY <1>3, <1>5

LEMMA CountSumCovers ==
    ASSUME ProbeTypeOK, MaxSlot <= 27, NEW c \in Cpus, NEW label, CountSum(c, label),
           NEW l, l \notin wrapped',
           NEW cs \in SUBSET (Cpus \ {c}), \A d \in cs : Running(d, "sum"),
           NEW before, before = IF l = label THEN cs \cup {c} ELSE cs,
           Covered(hist, l, DeltasOf(before))
    PROVE  Covered(hist', l, SumFunction([d \in cs |-> run'[d].delta]))
<1> DEFINE delta == run[c].delta
           key == <<label, SumSlot>>
<1>1. delta \in Nat /\ DeltasOf(cs) \in Nat
  BY RunFields, DeltasType DEF CountSum, Running
<1>2. run' = [run EXCEPT ![c].at = "forget"] /\ Increment(key, delta)
  BY DEF CountSum
<1>3. /\ SumFunction([d \in cs |-> run'[d].delta]) = DeltasOf(cs)
      /\ SumFunction([d \in cs \cup {c} |-> run[d].delta]) = DeltasOf(cs) + delta
  BY <1>2, DeltasAdvance DEF CountSum, Running
<1>4. DeltasOf(before) = IF l = label THEN DeltasOf(cs) + delta ELSE DeltasOf(cs)
  BY <1>3 DEF DeltasOf
<1>5. IsFiniteSet(DOMAIN hist) /\ \A k \in DOMAIN hist : hist[k] \in Nat
  BY WordFacts DEF ProbeTypeOK, Words
<1>6. Covered(hist, l, IF l = label THEN DeltasOf(cs) + delta ELSE DeltasOf(cs))
  BY <1>4
<1>7. Covered(hist', l, DeltasOf(cs))
  <2>1. CASE l = label
    <3>1. hist' = IF HasRoom(hist, key, HistCapacity)
                  THEN Put(hist, key, ValueAt(hist, key) + delta) ELSE hist
      BY <1>1, <1>2, <2>1, IncrementExact
    <3> HIDE DEF delta
    <3> QED
      BY <1>1, <1>5, <1>6, <3>1, CoveredSum
  <2>2. CASE l # label
    <3>1. \E v : hist' = IF HasRoom(hist, key, HistCapacity) THEN Put(hist, key, v) ELSE hist
      BY <1>2 DEF Increment
    <3> HIDE DEF delta
    <3> QED
      BY <1>5, <1>6, <2>2, <3>1, CoveredOther
  <2> QED
    BY <2>1, <2>2
<1> QED
  BY <1>3, <1>7

\* The other steps of the probe leave alone what waits for the sum slot.
LEMMA OthersWait ==
    ASSUME ProbeTypeOK, NEW c \in Cpus, NEW o, LookupStart(c, o) \/ Measure(c) \/ Forget(c)
    PROVE  /\ hist' = hist /\ wrapped' = wrapped
           /\ \A d \in Cpus : Running(d, "sum") \/ Running(d, "sum")' => run'[d] = run[d]
<1>1. CASE LookupStart(c, o) /\ o \in DOMAIN start
  BY <1>1, LookupFacts DEF LookupStart, Running, Idle
<1>2. CASE LookupStart(c, o) /\ o \notin DOMAIN start
  BY <1>2 DEF LookupStart
<1>3. CASE Measure(c)
  <2>1. PICK rec : /\ rec.at = "bucket"
                   /\ \A d \in Cpus : run'[d] = IF d = c THEN rec ELSE run[d]
    BY <1>3, MeasureFacts
  <2> QED
    BY <1>3, <2>1 DEF Measure, MeasureFrom, Running
<1>4. CASE Forget(c)
  BY <1>4, ForgetFacts DEF Forget, Running, Idle
<1> QED
  BY <1>1, <1>2, <1>3, <1>4

=============================================================================
