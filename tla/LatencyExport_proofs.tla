------------------------ MODULE LatencyExport_proofs ------------------------
(***************************************************************************)
(* Proofs about CallLatency and HistogramExport, for any CPUs, objects,    *)
(* values, series and sizes of the maps.                                   *)
(*                                                                         *)
(* CallLatency: its type invariant, that a latency is measured from the    *)
(* last start of its object by the programs that have one at a time, that  *)
(* none is counted twice and that shrinklat exports every one it has       *)
(* measured.  Those programs keep ProbeInv, and tcp-connection-consumption *)
(* OnceInv.  The array of shrinklat keeps its elements and gets no other.  *)
(*                                                                         *)
(* HistogramExport: that the exported histogram is complete, and that its  *)
(* buckets stand for ranges of values.  A bucket of the map is a sum over  *)
(* the values that fall in it, and the buckets up to one are disjoint      *)
(* parts of the values up to a bound.                                      *)
(***************************************************************************)
EXTENDS CallLatency, HistogramExport, LatencyProbe_proofs

\* An array with one element for each slot is as full as a map may be.
LEMMA ArrayFacts ==
    /\ IsFiniteSet(DOMAIN Array)
    /\ Cardinality(DOMAIN Array) = HistCapacity
    /\ \A k \in DOMAIN Array : Array[k] = 0
<1> DEFINE Slots == 0..MaxSlot
           f == [slot \in Slots |-> <<Net, slot>>]
<1>1. IsFiniteSet(Slots) /\ Cardinality(Slots) = MaxSlot + 1
  BY FS_Interval, BoundsAssumption
<1>2. DOMAIN Array = {<<Net, slot>> : slot \in Slots}
  BY DEF Array
<1>3. f \in Bijection(Slots, DOMAIN Array)
  BY <1>2 DEF Bijection, Injection, Surjection, IsInjective
<1>4. ExistsBijection(Slots, DOMAIN Array)
  BY <1>3 DEF ExistsBijection
<1>5. IsFiniteSet(DOMAIN Array) /\ Cardinality(DOMAIN Array) = Cardinality(Slots)
  BY <1>1, <1>4, FS_Bijection
<1> QED
  BY <1>1, <1>5, ArrayAssumption DEF Array

\* What the exporter reads in a map that has the array's elements.
LEMMA ArrayBuckets ==
    ASSUME NEW array, DOMAIN array = DOMAIN Array
    PROVE  /\ Series(array) = {Net}
           /\ BucketsOf(array, Net) = [b \in 0..MaxSlot |-> array[<<Net, b>>]]
           /\ UpTo(BucketsOf(array, Net), 0, MaxSlot)
                = SumFunctionOnSet([b \in 0..MaxSlot |-> array[<<Net, b>>]], 0..MaxSlot)
<1>1. DOMAIN array = {<<Net, slot>> : slot \in 0..MaxSlot}
  BY DEF Array
<1> HIDE DEF Net
<1>2. Series(array) = {Net}
  <2>1. 0 \in 0..MaxSlot
    BY BoundsAssumption
  <2>2. <<Net, 0>> \in DOMAIN array /\ \A k \in DOMAIN array : k[1] = Net
    BY <1>1, <2>1
  <2> QED
    BY <2>2 DEF Series
<1>3. {k[2] : k \in {k \in DOMAIN array : k[1] = Net}} = 0..MaxSlot
  <2>1. \A k \in DOMAIN array : k[1] = Net /\ k[2] \in 0..MaxSlot
    BY <1>1
  <2>2. ASSUME NEW b \in 0..MaxSlot
        PROVE  b \in {k[2] : k \in {k \in DOMAIN array : k[1] = Net}}
    <3>1. <<Net, b>> \in DOMAIN array /\ <<Net, b>>[2] = b /\ <<Net, b>>[1] = Net
      BY <1>1
    <3> QED
      BY <3>1
  <2> QED
    BY <2>1, <2>2
<1>4. BucketsOf(array, Net) = [b \in 0..MaxSlot |-> array[<<Net, b>>]]
  BY <1>3 DEF BucketsOf
<1>5. [i \in 0..MaxSlot |-> ValueAt(BucketsOf(array, Net), i)]
        = [b \in 0..MaxSlot |-> array[<<Net, b>>]]
  BY <1>4 DEF ValueAt
<1>6. UpTo(BucketsOf(array, Net), 0, MaxSlot)
        = SumFunctionOnSet([b \in 0..MaxSlot |-> array[<<Net, b>>]], 0..MaxSlot)
  BY <1>5 DEF UpTo, SumFunction
<1> QED
  BY <1>2, <1>4, <1>6

\* An element of the array is incremented.
LEMMA ArrayIncrement ==
    ASSUME NEW array, DOMAIN array = DOMAIN Array, \A k \in DOMAIN array : array[k] \in Nat,
           NEW slot \in 0..MaxSlot, NEW new,
           new = Put(array, <<Net, slot>>, ValueAt(array, <<Net, slot>>) + 1)
    PROVE  UpTo(BucketsOf(new, Net), 0, MaxSlot) = UpTo(BucketsOf(array, Net), 0, MaxSlot) + 1
<1> DEFINE S == 0..MaxSlot
           f == [b \in S |-> array[<<Net, b>>]]
           g == [b \in S |-> new[<<Net, b>>]]
<1>1. \A b \in S : <<Net, b>> \in DOMAIN array
  BY DEF Array
<1>2. DOMAIN new = DOMAIN Array
  BY <1>1 DEF Put
<1>3. IsFiniteSet(S)
  BY FS_Interval, BoundsAssumption
<1>4. \A b \in S : f[b] \in Nat /\ g[b] = f[b] + (IF b = slot THEN 1 ELSE 0)
  BY <1>1 DEF Put, ValueAt
<1>5. /\ \A b \in S \ {slot} : g[b] = f[b]
      /\ slot \in S /\ f[slot] \in Int /\ g[slot] = f[slot] + 1
  BY <1>4
<1>10. \A b \in S : f[b] \in Int /\ g[b] \in Int
  BY <1>4
<1>6. /\ UpTo(BucketsOf(array, Net), 0, MaxSlot) = SumFunctionOnSet(f, S)
      /\ UpTo(BucketsOf(new, Net), 0, MaxSlot) = SumFunctionOnSet(g, S)
  BY <1>2, ArrayBuckets
<1> HIDE DEF S, f, g
<1>7. SumFunctionOnSet(f, S) \in Int
  BY <1>3, <1>10, SumInt
<1>8. ASSUME NEW e \in S, \A b \in S \ {e} : g[b] = f[b]
      PROVE  SumFunctionOnSet(g, S) = SumFunctionOnSet(f, S) - f[e] + g[e]
  BY <1>3, <1>8, <1>10, SumUpdate
<1>9. SumFunctionOnSet(g, S) = SumFunctionOnSet(f, S) - f[slot] + g[slot]
  BY <1>5, <1>8
<1> QED
  BY <1>5, <1>6, <1>7, <1>9

LEMMA ArrayInitSum == UpTo(BucketsOf(Array, Net), 0, MaxSlot) = 0
<1> DEFINE S == 0..MaxSlot
           f == [b \in S |-> Array[<<Net, b>>]]
<1>1. IsFiniteSet(S)
  BY FS_Interval, BoundsAssumption
<1>2. \A b \in S : f[b] = 0
  BY DEF Array
<1>3. SumFunctionOnSet(f, S) = 0
  <2> HIDE DEF S, f
  <2> QED
    BY <1>1, <1>2, SumZero
<1> QED
  BY <1>3, ArrayBuckets

LEMMA InitInv == Init => Inv
<1> SUFFICES ASSUME Init PROVE Inv
  OBVIOUS
<1>1. ProbeInv
  <2>1. CASE Linear
    <3>1. DOMAIN EmptyMap = {} /\ IsFiniteSet({}) /\ Cardinality({}) = 0
      BY FS_EmptySet DEF EmptyMap
    <3>2. ProbeInit(EmptyMap)
      BY <2>1 DEF Init
    <3> QED
      BY <3>1, <3>2, CapacitiesAssumption, ProbeInitInv
  <2>2. CASE ~Linear
    <3>1. ProbeInit(Array)
      BY <2>2 DEF Init
    <3> QED
      BY <3>1, ArrayFacts, CapacitiesAssumption, ProbeInitInv
  <2> QED
    BY <2>1, <2>2
<1>2. OnceInv
  BY <1>1, ProbeInvIsOnce
<1>3. ~Linear => hist = Array
  BY DEF Init, ProbeInit
<1>4. AllCounted
  BY <1>3, ArrayInitSum DEF AllCounted, Init
<1>5. TypeOK
  BY <1>2, <1>3 DEF TypeOK, OnceInv, Init, Pending
<1> QED
  BY <1>1, <1>2, <1>4, <1>5 DEF Inv

\* A step that keeps ProbeInv keeps the part of it that all programs have.
LEMMA OnceFromProbe == ProbeInv' => OnceInv'
  BY ProbeInvIsOnce, PTL

\* An increment adds no element to the array.
LEMMA HistStep ==
    ASSUME Inv, OnceInv', Serial => ProbeInv', NEW key, key[1] \in Labels, NEW n \in Nat,
           Increment(key, n), UNCHANGED <<now, program, starting>>,
           measured' \in Nat, AllCounted'
    PROVE  Inv'
<1>1. /\ DOMAIN hist \subseteq DOMAIN hist'
      /\ Cardinality(DOMAIN hist) >= HistCapacity => DOMAIN hist' = DOMAIN hist
  BY IncrementFacts DEF Inv, TypeOK
<1>2. ~Linear => Cardinality(DOMAIN hist) >= HistCapacity
  BY ArrayFacts, CapacitiesAssumption DEF Inv, TypeOK
<1>3. TypeOK'
  BY <1>1, <1>2 DEF Inv, TypeOK, OnceInv, Linear, Serial, Pending
<1> QED
  BY <1>3 DEF Inv, Serial

\* A step that leaves the histogram alone.
LEMMA OtherStep ==
    ASSUME Inv, OnceInv', Serial => ProbeInv', UNCHANGED <<hist, wrapped, program, measured>>,
           starting' \in [Cpus -> Pending'], Serial => starting' = starting
    PROVE  Inv'
<1>1. TypeOK'
  BY DEF Inv, TypeOK, OnceInv, Linear, Serial
<1>2. AllCounted'
  BY DEF Inv, AllCounted, Linear
<1> QED
  BY <1>1, <1>2 DEF Inv, Serial

\* The label that all keys have.
LEMMA NetLabel == \A slot : <<Net, slot>>[1] \in Labels
  BY ArrayAssumption DEF Net

LEMMA CountOneStep ==
    ASSUME Inv, NEW c \in Cpus, CountOne(c)
    PROVE  Inv'
<1>0. OnceInv /\ (Serial => ProbeInv) /\ measured \in Nat /\ ProbeTypeOK
  BY DEF Inv, TypeOK
<1>1. PICK slot : /\ Running(c, "bucket") /\ Increment(<<Net, slot>>, 1)
                  /\ run' = [run EXCEPT ![c].at = "sum"]
                  /\ unsampled' = unsampled \ {run[c].obj}
                  /\ UNCHANGED <<now, start, stamped, starts>>
  BY DEF CountOne, CountBucket, LinearBucket
<1>2. OnceInv' /\ (Serial => ProbeInv')
  BY <1>0, <1>1, NetLabel, OnceBucket, BucketStep
<1>3. measured' = measured + 1 /\ UNCHANGED <<program, starting>>
  BY <1>0 DEF CountOne
<1>4. AllCounted'
  <2> SUFFICES ASSUME ~Linear, wrapped' = {}
               PROVE  UpTo(BucketsOf(hist', Net), 0, MaxSlot) = measured + 1
    BY <1>3 DEF AllCounted, Linear
  <2> DEFINE top == CapSlot(run[c].delta)
             key == <<Net, top>>
  <2>1. CountBucket(c, Net) /\ DOMAIN hist = DOMAIN Array
    BY DEF CountOne, Inv, TypeOK
  <2>2. run[c].delta \in Nat
    BY <1>0, <1>1, RunFields DEF Running
  <2>3. top \in 0..MaxSlot
    BY <2>2, CapSlotType
  <2>4. key \in DOMAIN hist
    BY <2>1, <2>3 DEF Array
  <2>5. Increment(key, 1) /\ wrapped = {}
    BY <2>1 DEF CountBucket, Increment
  <2>6. hist' = Put(hist, key, ValueAt(hist, key) + 1)
    <3>1. key[1] \notin wrapped' /\ HasRoom(hist, key, HistCapacity)
      BY <2>4 DEF HasRoom
    <3> HIDE DEF key
    <3> QED
      BY <1>0, <2>5, <3>1, IncrementExact
  <2>7. \A k \in DOMAIN hist : hist[k] \in Nat
    BY <1>0, WordFacts DEF ProbeTypeOK, Words
  <2> HIDE DEF top
  <2>8. UpTo(BucketsOf(hist', Net), 0, MaxSlot) = UpTo(BucketsOf(hist, Net), 0, MaxSlot) + 1
    BY <2>1, <2>3, <2>6, <2>7, ArrayIncrement
  <2> QED
    BY <2>5, <2>8 DEF Inv, AllCounted
<1> QED
  BY <1>0, <1>1, <1>2, <1>3, <1>4, NetLabel, HistStep

LEMMA CountTimeStep ==
    ASSUME Inv, NEW c \in Cpus, CountTime(c)
    PROVE  Inv'
<1>0. OnceInv /\ (Serial => ProbeInv) /\ ProbeTypeOK /\ measured \in Nat
  BY DEF Inv, TypeOK
<1>1. PICK slot : /\ Running(c, "sum") /\ Increment(<<Net, slot>>, run[c].delta)
                  /\ run' = [run EXCEPT ![c].at = "forget"]
                  /\ UNCHANGED <<now, start, stamped, unsampled, starts>>
  BY DEF CountTime, CountSum, LinearBucket
<1>2. OnceInv' /\ (Serial => ProbeInv')
  BY <1>0, <1>1, NetLabel, OnceSum, SumStep
<1>3. run[c].delta \in Nat
  BY <1>0, <1>1, RunFields DEF Running
<1>4. UNCHANGED <<program, starting, measured>>
  BY <1>0 DEF CountTime, owned
<1>5. AllCounted'
  <2> SUFFICES ASSUME ~Linear PROVE hist' = hist /\ wrapped' = wrapped
    BY <1>4 DEF Inv, AllCounted, Linear
  <2>1. CountSum(c, Net) /\ DOMAIN hist = DOMAIN Array
    BY DEF CountTime, Inv, TypeOK
  <2>2. <<Net, SumSlot>> \notin DOMAIN hist
    BY <2>1, BoundsAssumption DEF Array, SumSlot
  <2>3. ~HasRoom(hist, <<Net, SumSlot>>, HistCapacity)
    BY <2>1, <2>2, ArrayFacts, CapacitiesAssumption DEF HasRoom
  <2> QED
    BY <2>1, <2>3 DEF CountSum, Increment
<1> QED
  BY <1>0, <1>1, <1>2, <1>3, <1>4, <1>5, NetLabel, HistStep

\* The first probe, in one step or in two.
LEMMA StartsStep ==
    ASSUME Inv, NEW o \in Objects, StoreStart(o)
    PROVE  Inv'
<1>1. ProbeInv'
  BY StartStep DEF Inv, StoreStart
<1>2. starting' \in [Cpus -> Pending']
  BY DEF Inv, TypeOK, StoreStart, RecordStart, owned, Pending
<1> QED
  BY <1>1, <1>2, OnceFromProbe, OtherStep DEF StoreStart, RecordStart, owned

LEMMA ReadClockStep ==
    ASSUME Inv, NEW c \in Cpus, NEW o \in Objects, ReadClock(c, o)
    PROVE  Inv'
<1>0. ~Serial /\ OnceInv /\ ProbeTypeOK
  BY DEF Inv, TypeOK, ReadClock, Serial
<1>1. now \in 0..now /\ starts' \in 0..MaxStarts
  BY <1>0, BoundsAssumption DEF ProbeTypeOK, Times, ReadClock
<1>2. stamped' \in [Objects -> 0..now]
  BY <1>0, <1>1 DEF ProbeTypeOK, ReadClock
<1>3. OnceInv'
  BY <1>0, <1>1, <1>2, OnceStutter DEF ReadClock
<1>4. starting' \in [Cpus -> Pending']
  BY <1>1 DEF Inv, TypeOK, ReadClock, Pending
<1> QED
  BY <1>0, <1>3, <1>4, OtherStep DEF ReadClock

LEMMA StoreClockStep ==
    ASSUME Inv, NEW c \in Cpus, StoreClock(c)
    PROVE  Inv'
<1>0. ~Serial /\ OnceInv /\ ProbeTypeOK /\ starting \in [Cpus -> Pending]
  BY DEF Inv, TypeOK, StoreClock
<1>1. starting[c].obj \in Objects /\ starting[c].ts \in 0..now
  BY <1>0 DEF StoreClock, Pending, Idle
<1>2. OnceInv'
  <2>1. stamped' \in [Objects -> 0..now] /\ starts' \in 0..MaxStarts
    BY <1>0 DEF ProbeTypeOK, StoreClock
  <2> QED
    BY <1>0, <1>1, <2>1, OnceStore DEF StoreClock
<1>3. starting' \in [Cpus -> Pending']
  BY <1>0 DEF StoreClock, Pending
<1> QED
  BY <1>0, <1>2, <1>3, OtherStep DEF StoreClock

LEMMA EndProbeStep ==
    ASSUME Inv, NEW c \in Cpus, NEW o \in Objects, EndProbe(c, o)
    PROVE  Inv'
<1>1. OnceInv' /\ (Serial => ProbeInv')
  BY OnceLookup, LookupStep DEF Inv, EndProbe
<1>2. starting' \in [Cpus -> Pending']
  BY DEF Inv, TypeOK, EndProbe, LookupStart, owned, Pending
<1> QED
  BY <1>1, <1>2, OtherStep DEF EndProbe, LookupStart, owned

LEMMA ReadStartStep ==
    ASSUME Inv, NEW c \in Cpus, ReadStart(c)
    PROVE  Inv'
<1>0. OnceInv /\ ProbeTypeOK /\ Running(c, "read")
  BY DEF Inv, TypeOK, ReadStart
<1>1. PICK ts \in (IF Serial THEN PointedTo(c) ELSE PointedToLate(c)),
           clock \in run[c].since..now : MeasureFrom(c, ts, clock)
  BY DEF ReadStart
<1>2. Serial => Measure(c)
  BY <1>0, <1>1 DEF Measure
<1>3. run[c].ts \in Times /\ run[c].since \in Times /\ now \in Times
  BY <1>0, RunFields DEF ProbeTypeOK
<1>4. ts \in Times /\ clock \in Times
  BY <1>0, <1>1, <1>3, BoundsAssumption DEF PointedTo, PointedToLate, ProbeTypeOK, Times
<1>5. OnceInv' /\ (Serial => ProbeInv')
  BY <1>0, <1>1, <1>2, <1>4, OnceMeasure, MeasureStep DEF Inv
<1>6. starting' \in [Cpus -> Pending']
  BY <1>1 DEF Inv, TypeOK, ReadStart, MeasureFrom, owned, Pending
<1> QED
  BY <1>1, <1>5, <1>6, OtherStep DEF ReadStart, MeasureFrom, owned

LEMMA DeleteStartStep ==
    ASSUME Inv, NEW c \in Cpus, DeleteStart(c)
    PROVE  Inv'
<1>1. OnceInv' /\ (Serial => ProbeInv')
  BY OnceForget, ForgetStep DEF Inv, DeleteStart
<1>2. starting' \in [Cpus -> Pending']
  BY DEF Inv, TypeOK, DeleteStart, Forget, owned, Pending
<1> QED
  BY <1>1, <1>2, OtherStep DEF DeleteStart, Forget, owned

LEMMA TicksStep ==
    ASSUME Inv, Tick, UNCHANGED owned
    PROVE  Inv'
<1>1. OnceInv' /\ (Serial => ProbeInv')
  BY OnceTick, TickStep DEF Inv
<1>2. now \in Nat /\ now' = now + 1
  BY BoundsAssumption DEF Inv, TypeOK, ProbeTypeOK, Times, Tick
<1>3. starting' \in [Cpus -> Pending']
  <2>1. starting \in [Cpus -> Pending] /\ starting' = starting
    BY DEF Inv, TypeOK, owned
  <2>2. 0..now \subseteq 0..now'
    BY <1>2
  <2> QED
    BY <2>1, <2>2 DEF Pending
<1> QED
  BY <1>1, <1>3, OtherStep DEF Tick, owned

LEMMA StutterStep ==
    ASSUME Inv, UNCHANGED vars
    PROVE  Inv'
<1>1. OnceInv'
  BY OnceStutter DEF Inv, TypeOK, ProbeTypeOK, vars
<1>2. Serial => ProbeInv'
  BY ProbeStutter DEF Inv, vars, probeVars
<1>3. starting' \in [Cpus -> Pending']
  BY DEF Inv, TypeOK, vars, Pending
<1> QED
  BY <1>1, <1>2, <1>3, OtherStep DEF vars

LEMMA NextInv == Inv /\ [Next]_vars => Inv'
<1> SUFFICES ASSUME Inv, [Next]_vars PROVE Inv'
  OBVIOUS
<1>1. CASE Tick /\ UNCHANGED owned
  BY <1>1, TicksStep
<1>2. ASSUME NEW o \in Objects, StoreStart(o) PROVE Inv'
  BY <1>2, StartsStep
<1>3. ASSUME NEW c \in Cpus, NEW o \in Objects, ReadClock(c, o) PROVE Inv'
  BY <1>3, ReadClockStep
<1>4. ASSUME NEW c \in Cpus, StoreClock(c) PROVE Inv'
  BY <1>4, StoreClockStep
<1>5. ASSUME NEW c \in Cpus, NEW o \in Objects, EndProbe(c, o) PROVE Inv'
  BY <1>5, EndProbeStep
<1>6. ASSUME NEW c \in Cpus, ReadStart(c) PROVE Inv'
  BY <1>6, ReadStartStep
<1>7. ASSUME NEW c \in Cpus, CountOne(c) PROVE Inv'
  BY <1>7, CountOneStep
<1>8. ASSUME NEW c \in Cpus, CountTime(c) PROVE Inv'
  BY <1>8, CountTimeStep
<1>9. ASSUME NEW c \in Cpus, DeleteStart(c) PROVE Inv'
  BY <1>9, DeleteStartStep
<1>10. CASE UNCHANGED vars
  BY <1>10, StutterStep
<1> QED
  BY <1>1, <1>2, <1>3, <1>4, <1>5, <1>6, <1>7, <1>8, <1>9, <1>10 DEF Next

LEMMA Invariant == Spec => []Inv
  BY InitInv, NextInv, PTL DEF Spec

\* Type correctness: the maps stay within their max_entries, and shrinklat's
\* array keeps the elements it began with.
THEOREM TypeCorrect == Spec => []TypeOK
  BY Invariant, PTL DEF Inv

\* A latency counted by network-retransmission-time or shrinklat is measured
\* from the last time the first function was entered for the object.
THEOREM LatencyIsFresh == Spec => []FreshWhenSerial
<1>1. Inv => FreshWhenSerial
  BY DEF Inv, ProbeInv, FreshWhenSerial
<1> QED
  BY <1>1, Invariant, PTL

\* One entry of the first function is counted at most once, by any of the
\* three, whatever other entries for the object run meanwhile.
THEOREM NoDoubleCount == Spec => []SampledOnce
<1>1. Inv => SampledOnce
  BY DEF Inv, OnceInv, UnsampledRuns, SampledOnce, Running
<1> QED
  BY <1>1, Invariant, PTL

\* shrinklat's histogram counts every latency that was measured, however long,
\* until a counter exceeds a u64, and its sum is exported as 0: the array has
\* no element for it, and the increments of it are lost.
THEOREM ShrinkLatIsComplete == Spec => []EveryLatencyExported
<1>1. Inv => EveryLatencyExported
  <2> SUFFICES ASSUME Inv, ~Linear, wrapped = {}
               PROVE  /\ Collect(hist, Config)[Net].count = measured
                      /\ Collect(hist, Config)[Net].sum = 0
    BY DEF EveryLatencyExported
  <2> DEFINE buckets == BucketsOf(hist, Net)
             h == [type |-> "exp2", min |-> 0, max |-> MaxSlot, multiplier |-> 1]
  <2>1. Config = h
    BY DEF Config
  <2>2. DOMAIN hist = DOMAIN Array /\ UpTo(buckets, 0, MaxSlot) = measured
    BY DEF Inv, TypeOK, AllCounted
  <2>3. Series(hist) = {Net} /\ DOMAIN buckets = 0..MaxSlot
    BY <2>2, ArrayBuckets
  <2>4. MaxSlot - 0 # 0 /\ ValueAt(buckets, MaxSlot + 1) = 0
    BY <2>3, ArrayAssumption, BoundsAssumption DEF ValueAt
  <2> HIDE DEF buckets
  <2>5. /\ ~Transform(buckets, h).failed
        /\ Transform(buckets, h).count = UpTo(buckets, 0, MaxSlot)
        /\ Transform(buckets, h).sum = 1 * ValueAt(buckets, MaxSlot + 1)
    BY <2>4 DEF Transform, TransformDynamic, Multiplier
  <2> HIDE DEF h
  <2>6. Collect(hist, h)[Net] = Transform(buckets, h)
    BY <2>3, <2>5 DEF Collect, buckets
  <2> QED
    BY <2>1, <2>2, <2>4, <2>5, <2>6
<1> QED
  BY <1>1, Invariant, PTL

-----------------------------------------------------------------------------
(***************************************************************************)
(* HistogramExport.                                                        *)
(***************************************************************************)

\* The keys of the buckets, and the key of the sum beyond them.
LEMMA ConfigFacts ==
    ASSUME config \in Configs
    PROVE  /\ Multiplier(config) \in Nat \ {0}
           /\ config.type \in {"exp2", "fixed"}
           /\ config.type = "exp2" =>
                 config.min = 0 /\ config.max = LastSlot /\ LastSlot \in 1..27
           /\ config.type = "fixed" =>
                 /\ config.keys \in Seq(Nat) /\ Len(config.keys) \in Nat \ {0}
                 /\ DOMAIN config.keys = 1..Len(config.keys)
                 /\ \A i \in 1..Len(config.keys) : config.keys[i] \in Nat
                 /\ \A i, j \in 1..Len(config.keys) :
                       i < j => config.keys[i] < config.keys[j]
<1>1. Multiplier(config) \in Nat \ {0} /\ config.type \in {"exp2", "fixed"}
  BY ConfigsAssumption DEF Multiplier
<1>2. config.type = "exp2" =>
         config.min = 0 /\ config.max = LastSlot /\ LastSlot \in 1..27
  BY ConfigsAssumption
<1>3. ASSUME config.type = "fixed"
      PROVE  /\ config.keys \in Seq(Nat) /\ config.keys # <<>>
             /\ \A i, j \in 1..Len(config.keys) : i < j => config.keys[i] < config.keys[j]
  BY <1>3, ConfigsAssumption
<1>4. ASSUME config.type = "fixed"
      PROVE  /\ Len(config.keys) \in Nat \ {0}
             /\ DOMAIN config.keys = 1..Len(config.keys)
             /\ \A i \in 1..Len(config.keys) : config.keys[i] \in Nat
  BY <1>3, <1>4
<1> QED
  BY <1>1, <1>2, <1>3, <1>4

LEMMA FixedFacts ==
    ASSUME config \in Configs, config.type = "fixed", NEW v \in Nat
    PROVE  /\ FixedIndex(v) \in 1..Len(config.keys)
           /\ \A i \in 1..Len(config.keys) - 1 :
                 FixedIndex(v) <= i <=> v <= config.keys[i]
<1> DEFINE n == Len(config.keys)
           above == {i \in DOMAIN config.keys : v <= config.keys[i]}
           first == CHOOSE i \in above : \A j \in above : i <= j
<1>0. /\ n \in Nat \ {0} /\ DOMAIN config.keys = 1..n
      /\ \A i \in 1..n : config.keys[i] \in Nat
      /\ \A i, j \in 1..n : i < j => config.keys[i] < config.keys[j]
  BY ConfigFacts
<1>1. FixedIndex(v) = IF above = {} THEN n ELSE first
  BY DEF FixedIndex
<1>2. \A i \in 1..n : i \in above <=> v <= config.keys[i]
  BY <1>0
<1>3. above \in SUBSET Nat
  BY <1>0
<1>4. CASE above = {}
  BY <1>0, <1>1, <1>2, <1>4
<1>5. CASE above # {}
  <2>1. \E i \in above : \A j \in above : i <= j
    <3> HIDE DEF above
    <3> QED
      BY <1>3, <1>5, LeastNumber
  <2>2. first \in above /\ \A j \in above : first <= j
    <3> HIDE DEF above
    <3> QED
      BY <2>1
  <2>3. first \in 1..n /\ v <= config.keys[first]
    BY <1>0, <2>2
  <2>4. \A i \in 1..n : v <= config.keys[i] => first <= i
    BY <1>2, <2>2
  <2>5. \A i \in 1..n : first <= i => v <= config.keys[i]
    <3> HIDE DEF first
    <3> QED
      BY <1>0, <2>3
  <2>6. FixedIndex(v) = first
    BY <1>1, <1>5
  <2> HIDE DEF first
  <2> QED
    BY <1>0, <2>3, <2>4, <2>5, <2>6
<1> QED
  BY <1>4, <1>5

LEMMA SlotFacts ==
    ASSUME config \in Configs, config.type = "exp2", NEW v \in Nat
    PROVE  /\ Slot(v) \in 0..LastSlot
           /\ \A b \in 0..LastSlot - 1 : Slot(v) <= b <=> v <= 2^(b + 1) - 1
<1>1. LastSlot \in 1..27 /\ Log2OfU64(v) \in Nat
  BY ConfigFacts, Log2Type
<1>2. Slot(v) \in 0..LastSlot
  BY <1>1 DEF Slot
<1>3. ASSUME NEW b \in 0..LastSlot - 1 PROVE Slot(v) <= b <=> v <= 2^(b + 1) - 1
  <2>1. b + 1 \in 1..27
    BY <1>1
  <2>2. 2^(b + 1) \in Nat /\ (b + 1 <= Log2OfU64(v) <=> 2^(b + 1) <= v)
    BY <2>1, Powers
  <2>3. Slot(v) <= b <=> ~(b + 1 <= Log2OfU64(v))
    BY <1>1 DEF Slot
  <2> QED
    BY <2>2, <2>3
<1> QED
  BY <1>2, <1>3

LEMMA BucketFacts ==
    ASSUME config \in Configs
    PROVE  /\ Buckets \subseteq Nat /\ SumKey \in Nat /\ SumKey \notin Buckets
           /\ \A v \in Nat : Bucket(v) \in Buckets
<1>1. CASE config.type = "exp2"
  <2>1. LastSlot \in 1..27 /\ Buckets = 0..LastSlot /\ SumKey = LastSlot + 1
    BY <1>1, ConfigFacts DEF Buckets, SumKey
  <2>2. \A v \in Nat : Bucket(v) \in Buckets
    BY <1>1, <2>1, SlotFacts DEF Bucket
  <2> QED
    BY <2>1, <2>2
<1>2. CASE config.type = "fixed"
  <2> DEFINE n == Len(config.keys)
  <2>1. /\ n \in Nat \ {0}
        /\ \A i \in 1..n : config.keys[i] \in Nat
        /\ \A i, j \in 1..n : i < j => config.keys[i] < config.keys[j]
        /\ DOMAIN config.keys = 1..n
    BY <1>2, ConfigFacts
  <2>2. Buckets = {config.keys[i] : i \in 1..n} /\ SumKey = config.keys[n] + 1
    BY <1>2, <2>1 DEF Buckets, SumKey, Range
  <2>3. \A i \in 1..n : config.keys[i] <= config.keys[n]
    BY <2>1
  <2>4. \A v \in Nat : Bucket(v) \in Buckets
    BY <1>2, <2>2, FixedFacts DEF Bucket, FixedKey
  <2>5. config.keys[n] \in Nat /\ SumKey \in Nat
    BY <2>1, <2>2
  <2>6. Buckets \subseteq Nat /\ \A b \in Buckets : b < SumKey
    BY <2>1, <2>2, <2>3, <2>5
  <2>7. SumKey \notin Buckets
    BY <2>5, <2>6
  <2> QED
    BY <2>4, <2>5, <2>6, <2>7
<1> QED
  BY <1>1, <1>2, ConfigFacts

LEMMA ExportInitInv == ExportInit => ExportInv
<1> SUFFICES ASSUME ExportInit PROVE ExportInv
  OBVIOUS
<1>1. config \in Configs /\ map = EmptyMap /\ DOMAIN map = {}
      /\ seen = [l \in SeriesLabels |-> [v \in Values |-> 0]]
  BY DEF ExportInit, EmptyMap
<1>2. ExportShape
  BY <1>1 DEF ExportShape
<1>3. ASSUME NEW l \in SeriesLabels
      PROVE  /\ \A b \in Buckets :
                    ValueAt(map, <<l, b>>) = Measured(l, {v \in Values : Bucket(v) = b})
             /\ ValueAt(map, <<l, SumKey>>) = SumOfEvents(l)
             /\ \A v \in Values : seen[l][v] > 0 => <<l, SumKey>> \in DOMAIN map
  <2>1. \A k : ValueAt(map, k) = 0
    BY <1>1 DEF ValueAt
  <2>2. \A v \in Values : seen[l][v] = 0 /\ v * seen[l][v] = 0
    BY <1>1, ValuesAssumption
  <2>3. ASSUME NEW vs \in SUBSET Values PROVE Measured(l, vs) = 0
    <3>1. IsFiniteSet(vs)
      BY FS_Subset, ValuesAssumption
    <3> QED
      BY <2>2, <3>1, SumZero DEF Measured
  <2>4. \A b \in Buckets : Measured(l, {v \in Values : Bucket(v) = b}) = 0
    BY <2>3
  <2>5. SumOfEvents(l) = 0
    <3> DEFINE f == [v \in Values |-> v * seen[l][v]]
    <3>1. \A v \in Values : f[v] = 0
      BY <2>2
    <3>2. SumOfEvents(l) = SumFunctionOnSet(f, Values)
      BY DEF SumOfEvents, SumFunction
    <3> HIDE DEF f
    <3> QED
      BY <3>1, <3>2, SumZero, ValuesAssumption
  <2> QED
    BY <2>1, <2>2, <2>4, <2>5
<1> QED
  BY <1>2, <1>3 DEF ExportInv, MapIsSeen

LEMMA ObserveStep ==
    ASSUME ExportInv, NEW label \in SeriesLabels, NEW w \in Values, Observe(label, w)
    PROVE  ExportInv'
<1> DEFINE bucket == <<label, Bucket(w)>>
           sum == <<label, SumKey>>
           once == Add(map, bucket, 1)
           row == [seen[label] EXCEPT ![w] = @ + 1]
<1>0. /\ config \in Configs /\ config' = config
      /\ DOMAIN map \subseteq SeriesLabels \X Nat
      /\ seen \in [SeriesLabels -> [Values -> Nat]]
      /\ map' = Add(once, sum, w)
      /\ seen' = [seen EXCEPT ![label] = row]
      /\ w \in Nat
  BY ValuesAssumption DEF ExportInv, ExportShape, Observe
<1>1. /\ Buckets \subseteq Nat /\ SumKey \in Nat /\ SumKey \notin Buckets
      /\ Bucket(w) \in Buckets
  BY <1>0, BucketFacts
<1>2. /\ Buckets' = Buckets /\ SumKey' = SumKey
      /\ \A v : Bucket(v)' = Bucket(v)
  BY <1>0 DEF Buckets, SumKey, Bucket, FixedKey, FixedIndex, Slot
<1>3. /\ DOMAIN map' = DOMAIN map \cup {<<label, Bucket(w)>>, <<label, SumKey>>}
      /\ ValueAt(map', <<label, SumKey>>) = ValueAt(map, <<label, SumKey>>) + w
      /\ ValueAt(map', <<label, Bucket(w)>>) = ValueAt(map, <<label, Bucket(w)>>) + 1
      /\ \A k : k \notin {<<label, Bucket(w)>>, <<label, SumKey>>} =>
                  ValueAt(map', k) = ValueAt(map, k)
  <2>1. bucket # sum
    BY <1>1
  <2> HIDE DEF bucket, sum
  <2>2. /\ DOMAIN once = DOMAIN map \cup {bucket}
        /\ ValueAt(once, bucket) = ValueAt(map, bucket) + 1
        /\ \A k : k # bucket => ValueAt(once, k) = ValueAt(map, k)
    BY DEF Add, Put, ValueAt
  <2> HIDE DEF once
  <2>3. /\ DOMAIN map' = DOMAIN once \cup {sum}
        /\ ValueAt(map', sum) = ValueAt(once, sum) + w
        /\ \A k : k # sum => ValueAt(map', k) = ValueAt(once, k)
    BY <1>0 DEF Add, Put, ValueAt
  <2>4. /\ DOMAIN map' = DOMAIN map \cup {bucket, sum}
        /\ ValueAt(map', sum) = ValueAt(map, sum) + w
        /\ ValueAt(map', bucket) = ValueAt(map, bucket) + 1
        /\ \A k : k \notin {bucket, sum} => ValueAt(map', k) = ValueAt(map, k)
    BY <2>1, <2>2, <2>3
  <2> QED
    BY <2>4 DEF bucket, sum
<1>4. /\ seen' \in [SeriesLabels -> [Values -> Nat]]
      /\ seen'[label][w] = seen[label][w] + 1
      /\ \A l \in SeriesLabels, v \in Values :
            l # label \/ v # w => seen'[l][v] = seen[l][v]
      /\ \A l \in SeriesLabels : l # label => seen'[l] = seen[l]
      /\ \A l \in SeriesLabels, v \in Values : seen[l][v] \in Nat /\ seen'[l][v] \in Nat
  <2>1. /\ seen[label] \in [Values -> Nat]
        /\ \A l \in SeriesLabels, v \in Values : seen[l][v] \in Nat
    BY <1>0
  <2>2. /\ row \in [Values -> Nat] /\ row[w] = seen[label][w] + 1
        /\ \A v \in Values : v # w => row[v] = seen[label][v]
    BY <2>1
  <2> HIDE DEF row
  <2>3. /\ seen' \in [SeriesLabels -> [Values -> Nat]] /\ seen'[label] = row
        /\ \A l \in SeriesLabels : l # label => seen'[l] = seen[l]
    BY <1>0, <2>2
  <2>4. \A l \in SeriesLabels, v \in Values : seen'[l][v] \in Nat
    BY <2>3
  <2> QED
    BY <2>1, <2>2, <2>3, <2>4
<1>5. ExportShape'
  <2>1. bucket \in SeriesLabels \X Nat /\ sum \in SeriesLabels \X Nat
    BY <1>1
  <2>2. DOMAIN map' \subseteq SeriesLabels \X Nat
    BY <1>0, <1>3, <2>1
  <2> QED
    BY <1>0, <1>4, <2>2 DEF ExportShape
<1>6. ASSUME NEW vs \in SUBSET Values
      PROVE  /\ w \notin vs => SumFunctionOnSet(seen'[label], vs) = SumFunctionOnSet(seen[label], vs)
             /\ w \in vs => SumFunctionOnSet(seen'[label], vs)
                               = SumFunctionOnSet(seen[label], vs) + 1
  <2> DEFINE f == seen[label]
             g == seen'[label]
  <2>0. IsFiniteSet(vs)
    BY FS_Subset, ValuesAssumption
  <2>1. \A v \in vs : f[v] \in Int /\ g[v] \in Int
    BY <1>4
  <2>2. \A v \in vs \ {w} : g[v] = f[v]
    BY <1>4
  <2>3. g[w] = f[w] + 1 /\ f[w] \in Int
    BY <1>4
  <2> HIDE DEF f, g
  <2>4. SumFunctionOnSet(f, vs) \in Int
    BY <2>0, <2>1, SumInt
  <2>5. w \notin vs => SumFunctionOnSet(g, vs) = SumFunctionOnSet(f, vs)
    BY <2>0, <2>1, <2>2, SumSame
  <2>6. w \in vs => SumFunctionOnSet(g, vs) = SumFunctionOnSet(f, vs) - f[w] + g[w]
    BY <2>0, <2>1, <2>2, SumUpdate
  <2>7. w \in vs => SumFunctionOnSet(g, vs) = SumFunctionOnSet(f, vs) + 1
    BY <2>3, <2>4, <2>6
  <2> QED
    BY <2>5, <2>7 DEF f, g
<1>7. SumOfEvents(label)' = SumOfEvents(label) + w
  <2> DEFINE f == [v \in Values |-> v * seen[label][v]]
             g == [v \in Values |-> v * seen'[label][v]]
  <2>0. ASSUME NEW a \in Nat, NEW b \in Nat PROVE a * b \in Int
    OBVIOUS
  <2>1. \A v \in Values : v \in Nat /\ f[v] \in Int /\ g[v] \in Int
    <3>1. ASSUME NEW v \in Values
          PROVE  v \in Nat /\ seen[label][v] \in Nat /\ seen'[label][v] \in Nat
      BY <1>4, ValuesAssumption
    <3> QED
      BY <2>0, <3>1
  <2>2. \A v \in Values \ {w} : g[v] = f[v]
    BY <1>4
  <2>3. g[w] = f[w] + w
    BY <1>0, <1>4
  <2>4. SumOfEvents(label) = SumFunctionOnSet(f, Values)
        /\ SumOfEvents(label)' = SumFunctionOnSet(g, Values)
    BY DEF SumOfEvents, SumFunction
  <2> HIDE DEF f, g
  <2>5. SumFunctionOnSet(f, Values) \in Int
    BY <2>1, SumInt, ValuesAssumption
  <2>6. SumFunctionOnSet(g, Values) = SumFunctionOnSet(f, Values) - f[w] + g[w]
    <3>0. IsFiniteSet(Values) /\ \A v \in Values : f[v] \in Int /\ g[v] \in Int
      BY <2>1, ValuesAssumption
    <3>1. ASSUME NEW e \in Values, \A v \in Values \ {e} : g[v] = f[v]
          PROVE  SumFunctionOnSet(g, Values) = SumFunctionOnSet(f, Values) - f[e] + g[e]
      BY <3>0, <3>1, SumUpdate
    <3> QED
      BY <2>2, <3>1
  <2> QED
    BY <1>0, <2>1, <2>3, <2>4, <2>5, <2>6
<1>8. ASSUME NEW l \in SeriesLabels
      PROVE  /\ \A b \in Buckets :
                    ValueAt(map', <<l, b>>)
                      = SumFunctionOnSet(seen'[l], {v \in Values : Bucket(v) = b})
             /\ ValueAt(map', <<l, SumKey>>) = SumOfEvents(l)'
             /\ \A v \in Values : seen'[l][v] > 0 => <<l, SumKey>> \in DOMAIN map'
  <2>0. /\ \A b \in Buckets :
              ValueAt(map, <<l, b>>) = SumFunctionOnSet(seen[l], {v \in Values : Bucket(v) = b})
        /\ ValueAt(map, <<l, SumKey>>) = SumOfEvents(l)
        /\ \A v \in Values : seen[l][v] > 0 => <<l, SumKey>> \in DOMAIN map
    BY DEF ExportInv, MapIsSeen, Measured
  <2>1. CASE l # label
    <3>1. \A k : ValueAt(map', <<l, k>>) = ValueAt(map, <<l, k>>)
      BY <1>3, <2>1
    <3>2. seen'[l] = seen[l]
      BY <1>4, <2>1
    <3>3. SumOfEvents(l)' = SumOfEvents(l)
      BY <3>2 DEF SumOfEvents
    <3> QED
      BY <1>3, <2>0, <3>1, <3>2, <3>3
  <2>2. CASE l = label
    <3>1. ASSUME NEW b \in Buckets
          PROVE  ValueAt(map', <<l, b>>)
                   = SumFunctionOnSet(seen'[l], {v \in Values : Bucket(v) = b})
      <4> DEFINE vs == {v \in Values : Bucket(v) = b}
      <4>1. w \in vs <=> b = Bucket(w)
        OBVIOUS
      <4>2. ValueAt(map, <<l, b>>) = SumFunctionOnSet(seen[l], vs)
        BY <2>0
      <4>3. vs \in SUBSET Values
        OBVIOUS
      <4> HIDE DEF vs
      <4>4. CASE b = Bucket(w)
        BY <1>3, <1>6, <2>2, <4>1, <4>2, <4>3, <4>4 DEF vs
      <4>5. CASE b # Bucket(w)
        <5>1. ValueAt(map', <<l, b>>) = ValueAt(map, <<l, b>>)
          BY <1>1, <1>3, <4>5
        <5> QED
          BY <1>6, <2>2, <4>1, <4>2, <4>3, <4>5, <5>1 DEF vs
      <4> QED
        BY <4>4, <4>5
    <3>2. ValueAt(map', <<l, SumKey>>) = SumOfEvents(l)'
      BY <1>3, <1>7, <2>0, <2>2
    <3>3. <<l, SumKey>> \in DOMAIN map'
      BY <1>3, <2>2
    <3> QED
      BY <3>1, <3>2, <3>3
  <2> QED
    BY <2>1, <2>2
<1>9. MapIsSeen'
  BY <1>2, <1>8 DEF MapIsSeen, Measured
<1> QED
  BY <1>5, <1>9 DEF ExportInv

LEMMA ExportNextInv == ExportInv /\ [ExportNext]_exportVars => ExportInv'
<1> SUFFICES ASSUME ExportInv, [ExportNext]_exportVars PROVE ExportInv'
  OBVIOUS
<1>1. ASSUME NEW l \in SeriesLabels, NEW v \in Values, Observe(l, v) PROVE ExportInv'
  BY <1>1, ObserveStep
<1>2. CASE UNCHANGED exportVars
  <2>1. config' = config /\ map' = map /\ seen' = seen
    BY <1>2 DEF exportVars
  <2>2. Buckets' = Buckets /\ SumKey' = SumKey /\ \A v : Bucket(v)' = Bucket(v)
    BY <2>1 DEF Buckets, SumKey, Bucket, FixedKey, FixedIndex, Slot
  <2>3. /\ \A l : SumOfEvents(l)' = SumOfEvents(l)
        /\ \A l, vs : Measured(l, vs)' = Measured(l, vs)
    BY <2>1 DEF SumOfEvents, Measured
  <2>4. ExportShape'
    BY <2>1 DEF ExportInv, ExportShape
  <2>5. MapIsSeen'
    BY <2>1, <2>2, <2>3 DEF ExportInv, MapIsSeen
  <2> QED
    BY <2>4, <2>5 DEF ExportInv
<1> QED
  BY <1>1, <1>2 DEF ExportNext

LEMMA ExportInvariant == ExportSpec => []ExportInv
  BY ExportInitInv, ExportNextInv, PTL DEF ExportSpec

\* What collectHistograms finds of a series.
LEMMA BucketsOfFacts ==
    ASSUME ExportInv, NEW l \in SeriesLabels
    PROVE  \A b \in Nat : ValueAt(BucketsOf(map, l), b) = ValueAt(map, <<l, b>>)
<1> DEFINE keys == {k \in DOMAIN map : k[1] = l}
           found == {k[2] : k \in keys}
<1>0. DOMAIN map \subseteq SeriesLabels \X Nat
  BY DEF ExportInv, ExportShape
<1>1. BucketsOf(map, l) = [b \in found |-> map[<<l, b>>]]
  BY DEF BucketsOf
<1>2. \A b \in Nat : b \in found <=> <<l, b>> \in DOMAIN map
  <2>1. ASSUME NEW b \in found PROVE <<l, b>> \in DOMAIN map
    <3>1. PICK k \in DOMAIN map : k[1] = l /\ k[2] = b
      OBVIOUS
    <3>2. k = <<l, b>>
      BY <1>0, <3>1
    <3> QED
      BY <3>2
  <2>2. ASSUME NEW b \in Nat, <<l, b>> \in DOMAIN map PROVE b \in found
    <3>1. <<l, b>> \in keys /\ <<l, b>>[2] = b
      BY <2>2
    <3> QED
      BY <3>1
  <2> QED
    BY <2>1, <2>2
<1> HIDE DEF found
<1> QED
  BY <1>1, <1>2 DEF ValueAt

\* The buckets up to one add up to the events that fell in them.
LEMMA DynamicCumulates ==
    ASSUME ExportInv, config.type = "exp2", NEW l \in SeriesLabels, NEW n \in 0..LastSlot
    PROVE  UpTo(BucketsOf(map, l), 0, n) = Measured(l, {v \in Values : Bucket(v) <= n})
<1> DEFINE I == 0..n
           f == seen[l]
           g == [i \in I |-> ValueAt(BucketsOf(map, l), i)]
           P == [i \in I |-> {v \in Values : Bucket(v) = i}]
           All == UNION {P[i] : i \in I}
<1>0. /\ config \in Configs /\ LastSlot \in Nat /\ n \in Nat
      /\ \A v \in Values : v \in Nat /\ f[v] \in Int
  BY ConfigFacts, ValuesAssumption DEF ExportInv, ExportShape
<1>1. \A v \in Values : Bucket(v) \in 0..LastSlot
  BY <1>0, BucketFacts DEF Buckets
<1>2. \A i \in I : g[i] = SumFunctionOnSet(f, P[i])
  <2>1. \A b \in 0..LastSlot :
           ValueAt(map, <<l, b>>) = SumFunctionOnSet(f, {v \in Values : Bucket(v) = b})
    BY DEF ExportInv, MapIsSeen, Measured, Buckets
  <2>2. I \subseteq 0..LastSlot /\ I \subseteq Nat
    BY <1>0
  <2>3. \A b \in I : ValueAt(BucketsOf(map, l), b) = ValueAt(map, <<l, b>>)
    BY <2>2, BucketsOfFacts
  <2> QED
    BY <2>1, <2>2, <2>3
<1>3. P \in [I -> SUBSET Values] /\ \A i, j \in I : i # j => P[i] \cap P[j] = {}
  OBVIOUS
<1>4. All = {v \in Values : Bucket(v) <= n}
  BY <1>0, <1>1
<1>5. IsFiniteSet(I)
  BY <1>0, FS_Interval
<1>6. UpTo(BucketsOf(map, l), 0, n) = SumFunctionOnSet(g, I)
  BY DEF UpTo, SumFunction
<1>7. SumFunctionOnSet(g, I) = SumFunctionOnSet(f, All)
  <2>1. IsFiniteSet(Values) /\ \A v \in Values : f[v] \in Int
    BY <1>0, ValuesAssumption
  <2> HIDE DEF I, f, g, P
  <2> QED
    BY <1>2, <1>3, <1>5, <2>1, SumOfParts
<1> QED
  BY <1>4, <1>6, <1>7 DEF Measured

LEMMA FixedCumulates ==
    ASSUME ExportInv, config.type = "fixed", NEW l \in SeriesLabels,
           NEW n \in 1..Len(config.keys)
    PROVE  SumFunction([i \in 1..n |-> ValueAt(BucketsOf(map, l), config.keys[i])])
             = Measured(l, {v \in Values : FixedIndex(v) <= n})
<1> DEFINE I == 1..n
           f == seen[l]
           g == [i \in I |-> ValueAt(BucketsOf(map, l), config.keys[i])]
           P == [i \in I |-> {v \in Values : FixedIndex(v) = i}]
           All == UNION {P[i] : i \in I}
<1>a. config \in Configs /\ \A v \in Values : v \in Nat /\ f[v] \in Int
  BY ValuesAssumption DEF ExportInv, ExportShape
<1>0. /\ n \in Nat /\ Len(config.keys) \in Nat
      /\ DOMAIN config.keys = 1..Len(config.keys)
      /\ \A i \in 1..Len(config.keys) : config.keys[i] \in Nat
      /\ \A i, j \in 1..Len(config.keys) : i < j => config.keys[i] < config.keys[j]
  BY <1>a, ConfigFacts
<1>1. \A v \in Values : FixedIndex(v) \in 1..Len(config.keys)
  BY <1>a, FixedFacts
<1>2. \A i \in I : g[i] = SumFunctionOnSet(f, P[i])
  <2> SUFFICES ASSUME NEW i \in I PROVE g[i] = SumFunctionOnSet(f, P[i])
    OBVIOUS
  <2>1. i \in 1..Len(config.keys) /\ config.keys[i] \in Nat /\ config.keys[i] \in Buckets
    BY <1>0 DEF Buckets, Range
  <2>2. g[i] = ValueAt(map, <<l, config.keys[i]>>)
    BY <2>1, BucketsOfFacts
  <2>3. ValueAt(map, <<l, config.keys[i]>>)
          = SumFunctionOnSet(f, {v \in Values : Bucket(v) = config.keys[i]})
    BY <2>1 DEF ExportInv, MapIsSeen, Measured
  <2>4. \A j \in 1..Len(config.keys) : config.keys[j] = config.keys[i] => j = i
    BY <1>0, <2>1
  <2>5. {v \in Values : Bucket(v) = config.keys[i]} = P[i]
    BY <1>1, <2>4 DEF Bucket, FixedKey
  <2> QED
    BY <2>2, <2>3, <2>5
<1>3. P \in [I -> SUBSET Values] /\ \A i, j \in I : i # j => P[i] \cap P[j] = {}
  OBVIOUS
<1>4. All = {v \in Values : FixedIndex(v) <= n}
  BY <1>0, <1>1
<1>5. IsFiniteSet(I)
  BY <1>0, FS_Interval
<1>6. SumFunction(g) = SumFunctionOnSet(g, I)
  BY DEF SumFunction
<1>7. SumFunctionOnSet(g, I) = SumFunctionOnSet(f, All)
  <2>1. IsFiniteSet(Values) /\ \A v \in Values : f[v] \in Int
    BY <1>a, ValuesAssumption
  <2> HIDE DEF I, f, g, P
  <2> QED
    BY <1>2, <1>3, <1>5, <2>1, SumOfParts
<1> QED
  BY <1>4, <1>6, <1>7 DEF Measured

\* A series that was measured has a sum, and so it is found and transformed.
LEMMA MeasuredIsFound ==
    ASSUME ExportInv, NEW l \in SeriesLabels, Measured(l, Values) > 0
    PROVE  l \in Series(map)
<1>1. \A v \in Values : seen[l][v] \in Nat
  BY DEF ExportInv, ExportShape
<1>2. \E v \in Values : seen[l][v] > 0
  <2> SUFFICES ASSUME \A v \in Values : seen[l][v] = 0 PROVE Measured(l, Values) = 0
    BY <1>1
  <2> QED
    BY SumZero, ValuesAssumption DEF Measured
<1>3. <<l, SumKey>> \in DOMAIN map
  BY <1>2 DEF ExportInv, MapIsSeen
<1>4. <<l, SumKey>>[1] = l
  OBVIOUS
<1> QED
  BY <1>3, <1>4 DEF Series

LEMMA ExportedFacts ==
    ASSUME ExportInv
    PROVE  /\ DOMAIN Exported = Series(map) /\ Series(map) \subseteq SeriesLabels
           /\ \A l \in Series(map) : Exported[l] = Transform(BucketsOf(map, l), config)
<1>1. config \in Configs /\ DOMAIN map \subseteq SeriesLabels \X Nat
  BY DEF ExportInv, ExportShape
<1>2. ASSUME NEW buckets PROVE Transform(buckets, config).failed = FALSE
  <2>1. CASE config.type = "exp2"
    <3>1. config.max - config.min # 0
      BY <1>1, <2>1, ConfigFacts
    <3> QED
      BY <2>1, <3>1 DEF Transform, TransformDynamic
  <2>2. CASE config.type = "fixed"
    <3>1. config.keys # <<>>
      BY <1>1, <2>2, ConfigFacts
    <3> QED
      BY <2>2, <3>1 DEF Transform, TransformFixed
  <2> QED
    BY <1>1, <2>1, <2>2, ConfigFacts
<1>3. {l \in Series(map) : ~Transform(BucketsOf(map, l), config).failed} = Series(map)
  BY <1>2
<1>4. Series(map) \subseteq SeriesLabels
  BY <1>1 DEF Series
<1> QED
  BY <1>3, <1>4 DEF Exported, Collect

LEMMA InvIsComplete == ExportInv => ExportIsComplete
<1> SUFFICES ASSUME ExportInv, NEW l \in SeriesLabels, Measured(l, Values) > 0
             PROVE  /\ l \in DOMAIN Exported
                    /\ Exported[l].count = Measured(l, Values)
                    /\ Exported[l].sum = Multiplier(config) * SumOfEvents(l)
  BY DEF ExportIsComplete
<1> DEFINE bs == BucketsOf(map, l)
<1>0. config \in Configs /\ \A v \in Values : v \in Nat
  BY ValuesAssumption DEF ExportInv, ExportShape
<1>1. l \in DOMAIN Exported /\ Exported[l] = Transform(bs, config)
  BY MeasuredIsFound, ExportedFacts
<1>2. ValueAt(bs, SumKey) = SumOfEvents(l)
  BY <1>0, BucketFacts, BucketsOfFacts DEF ExportInv, MapIsSeen
<1>3. CASE config.type = "exp2"
  <2>1. config.min = 0 /\ config.max = LastSlot /\ LastSlot \in 1..27 /\ SumKey = LastSlot + 1
    BY <1>0, <1>3, ConfigFacts DEF SumKey
  <2>2. /\ Exported[l].count = UpTo(bs, 0, LastSlot)
        /\ Exported[l].sum = Multiplier(config) * ValueAt(bs, LastSlot + 1)
    <3> HIDE DEF bs
    <3> QED
      BY <1>1, <1>3, <2>1 DEF Transform, TransformDynamic
  <2>3. {v \in Values : Bucket(v) <= LastSlot} = Values
    BY <1>0, <1>3, <2>1, BucketFacts DEF Buckets
  <2>4. LastSlot \in 0..LastSlot
    BY <2>1
  <2>5. UpTo(bs, 0, LastSlot) = Measured(l, Values)
    BY <1>3, <2>3, <2>4, DynamicCumulates
  <2> QED
    BY <1>1, <1>2, <2>1, <2>2, <2>5
<1>4. CASE config.type = "fixed"
  <2> DEFINE n == Len(config.keys)
  <2>1. n \in Nat \ {0} /\ config.keys # <<>> /\ SumKey = config.keys[n] + 1
    BY <1>0, <1>4, ConfigFacts DEF SumKey
  <2>2. /\ Exported[l].count = SumFunction([i \in 1..n |-> ValueAt(bs, config.keys[i])])
        /\ Exported[l].sum = Multiplier(config) * ValueAt(bs, config.keys[n] + 1)
    <3> HIDE DEF bs
    <3> QED
      BY <1>1, <1>4, <2>1 DEF Transform, TransformFixed
  <2>3. {v \in Values : FixedIndex(v) <= n} = Values
    BY <1>0, <1>4, <2>1, FixedFacts
  <2>4. SumFunction([i \in 1..n |-> ValueAt(bs, config.keys[i])]) = Measured(l, Values)
    <3>1. n \in 1..Len(config.keys)
      BY <2>1
    <3>2. SumFunction([i \in 1..n |-> ValueAt(bs, config.keys[i])])
            = Measured(l, {v \in Values : FixedIndex(v) <= n})
      <4> HIDE DEF n
      <4> QED
        BY <1>4, <3>1, FixedCumulates
    <3> QED
      BY <2>3, <3>2
  <2> QED
    BY <1>1, <1>2, <2>1, <2>2, <2>4
<1> QED
  BY <1>0, <1>3, <1>4, ConfigFacts

\* No two buckets of a histogram have the same bound.
LEMMA BoundsDiffer ==
    ASSUME config \in Configs, NEW a \in Buckets, NEW b \in Buckets, a # b
    PROVE  UpperBound(config, a) # UpperBound(config, b)
<1>1. a \in Nat /\ b \in Nat /\ Multiplier(config) \in Nat \ {0}
  BY ConfigFacts, BucketFacts
<1>2. ASSUME NEW m \in Nat \ {0}, NEW x \in Nat, NEW y \in Nat, x # y PROVE m * x # m * y
  BY <1>2
<1>3. CASE config.type = "exp2"
  <2>1. a \in 0..27 /\ b \in 0..27
    BY <1>3, ConfigFacts DEF Buckets
  <2>2. 2^0 = 1
    OBVIOUS
  <2>3. 2^a \in Nat /\ 2^b \in Nat /\ 2^a # 2^b
    <3> DEFINE Power(k) == 2^k
    <3>1. Power(0) = 1 /\ \A k \in 1..27 : /\ Power(k) \in Nat \ {0, 1}
                                          /\ \A j \in 1..27 : j < k => Power(j) < Power(k)
      BY <2>2, Powers
    <3> HIDE DEF Power
    <3>2. Power(a) \in Nat /\ Power(b) \in Nat /\ Power(a) # Power(b)
      BY <2>1, <3>1
    <3> QED
      BY <3>2 DEF Power
  <2>4. Multiplier(config) * 2^a # Multiplier(config) * 2^b
    BY <1>1, <1>2, <2>3
  <2> QED
    BY <1>3, <2>4 DEF UpperBound
<1>4. CASE config.type = "fixed"
  BY <1>1, <1>2, <1>4 DEF UpperBound
<1> QED
  BY <1>3, <1>4, ConfigFacts

LEMMA InvHasRanges == ExportInv => BucketsAreRanges
<1> SUFFICES ASSUME ExportInv, NEW l \in DOMAIN Exported,
                    NEW b \in {Bucket(v) : v \in Values}, b # LastBucket
             PROVE  Exported[l].upTo[UpperBound(config, b)]
                      = Measured(l, {v \in Values : v <= LargestIn(b)})
  BY DEF BucketsAreRanges
<1> DEFINE bs == BucketsOf(map, l)
<1>0. config \in Configs /\ \A v \in Values : v \in Nat
  BY ValuesAssumption DEF ExportInv, ExportShape
<1>1. l \in SeriesLabels /\ Exported[l] = Transform(bs, config)
  BY ExportedFacts
<1>2. b \in Buckets
  BY <1>0, BucketFacts
<1>3. CASE config.type = "exp2"
  <2>1. config.min = 0 /\ config.max = LastSlot /\ LastSlot \in 1..27 /\ b \in 0..LastSlot - 1
    BY <1>0, <1>2, <1>3, ConfigFacts DEF Buckets, LastBucket
  <2> DEFINE Key(le) == CHOOSE i \in 0..LastSlot : UpperBound(config, i) = le
  <2>2. Exported[l].upTo = [le \in {UpperBound(config, i) : i \in 0..LastSlot} |->
                               UpTo(bs, 0, Key(le))]
    <3> HIDE DEF bs
    <3> QED
      BY <1>1, <1>3, <2>1 DEF Transform, TransformDynamic
  <2>3. b \in 0..LastSlot /\ Buckets = 0..LastSlot
    BY <1>3, <2>1 DEF Buckets
  <2>4. Key(UpperBound(config, b)) = b
    BY <1>0, <2>3, BoundsDiffer
  <2>5. Exported[l].upTo[UpperBound(config, b)] = UpTo(bs, 0, b)
    <3> HIDE DEF Key
    <3> QED
      BY <2>2, <2>3, <2>4
  <2>6. UpTo(bs, 0, b) = Measured(l, {v \in Values : Bucket(v) <= b})
    BY <1>1, <1>3, <2>3, DynamicCumulates
  <2>7. \A v \in Values : Bucket(v) <= b <=> v <= LargestIn(b)
    BY <1>0, <1>3, <2>1, SlotFacts DEF Bucket, LargestIn
  <2>8. {v \in Values : Bucket(v) <= b} = {v \in Values : v <= LargestIn(b)}
    BY <2>7
  <2> QED
    BY <2>5, <2>6, <2>8
<1>4. CASE config.type = "fixed"
  <2> DEFINE n == Len(config.keys)
             bounds == [i \in DOMAIN config.keys |-> UpperBound(config, config.keys[i])]
             Last(le) == CHOOSE i \in DOMAIN bounds :
                            /\ bounds[i] = le
                            /\ \A j \in DOMAIN bounds : bounds[j] = le => j <= i
             upTo(m) == SumFunction([i \in 1..m |-> ValueAt(bs, config.keys[i])])
  <2>1. /\ n \in Nat \ {0} /\ config.keys # <<>>
        /\ DOMAIN config.keys = 1..n /\ DOMAIN bounds = 1..n
        /\ \A i, j \in 1..n : i < j => config.keys[i] < config.keys[j]
        /\ \A i \in 1..n : config.keys[i] \in Nat
    BY <1>0, <1>4, ConfigFacts
  <2>2. Exported[l].upTo = [le \in Range(bounds) |-> upTo(Last(le))]
    <3> HIDE DEF bs
    <3> QED
      BY <1>1, <1>4, <2>1 DEF Transform, TransformFixed
  <2>3. PICK i \in 1..n : b = config.keys[i]
    BY <1>2, <1>4, <2>1 DEF Buckets, Range
  <2>4. i \in 1..n - 1
    BY <1>4, <2>1, <2>3 DEF LastBucket
  <2>5. \A j \in 1..n : bounds[j] = UpperBound(config, b) <=> j = i
    <3>1. \A j \in 1..n : config.keys[j] \in Buckets
      BY <1>4, <2>1 DEF Buckets, Range
    <3>2. \A j \in 1..n : config.keys[j] = b <=> j = i
      BY <2>1, <2>3
    <3>3. \A j \in 1..n : bounds[j] = UpperBound(config, config.keys[j])
      BY <2>1
    <3> QED
      BY <1>0, <1>2, <3>1, <3>2, <3>3, BoundsDiffer
  <2>6. Last(UpperBound(config, b)) = i /\ UpperBound(config, b) \in Range(bounds)
    <3> HIDE DEF bounds
    <3>1. /\ i \in DOMAIN bounds /\ bounds[i] = UpperBound(config, b)
          /\ \A j \in DOMAIN bounds : bounds[j] = UpperBound(config, b) => j = i
      BY <2>1, <2>5
    <3>2. i <= i
      BY <2>4
    <3> QED
      BY <3>1, <3>2 DEF Range
  <2>7. Exported[l].upTo[UpperBound(config, b)] = upTo(i)
    <3> HIDE DEF Last, bounds, upTo
    <3> QED
      BY <2>2, <2>6
  <2>8. upTo(i) = Measured(l, {v \in Values : FixedIndex(v) <= i})
    BY <1>1, <1>4, FixedCumulates
  <2>9. \A v \in Values : FixedIndex(v) <= i <=> v <= LargestIn(b)
    BY <1>0, <1>4, <2>3, <2>4, FixedFacts DEF LargestIn
  <2>10. {v \in Values : FixedIndex(v) <= i} = {v \in Values : v <= LargestIn(b)}
    BY <2>9
  <2> QED
    BY <2>7, <2>8, <2>10
<1> QED
  BY <1>0, <1>3, <1>4, ConfigFacts

\* Whatever is measured, in whatever order and for whatever series, reaches
\* Prometheus: count and sum of each series are those of its events.
THEOREM ExportedIsComplete == ExportSpec => []ExportIsComplete
  BY ExportInvariant, InvIsComplete, PTL

\* Every cumulative bucket but the last holds exactly the events up to the
\* largest value of the bucket it is exported under.
THEOREM ExportedRanges == ExportSpec => []BucketsAreRanges
  BY ExportInvariant, InvHasRanges, PTL

=============================================================================
