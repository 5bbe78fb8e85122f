--------------------------- MODULE HistogramExport ---------------------------
(***************************************************************************)
(* From events to Prometheus: a latency program counts every event in a    *)
(* bucket of its map and adds it to the sum slot, and the exporter turns   *)
(* the map into a histogram as the program's YAML configuration says.      *)
(* The map is large enough here; BioLatency is about a map that is not.    *)
(***************************************************************************)
EXTENDS Histogram, Bits

CONSTANTS
    SeriesLabels, \* labels of the series
    Values,       \* what is measured, in the unit of the kernel
    Configs,      \* the histograms of .yaml files
    LastSlot,     \* MAX_LATENCY_SLOT of an exp2 program
    MaxEvents     \* bound of the model

ASSUME ValuesAssumption == IsFiniteSet(Values) /\ Values \subseteq Nat

\* An exp2 histogram has the slots of its program, as in biolatency.yaml, whose
\* MAX_LATENCY_SLOT is 27; the keys of a fixed one ascend.
ASSUME ConfigsAssumption ==
    \A h \in Configs :
        /\ h.multiplier \in Nat
        /\ \/ /\ h.type = "exp2"
              /\ h.min = 0 /\ h.max = LastSlot /\ LastSlot \in 1..27
           \/ /\ h.type = "fixed"
              /\ h.keys \in Seq(Nat) /\ h.keys # <<>>
              /\ \A i, j \in 1..Len(h.keys) : i < j => h.keys[i] < h.keys[j]

VARIABLES
    config,       \* the histogram of this program, fixed from Init on
    map,          \* <<labels, bucket>> -> u64
    seen          \* history: how often each value was measured

exportVars == <<config, map, seen>>

ExportInit ==
    /\ config \in Configs
    /\ map = EmptyMap
    /\ seen = [l \in SeriesLabels |-> [v \in Values |-> 0]]

Events == SumFunction([l \in SeriesLabels |-> SumFunction(seen[l])])

Add(m, key, n) == Put(m, key, ValueAt(m, key) + n)

\* The bucket of an exp2 program (biolatency.bpf.c:121-127).
Slot(v) == IF Log2OfU64(v) > LastSlot THEN LastSlot ELSE Log2OfU64(v)

\* The bucket README.md:402-410 asks of a program for a fixed histogram: the
\* first key that is not below the value, or the last one.
FixedIndex(v) ==
    LET above == {i \in DOMAIN config.keys : v <= config.keys[i]}
    IN  IF above = {} THEN Len(config.keys)
        ELSE CHOOSE i \in above : \A j \in above : i <= j

FixedKey(v) == config.keys[FixedIndex(v)]

SumKey == IF config.type = "fixed" THEN config.keys[Len(config.keys)] + 1 ELSE LastSlot + 1

Bucket(v) == IF config.type = "fixed" THEN FixedKey(v) ELSE Slot(v)

Observe(l, v) ==
    /\ Events < MaxEvents
    /\ map' = Add(Add(map, <<l, Bucket(v)>>, 1), <<l, SumKey>>, v)
    /\ seen' = [seen EXCEPT ![l][v] = @ + 1]
    /\ UNCHANGED config

ExportNext == \E l \in SeriesLabels, v \in Values : Observe(l, v)

ExportSpec == ExportInit /\ [][ExportNext]_exportVars

-----------------------------------------------------------------------------
Exported == Collect(map, config)

\* How many events of a series had one of the values.
Measured(l, values) == SumFunctionOnSet(seen[l], values)

SumOfEvents(l) == SumFunction([v \in Values |-> v * seen[l][v]])

\* Every event reaches Prometheus, in its own series: the count is the number
\* of events and the sum is theirs (histogram.go, exporter.go).
ExportIsComplete ==
    \A l \in SeriesLabels :
        Measured(l, Values) > 0 =>
            /\ l \in DOMAIN Exported
            /\ Exported[l].count = Measured(l, Values)
            /\ Exported[l].sum = Multiplier(config) * SumOfEvents(l)

\* The largest value of a bucket, unless it is the last one.
LargestIn(b) == IF config.type = "fixed" THEN b ELSE 2^(b + 1) - 1

LastBucket == IF config.type = "fixed" THEN config.keys[Len(config.keys)] ELSE LastSlot

\* What the buckets really hold (histogram.go with log2l of bits.bpf.h): they
\* are cumulative, and each but the last stands for a range of values, up to the
\* key itself in a fixed histogram, and below the next power of two in an exp2
\* histogram.  There the bound exported is 2^b and the bucket holds values up to
\* 2^(b+1) - 1, though README.md:424-427 and histogram.go:66-67 take the bound for
\* the upper limit of the values: only a fixed histogram is as they say.
BucketsAreRanges ==
    \A l \in DOMAIN Exported : \A b \in {Bucket(v) : v \in Values} \ {LastBucket} :
        Exported[l].upTo[UpperBound(config, b)]
            = Measured(l, {v \in Values : v <= LargestIn(b)})

-----------------------------------------------------------------------------
\* The inductive invariant: the map holds, for each series, the number of events
\* of each bucket and the sum of all.
Buckets == IF config.type = "fixed" THEN Range(config.keys) ELSE 0..LastSlot

ExportShape ==
    /\ config \in Configs
    /\ DOMAIN map \subseteq SeriesLabels \X Nat
    /\ seen \in [SeriesLabels -> [Values -> Nat]]

MapIsSeen ==
    \A l \in SeriesLabels :
        /\ \A b \in Buckets :
              ValueAt(map, <<l, b>>) = Measured(l, {v \in Values : Bucket(v) = b})
        /\ ValueAt(map, <<l, SumKey>>) = SumOfEvents(l)
        /\ \A v \in Values : seen[l][v] > 0 => <<l, SumKey>> \in DOMAIN map

ExportInv == ExportShape /\ MapIsSeen

=============================================================================
