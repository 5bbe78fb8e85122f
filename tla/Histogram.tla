------------------------------ MODULE Histogram ------------------------------
(***************************************************************************)
(* The histograms the exporter makes of the maps (exporter/histogram.go).  *)
(* A histogram's configuration is a record of its type, its smallest and   *)
(* largest bucket key, or its keys, and the multiplier.  Bounds and sums   *)
(* are integers here, so a multiplier is one too.                          *)
(***************************************************************************)
EXTENDS BpfMaps, Integers, Sequences

Multiplier(h) == IF h.multiplier = 0 THEN 1 ELSE h.multiplier

\* histogramKeyerMaker: the upper bound that stands for a bucket key.
UpperBound(h, key) == Multiplier(h) * (IF h.type = "exp2" THEN 2^key ELSE key)

\* Sum of the buckets with the keys from first to last.
UpTo(buckets, first, last) ==
    SumFunction([i \in first..last |-> ValueAt(buckets, i)])

Failed == [failed |-> TRUE]

\* Mutants of TransformDynamic: the loop ends before the largest key, and the
\* buckets are not cumulative.
TransformDynamicShort(buckets, h) ==
    IF h.max - h.min = 0 THEN Failed
    ELSE [failed |-> FALSE,
          upTo |-> [le \in {UpperBound(h, i) : i \in h.min..h.max - 1} |->
                       UpTo(buckets, h.min,
                            CHOOSE i \in h.min..h.max : UpperBound(h, i) = le)],
          count |-> UpTo(buckets, h.min, h.max - 1),
          sum |-> Multiplier(h) * ValueAt(buckets, h.max + 1)]

TransformDynamicPlain(buckets, h) ==
    IF h.max - h.min = 0 THEN Failed
    ELSE [failed |-> FALSE,
          upTo |-> [le \in {UpperBound(h, i) : i \in h.min..h.max} |->
                       ValueAt(buckets, CHOOSE i \in h.min..h.max : UpperBound(h, i) = le)],
          count |-> UpTo(buckets, h.min, h.max),
          sum |-> Multiplier(h) * ValueAt(buckets, h.max + 1)]

\* transformHistogramDynamic, for exp2 and linear histograms.
TransformDynamic(buckets, h) ==
    IF h.max - h.min = 0 THEN Failed
    ELSE [failed |-> FALSE,
          upTo |-> [le \in {UpperBound(h, i) : i \in h.min..h.max} |->
                       UpTo(buckets, h.min,
                            CHOOSE i \in h.min..h.max : UpperBound(h, i) = le)],
          count |-> UpTo(buckets, h.min, h.max),
          sum |-> Multiplier(h) * ValueAt(buckets, h.max + 1)]

\* transformHistogramFixed.
TransformFixed(buckets, h) ==
    IF h.keys = <<>> THEN Failed
    ELSE LET upTo(n) == SumFunction([i \in 1..n |-> ValueAt(buckets, h.keys[i])])
             bounds == [i \in DOMAIN h.keys |-> UpperBound(h, h.keys[i])]
         IN  [failed |-> FALSE,
              upTo |-> [le \in Range(bounds) |->
                           upTo(CHOOSE i \in DOMAIN bounds :
                                    /\ bounds[i] = le
                                    /\ \A j \in DOMAIN bounds : bounds[j] = le => j <= i)],
              count |-> upTo(Len(h.keys)),
              sum |-> Multiplier(h) * ValueAt(buckets, h.keys[Len(h.keys)] + 1)]

Transform(buckets, h) ==
    IF h.type = "fixed" THEN TransformFixed(buckets, h) ELSE TransformDynamic(buckets, h)

\* collectHistograms: the last label of a map key is the bucket, the others
\* name the series.
BucketsOf(map, labels) ==
    LET keys == {k \in DOMAIN map : k[1] = labels}
    IN  [b \in {k[2] : k \in keys} |-> map[<<labels, b>>]]

Series(map) == {k[1] : k \in DOMAIN map}

Collect(map, h) ==
    [labels \in {l \in Series(map) : ~Transform(BucketsOf(map, l), h).failed} |->
        Transform(BucketsOf(map, labels), h)]

=============================================================================
