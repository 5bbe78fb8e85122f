-------------------------- MODULE MCHistogramExport --------------------------
(* An exp2 histogram as biolatency.yaml configures it, with eighteen         *)
(* buckets for twenty-eight, and a fixed one.  The values are on both sides  *)
(* of the bounds of the shift cascade of log2, up to 2^17, and of the fixed  *)
(* keys; the assumption below is about both halves of a u64.                 *)
EXTENDS HistogramExport

CONSTANTS sda, sdb

Exp2 == [type |-> "exp2", min |-> 0, max |-> 17, multiplier |-> 3]
Fixed == [type |-> "fixed", keys |-> <<1, 4, 6>>, multiplier |-> 0]

MCConfigs == {Exp2, Fixed}

\* log2l on both sides of every power of two, in either half of a u64: the
\* number of the highest bit that is set, and 0 for the value 0.
Edges == {0} \cup {2^i + d : i \in 0..29, d \in {-1, 0, 1}}

HighestBit(v) == CHOOSE i \in 0..30 : 2^i <= v /\ (i < 30 => v < 2^(i + 1))

ASSUME Log2lIsHighestBit ==
    \A hi, lo \in Edges :
        Log2l(hi, lo) =
            IF hi # 0 THEN HighestBit(hi) + 32
            ELSE IF lo # 0 THEN HighestBit(lo) ELSE 0

=============================================================================
