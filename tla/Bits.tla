-------------------------------- MODULE Bits --------------------------------
(***************************************************************************)
(* log2 and log2l of examples/bits.bpf.h, with which the latency programs  *)
(* choose a bucket.  A u64 is a pair of 32-bit halves, as log2l sees it.   *)
(***************************************************************************)
EXTENDS Naturals

\* log2 by the code's cascade: shift out 16, 8, 4 and 2 bits where the rest
\* has more of them, and add up the shifts.
Log2(v) ==
    LET v16 == IF v > 65535 THEN v \div 65536 ELSE v
        v8 == IF v16 > 255 THEN v16 \div 256 ELSE v16
        v4 == IF v8 > 15 THEN v8 \div 16 ELSE v8
        v2 == IF v4 > 3 THEN v4 \div 4 ELSE v4
    IN  (IF v > 65535 THEN 16 ELSE 0) + (IF v16 > 255 THEN 8 ELSE 0)
          + (IF v8 > 15 THEN 4 ELSE 0) + (IF v4 > 3 THEN 2 ELSE 0) + (v2 \div 2)

Log2l(hi, lo) == IF hi # 0 THEN Log2(hi) + 32 ELSE Log2(lo)

\* log2l of a u64, whose upper half decides whether the lower one matters.
Log2OfU64(v) == Log2l((v \div 65536) \div 65536, v)

=============================================================================
