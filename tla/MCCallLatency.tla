---------------------------- MODULE MCCallLatency ----------------------------
(* Three sockets or threads, two of which fit the start map, two CPUs, and   *)
(* two buckets: of two microseconds in a linear histogram.                   *)
EXTENDS CallLatency, TLC

CONSTANTS s1, s2, s3

Symmetry == Permutations(Cpus) \cup Permutations(Objects)

=============================================================================
