-------------------------- MODULE MCCounterPrograms --------------------------
(* Three CPUs race on the two elements of the map: for the two functions of  *)
(* cachestat, for three names, for three CPUs, which do not all fit either,  *)
(* and for the two buckets of queues on both sides of a bound.               *)
EXTENDS CounterPrograms, TLC

CONSTANTS c1, c2, c3, f1, f2, f3

MCKeys == {f1, f2, f3, c1, c2, c3, 0, 1}

\* The CPUs are keys too, of llcstat.
Symmetry == Permutations(Cpus)

=============================================================================
