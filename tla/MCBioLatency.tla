---------------------------- MODULE MCBioLatency ----------------------------
(* Three requests of two labels, two CPUs, a start map with room for two   *)
(* requests and a histogram map with room for four of the six keys.        *)
EXTENDS BioLatency, TLC

CONSTANTS r1, r2, r3, sda, sdb

MCLabelOf == (r1 :> sda) @@ (r2 :> sda) @@ (r3 :> sdb)
Symmetry == Permutations(Cpus) \cup Permutations({r1, r2})

=============================================================================
