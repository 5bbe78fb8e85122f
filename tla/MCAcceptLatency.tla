--------------------------- MODULE MCAcceptLatency ---------------------------
(* Two threads accept the requests of one port; the start map has room for   *)
(* one request, the histogram map for two keys of three.                     *)
EXTENDS AcceptLatency, TLC

Symmetry == Permutations(Cpus) \cup Permutations(Objects)

=============================================================================
