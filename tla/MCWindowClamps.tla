--------------------------- MODULE MCWindowClamps ---------------------------
(* Two threads of one process, a thread of another and the idle CPU.  A      *)
(* softirq on top of a thread is a context with the key of that thread's     *)
(* process, like t2.                                                         *)
EXTENDS WindowClamps, TLC

CONSTANTS t1, t2, u1, idle, p, q, cpu

\* The two threads of one process are alike.
MCSymmetry == Permutations({t1, t2})

MCShared == (t1 :> p) @@ (t2 :> p) @@ (u1 :> q) @@ (idle :> cpu)

=============================================================================
