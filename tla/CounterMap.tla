----------------------------- MODULE CounterMap -----------------------------
(***************************************************************************)
(* What a map of counters promises to the programs that increment it and   *)
(* to the exporter that reads it.  At most Capacity keys are ever          *)
(* admitted, for good.  An increment of an admitted key is counted in one  *)
(* step; an increment is lost only if its key is not admitted while the    *)
(* map is full, so a key is either counted completely or not at all.       *)
(***************************************************************************)
EXTENDS Naturals, FiniteSets

CONSTANTS Keys, Capacity, Amounts

VARIABLES admitted, count, lost

Init ==
    /\ admitted = {}
    /\ count = [k \in Keys |-> 0]
    /\ lost = [k \in Keys |-> 0]

Admit(k) ==
    /\ k \notin admitted
    /\ Cardinality(admitted) < Capacity
    /\ admitted' = admitted \cup {k}
    /\ UNCHANGED <<count, lost>>

Count(k, n) ==
    /\ k \in admitted
    /\ count' = [count EXCEPT ![k] = @ + n]
    /\ UNCHANGED <<admitted, lost>>

Lose(k, n) ==
    /\ k \notin admitted
    /\ Cardinality(admitted) >= Capacity
    /\ lost' = [lost EXCEPT ![k] = @ + n]
    /\ UNCHANGED <<admitted, count>>

Next ==
    \E k \in Keys :
        \/ Admit(k)
        \/ \E n \in Amounts : Count(k, n) \/ Lose(k, n)

Spec == Init /\ [][Next]_<<admitted, count, lost>>

=============================================================================
