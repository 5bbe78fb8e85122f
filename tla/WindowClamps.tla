---------------------------- MODULE WindowClamps ----------------------------
(***************************************************************************)
(* examples/tcp-window-clamps.bpf.c, as built without FENTRY_SUPPORT: a    *)
(* kprobe at the entry of tcp_try_rmem_schedule leaves the socket in an    *)
(* LRU map, and a kretprobe at its return takes it from there and counts   *)
(* a clamp when the window of that socket is low.  The key is the process  *)
(* of the current task, or the CPU in the idle task.                       *)
(*                                                                         *)
(* The TCP stack is outside the repository.  A context is a place that can *)
(* be inside the function: a thread in a system call, or the softirq of a  *)
(* CPU, which runs on top of whatever thread is there.  Each context calls *)
(* with a socket of its own, which lives until its call returns.  The      *)
(* kernel may miss a probe: a kprobe that hits inside another one, a       *)
(* return for which no kretprobe instance is free, or a return of a call   *)
(* that was there before the kretprobe, which attach.go attaches after the *)
(* kprobe.                                                                 *)
(***************************************************************************)
EXTENDS BpfMaps

CONSTANTS
    Contexts,
    KeyOf,       \* what enter_key gives in each context
    Capacity,    \* max_entries of the LRU map
    MaxCalls     \* bound of the model

ASSUME CapacityAssumption == Capacity \in Nat \ {0}
ASSUME BoundAssumption == MaxCalls \in Nat

VARIABLES
    inside,      \* contexts inside the function, with the call's number
    enters,      \* the LRU map: key -> the call whose socket it holds
    found,       \* contexts in the kretprobe, with what *skp may give
    deleted,     \* those of them that have deleted the entry
    low,         \* calls under way whose socket has rcv_ssthresh below MIN_CLAMP
    total,       \* tcp_window_clamps_total
    calls,       \* history: number of calls so far
    taken,       \* history: <<context, its call, the call whose entry it found>>
    missed       \* history: <<context, call>> of the returns that were missed

vars == <<inside, enters, found, deleted, low, total, calls, taken, missed>>

Numbers == 1..MaxCalls
Keys == {KeyOf[x] : x \in Contexts}

\* The calls under way.
Live == Range(inside)

Init ==
    /\ inside = [x \in {} |-> 0]
    /\ enters = EmptyMap
    /\ found = [x \in {} |-> {}]
    /\ deleted = {}
    /\ low = {}
    /\ total = 0
    /\ calls = 0
    /\ taken = {}
    /\ missed = {}

\* bpf_map_update_elem on an LRU map: a full one evicts an entry.
UpdateLru(key, value) ==
    IF HasRoom(enters, key, Capacity)
    THEN enters' = UpdateNoExist(enters, key, value, Capacity)
    ELSE \E old \in DOMAIN enters : enters' = Put(DeleteElem(enters, old), key, value)

\* A new entry may be put in an element that a kretprobe still points to, once
\* the entry it found there is gone.
Reuse(key) ==
    found' = [x \in DOMAIN found |->
                 IF key \in DOMAIN enters \/ found[x] \subseteq Range(enters')
                 THEN found[x] ELSE found[x] \cup {calls + 1}]

\* Mutant of Enter: a map without eviction and without a limit.
EnterUnbounded(x) ==
    /\ x \notin DOMAIN inside
    /\ calls < MaxCalls
    /\ calls' = calls + 1
    /\ inside' = Put(inside, x, calls + 1)
    /\ enters' = IF KeyOf[x] \in DOMAIN enters THEN enters
                 ELSE Put(enters, KeyOf[x], calls + 1)
    /\ Reuse(KeyOf[x])
    /\ UNCHANGED <<deleted, low, total, taken, missed>>

\* The kprobe, if it is not missed.  An entry that is there stays.
Enter(x) ==
    /\ x \notin DOMAIN inside
    /\ calls < MaxCalls
    /\ calls' = calls + 1
    /\ inside' = Put(inside, x, calls + 1)
    /\ \/ UpdateLru(KeyOf[x], calls + 1) /\ Reuse(KeyOf[x])
       \/ UNCHANGED <<enters, found>>
    /\ UNCHANGED <<deleted, low, total, taken, missed>>

\* The function lowers or raises the window of its socket.
Clamp(x) ==
    /\ x \in DOMAIN inside \ DOMAIN found
    /\ low' = IF inside[x] \in low THEN low \ {inside[x]} ELSE low \cup {inside[x]}
    /\ UNCHANGED <<inside, enters, found, deleted, total, calls, taken, missed>>

\* The call ends, and its socket may be freed.
Leave(x) ==
    /\ inside' = DeleteElem(inside, x)
    /\ low' = low \ {inside[x]}

\* The function returns and the kretprobe is missed: the entry stays.
Miss(x) ==
    /\ x \in DOMAIN inside \ DOMAIN found
    /\ Leave(x)
    /\ missed' = missed \cup {<<x, inside[x]>>}
    /\ UNCHANGED <<enters, found, deleted, total, calls, taken>>

\* The kretprobe: the lookup.
Find(x) ==
    /\ x \in DOMAIN inside \ DOMAIN found
    /\ IF KeyOf[x] \in DOMAIN enters
       THEN LET n == enters[KeyOf[x]]
            IN  /\ found' = Put(found, x, {n})
                /\ taken' = taken \cup {<<x, inside[x], n>>}
                /\ UNCHANGED <<inside, low>>
       ELSE Leave(x) /\ UNCHANGED <<found, taken>>
    /\ UNCHANGED <<enters, deleted, total, calls, missed>>

\* Mutant of Delete: the entry stays in the map.
DeleteNothing(x) ==
    /\ x \in DOMAIN found \ deleted
    /\ deleted' = deleted \cup {x}
    /\ UNCHANGED <<inside, enters, found, low, total, calls, taken, missed>>

\* The deletion, of whatever entry the key has now.
Delete(x) ==
    /\ x \in DOMAIN found \ deleted
    /\ enters' = DeleteElem(enters, KeyOf[x])
    /\ deleted' = deleted \cup {x}
    /\ UNCHANGED <<inside, found, low, total, calls, taken, missed>>

\* *skp is read after the deletion, and handle_tcp_sock looks at the socket.  In
\* the memory of a socket whose call has ended it may find anything.
Examine(x) ==
    /\ x \in deleted
    /\ \E n \in found[x], clamped \in BOOLEAN :
          /\ n \in Live => clamped = (n \in low)
          /\ total' = IF clamped THEN total + 1 ELSE total
    /\ found' = DeleteElem(found, x)
    /\ deleted' = deleted \ {x}
    /\ Leave(x)
    /\ UNCHANGED <<enters, calls, taken, missed>>

Next ==
    \E x \in Contexts :
        Enter(x) \/ Clamp(x) \/ Miss(x) \/ Find(x) \/ Delete(x) \/ Examine(x)

Spec == Init /\ [][Next]_vars

-----------------------------------------------------------------------------
\* Type invariant of the map and of the calls (tcp-window-clamps.bpf.c).
TypeOK ==
    /\ DOMAIN inside \subseteq Contexts /\ Live \subseteq Numbers
    /\ DOMAIN enters \subseteq Keys /\ Range(enters) \subseteq Numbers
    /\ Cardinality(DOMAIN enters) <= Capacity
    /\ DOMAIN found \subseteq DOMAIN inside /\ deleted \subseteq DOMAIN found
    /\ \A x \in DOMAIN found : found[x] \subseteq Numbers
    /\ low \subseteq Numbers /\ total \in 0..MaxCalls /\ calls \in 0..MaxCalls
    /\ taken \subseteq Contexts \X Numbers \X Numbers
    /\ missed \subseteq Contexts \X Numbers

\* Threads of one process, interrupts, missed kprobes and evictions may mix calls
\* up, but an entry outlives the call that made it only if the return of that very
\* call was missed: no other way leads to an entry whose socket may be freed.
EntriesAlive == Range(enters) \subseteq Live \cup {m[2] : m \in missed}

\* The contexts whose key is no one else's.
Private == {x \in Contexts : \A y \in Contexts \ {x} : KeyOf[y] # KeyOf[x]}

\* A return in a context with a key of its own finds the entry of its own call,
\* or none, or, because of BPF_NOEXIST, that of an earlier call of this context
\* whose return was missed; and each missed return misleads one later call at
\* most, whatever contexts that share keys do and whatever is evicted.
OwnEntry ==
    \A e \in taken :
        e[1] \in Private =>
            /\ e[3] = e[2] \/ <<e[1], e[3]>> \in missed
            /\ \A f \in taken : f[1] = e[1] /\ f[3] = e[3] => f = e

-----------------------------------------------------------------------------
\* The inductive strengthening of the three.  The entry of a key was made by a
\* call that is inside with that key and has not deleted it yet, or by one with
\* that key whose return was missed.
Owned ==
    \A k \in DOMAIN enters :
        \E x \in Contexts :
            /\ KeyOf[x] = k
            /\ \/ x \in DOMAIN inside \ deleted /\ inside[x] = enters[k]
               \/ <<x, enters[k]>> \in missed

\* The numbers given so far; a new entry has a number that was found by no one.
Issued ==
    /\ Range(enters) \subseteq 1..calls
    /\ \A e \in taken : e[3] \in 1..calls

\* An entry that a context with its own key has found is about to be deleted.
FoundIsDeleted ==
    \A e \in taken :
        e[1] \in Private /\ KeyOf[e[1]] \in DOMAIN enters /\ enters[KeyOf[e[1]]] = e[3]
            => e[1] \in DOMAIN found \ deleted

\* A clamp is counted by a call that has returned.
CountedOnReturn ==
    /\ IsFiniteSet(DOMAIN inside)
    /\ total + Cardinality(DOMAIN inside) <= calls

Inv ==
    /\ TypeOK
    /\ IsFiniteSet(DOMAIN enters)
    /\ CountedOnReturn
    /\ Owned
    /\ Issued
    /\ FoundIsDeleted
    /\ OwnEntry

=============================================================================
