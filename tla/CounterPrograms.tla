--------------------------- MODULE CounterPrograms ---------------------------
(***************************************************************************)
(* The programs of examples/ that keep no state of their own and only call *)
(* increment_map, and so the callers of IncrementMap: each CPU runs one of *)
(* them at a time, all on the map of one program.                          *)
(*                                                                         *)
(*  - cachestat counts the functions it probes, of which there are as many *)
(*    as its map has room for;                                             *)
(*  - timers, raw-tracepoints, uprobe and usdt count what an event names:  *)
(*    a timer's function, a cgroup, a Python function, without a limit;    *)
(*  - llcstat adds the sample period to the counter of its own CPU, on one *)
(*    map for references and one for misses;                               *)
(*  - tcp-syn-backlog counts the length of an accept queue in a linear     *)
(*    bucket, and adds the length to the same key.                         *)
(***************************************************************************)
EXTENDS IncrementMap, Sequences

CONSTANTS
    Probed,          \* the functions cachestat probes
    Names,           \* what the events of the other programs name
    Periods,         \* sample periods of a perf event
    Backlogs,        \* lengths of an accept queue
    BucketMultiplier

VARIABLES
    program,   \* the program whose map this is, fixed from Init on
    next       \* by CPU: what the handler will add after this call, if anything

progVars == <<table, pc, call, asked, lost, program, next>>

\* The length is divided when it is read, and again to find the bucket.
Backlog(len) == len \div BucketMultiplier
BacklogBucket(len) == Backlog(len) \div BucketMultiplier

\* The keys each program can ask for.
AllKeys ==
    [cachestat |-> Probed,
     names |-> Names,
     llcstat |-> Cpus,
     syn_backlog |-> {BacklogBucket(len) : len \in Backlogs}]

Programs == DOMAIN AllKeys

ASSUME ProbedAssumption == IsFiniteSet(Probed) /\ Cardinality(Probed) <= Capacity
ASSUME BacklogsAssumption == Backlogs \subseteq Nat /\ BucketMultiplier \in Nat \ {0}
ASSUME ProgramKeysAssumption == \A p \in Programs : AllKeys[p] \subseteq Keys
ASSUME ProgramAmountsAssumption ==
    {1} \cup Periods \cup {Backlog(len) : len \in Backlogs} \subseteq Amounts

ProgInit ==
    /\ Init
    /\ program \in Programs
    /\ next = [c \in Cpus |-> <<>>]

-----------------------------------------------------------------------------
\* One of the four kprobes: the key is the address of the function.
PageCacheOp(c) ==
    /\ program = "cachestat"
    /\ \E f \in Probed : Lookup(c, f, 1)
    /\ UNCHANGED <<program, next>>

\* do_count of timers, raw-tracepoints, uprobe and usdt.
NamedEvent(c) ==
    /\ program = "names"
    /\ \E n \in Names : Lookup(c, n, 1)
    /\ UNCHANGED <<program, next>>

\* on_cache_miss and on_cache_reference.
CacheEvent(c) ==
    /\ program = "llcstat"
    /\ \E period \in Periods : Lookup(c, c, period)
    /\ UNCHANGED <<program, next>>

\* tcp_v4_syn_recv_sock and tcp_v6_syn_recv_sock: the first increment.
SynRecv(c) ==
    /\ program = "syn_backlog"
    /\ next[c] = <<>>
    /\ \E len \in Backlogs :
          /\ Lookup(c, BacklogBucket(len), 1)
          /\ next' = [next EXCEPT ![c] = <<Backlog(len)>>]
    /\ UNCHANGED program

\* The second increment, of the same key.
AddBacklog(c) ==
    /\ next[c] # <<>>
    /\ Lookup(c, call[c].key, Head(next[c]))
    /\ next' = [next EXCEPT ![c] = <<>>]
    /\ UNCHANGED program

Proceed(c) == (Create(c) \/ Again(c) \/ Add(c)) /\ UNCHANGED <<program, next>>

ProgNext ==
    \E c \in Cpus :
        \/ PageCacheOp(c) \/ NamedEvent(c) \/ CacheEvent(c)
        \/ SynRecv(c) \/ AddBacklog(c)
        \/ Proceed(c)

ProgSpec == ProgInit /\ [][ProgNext]_progVars

-----------------------------------------------------------------------------
\* A program whose keys fit its map never loses an increment, even when CPUs
\* race to create the keys: cachestat's map has exactly as many elements as it
\* probes functions (cachestat.bpf.c:10).
CompleteWhenItFits ==
    IsFiniteSet(AllKeys[program]) /\ Cardinality(AllKeys[program]) <= Capacity
        => \A k \in Keys : lost[k] = 0

-----------------------------------------------------------------------------
\* What CompleteWhenItFits needs beside AllOrNothing: a CPU in a call, or about
\* to make the second one, asks for a key of the program, and so nothing else
\* is in the map or was lost.
OwnKeys ==
    /\ program \in Programs
    /\ next \in [Cpus -> {<<>>} \cup {<<n>> : n \in Amounts}]
    /\ \A c \in Cpus :
          pc[c] # "idle" \/ next[c] # <<>> => call[c].key \in AllKeys[program]
    /\ DOMAIN table \subseteq AllKeys[program]
    /\ \A k \in Keys : lost[k] > 0 => k \in AllKeys[program]

=============================================================================
