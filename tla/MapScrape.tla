------------------------------ MODULE MapScrape ------------------------------
(***************************************************************************)
(* A scrape of one map of counters (exporter/exporter.go, collectCounters, *)
(* mapValues and aggregateMapValues) while the programs in the kernel go   *)
(* on counting.  The exporter walks the map with one system call for the   *)
(* next key and another for its value; nothing holds the map still between *)
(* them.                                                                   *)
(*                                                                         *)
(* The map in the kernel is CounterMap.  An LRU map (examples/             *)
(* cgroup.bpf.c) makes room for a new key by evicting one.  The kernel     *)
(* walks the keys in the order of its hash table, here Order, and begins   *)
(* again from the first key when the key the caller holds is gone.         *)
(***************************************************************************)
EXTENDS Naturals, FiniteSets, Sequences, SequencesExt, Functions

CONSTANTS
    Order,       \* the keys, in the order of the hash table
    Capacity,    \* max_entries
    LabelsOf,    \* labels a key decodes to, each a sequence of characters;
                 \* several keys may have the same
    Skip,        \* stands for ErrSkipLabelSet in LabelsOf
    MaxCount,    \* bound of the model: increments of one key
    MaxLost,     \* bound of the model: increments lost
    MaxRows      \* bound of the model: rows of one scrape

Keys == Range(Order)
LabelSets == {LabelsOf[k] : k \in Keys} \ {Skip}

\* A hash table holds a key once.
ASSUME OrderAssumption == Order \in Seq(Keys) /\ IsInjective(Order)
ASSUME BoundsAssumption ==
    Capacity \in Nat /\ MaxCount \in Nat /\ MaxLost \in Nat /\ MaxRows \in Nat

VARIABLES
    lru,                     \* whether the map is an LRU map, fixed from Init on
    admitted, count, lost,   \* the map in the kernel
    made,                    \* history: increments counted, by key
    scrape,                  \* what the exporter is doing
    cursor,                  \* the key the iterator holds, or <<>> for none
    rows,                    \* the values read by this scrape
    rewound,                 \* history: the walk of this scrape began again
    floor,                   \* history: counters when the scrape began, of the
                             \* keys the map has held since
    exported                 \* the series the last scrape that sent any sent

kernelVars == <<lru, admitted, count, lost, made>>
scrapeVars == <<scrape, cursor, rows, rewound, floor, exported>>
vars == <<lru, admitted, count, lost, made, scrape, cursor, rows, rewound, floor, exported>>

Kernel == INSTANCE CounterMap WITH Amounts <- {1}

\* strings.Join(labels, "|"), by which rows are the same series.
Join == [labels \in LabelSets |->
            FoldLeft(LAMBDA front, label : front \o <<"|">> \o label,
                     Head(labels), Tail(labels))]

\* The keys that are added up in one series with those that decode to l.
Joined(l) == {k \in Keys : LabelsOf[k] # Skip /\ Join[LabelsOf[k]] = Join[l]}

Total(f, l) == SumFunctionOnSet(f, Joined(l))

Init ==
    /\ lru \in BOOLEAN
    /\ Kernel!Init
    /\ made = [k \in Keys |-> 0]
    /\ scrape = "idle"
    /\ cursor = <<>>
    /\ rows = <<>>
    /\ rewound = FALSE
    /\ floor = [k \in Keys |-> 0]
    /\ exported = [l \in {} |-> 0]

-----------------------------------------------------------------------------
\* The programs in the kernel.
Increment(k) ==
    /\ made[k] < MaxCount
    /\ \/ Kernel!Admit(k) /\ UNCHANGED made
       \/ Kernel!Count(k, 1) /\ made' = [made EXCEPT ![k] = @ + 1]
       \/ ~lru /\ SumFunction(lost) < MaxLost /\ Kernel!Lose(k, 1) /\ UNCHANGED made
    /\ UNCHANGED <<lru, scrapeVars>>

\* An LRU map that is full evicts a key for a new one.
Evict(k) ==
    /\ lru
    /\ k \in admitted
    /\ Cardinality(admitted) = Capacity
    /\ admitted' = admitted \ {k}
    /\ count' = [count EXCEPT ![k] = 0]
    /\ floor' = [floor EXCEPT ![k] = 0]
    /\ UNCHANGED <<lru, lost, made, scrape, cursor, rows, rewound, exported>>

-----------------------------------------------------------------------------
\* Mutant of Begin: the rows of the last scrape are still there.
BeginKeepsRows ==
    /\ scrape = "idle"
    /\ scrape' = "next"
    /\ cursor' = <<>>
    /\ rewound' = FALSE
    /\ floor' = count
    /\ UNCHANGED <<kernelVars, rows, exported>>

Begin ==
    /\ scrape = "idle"
    /\ scrape' = "next"
    /\ cursor' = <<>>
    /\ rows' = <<>>
    /\ rewound' = FALSE
    /\ floor' = count
    /\ UNCHANGED <<kernelVars, exported>>

Position(k) == CHOOSE i \in DOMAIN Order : Order[i] = k

\* Mutants of Following: the iterator is advanced twice for each key, or is
\* not advanced.
FollowingEveryOther ==
    LET from == IF cursor # <<>> /\ Head(cursor) \in admitted
                THEN 1 + Position(Head(cursor))
                ELSE 0
    IN  {i \in DOMAIN Order : i > from /\ Order[i] \in admitted}

FollowingFromFirst == {i \in DOMAIN Order : Order[i] \in admitted}

\* The keys the kernel would still return after the one the iterator holds.
Following ==
    LET from == IF cursor # <<>> /\ Head(cursor) \in admitted
                THEN Position(Head(cursor))
                ELSE 0
    IN  {i \in DOMAIN Order : i > from /\ Order[i] \in admitted}

\* The key the iterator holds has been evicted: the kernel begins again.
Rewinds == cursor # <<>> /\ Head(cursor) \notin admitted

\* Mutant of NextKey: a skipped label set is read all the same.
NextKeyReadsSkipped ==
    /\ scrape = "next"
    /\ Following # {}
    /\ Len(rows) < MaxRows
    /\ cursor' = <<Order[CHOOSE i \in Following : \A j \in Following : i <= j]>>
    /\ scrape' = "read"
    /\ rewound' = (rewound \/ Rewinds)
    /\ UNCHANGED <<kernelVars, rows, floor, exported>>

\* iter.Next, iter.Key and the decoding of the labels, which may be skipped or
\* fail.  A failure gives up the whole metric for this scrape.
NextKey ==
    /\ scrape = "next"
    /\ Following # {}
    /\ Len(rows) < MaxRows
    /\ LET k == Order[CHOOSE i \in Following : \A j \in Following : i <= j]
       IN  /\ cursor' = <<k>>
           /\ scrape' \in IF LabelsOf[k] = Skip THEN {"next"} ELSE {"read", "idle"}
    /\ rewound' = (rewound \/ Rewinds)
    /\ UNCHANGED <<kernelVars, rows, floor, exported>>

\* m.GetValue for the key.  An error gives up the metric likewise.
ReadValue ==
    /\ scrape = "read"
    /\ IF Head(cursor) \in admitted
       THEN /\ rows' = Append(rows, [labels |-> LabelsOf[Head(cursor)],
                                     value |-> count[Head(cursor)]])
            /\ scrape' = "next"
       ELSE scrape' = "idle" /\ UNCHANGED rows
    /\ UNCHANGED <<kernelVars, cursor, rewound, floor, exported>>

EndOfMap ==
    /\ scrape = "next"
    /\ Following = {}
    /\ scrape' = "emit"
    /\ UNCHANGED <<kernelVars, cursor, rows, rewound, floor, exported>>

\* The rows that are added up in the series of l.
Series(rs, l) == {i \in DOMAIN rs : Join[rs[i].labels] = Join[l]}

\* The rows that are the first of their series, which gets their labels.
FirstRows(rs) == {i \in DOMAIN rs : \A j \in Series(rs, rs[i].labels) : i <= j}

\* Mutant of Aggregate: the last row of a series wins.
AggregateLast(rs) ==
    [l \in {rs[i].labels : i \in FirstRows(rs)} |->
        rs[CHOOSE i \in Series(rs, l) : \A j \in Series(rs, l) : j <= i].value]

RowSum(rs, l) == SumFunction([i \in Series(rs, l) |-> rs[i].value])

\* aggregateMapValues: one series for each set of labels, the values summed.
Aggregate(rs) == [l \in {rs[i].labels : i \in FirstRows(rs)} |-> RowSum(rs, l)]

Emit ==
    /\ scrape = "emit"
    /\ scrape' = "idle"
    /\ exported' = Aggregate(rows)
    /\ UNCHANGED <<kernelVars, cursor, rows, rewound, floor>>

Exporter == Begin \/ NextKey \/ ReadValue \/ EndOfMap \/ Emit

Next == Exporter \/ \E k \in Keys : Increment(k) \/ Evict(k)

\* An HTTP handler that has begun a scrape keeps running.
Spec == Init /\ [][Next]_vars

FairSpec == Spec /\ WF_vars(NextKey \/ ReadValue \/ EndOfMap \/ Emit)

-----------------------------------------------------------------------------
\* Type invariant of the map and of the scrape (exporter.go, mapValues).
TypeOK ==
    /\ admitted \subseteq Keys /\ Cardinality(admitted) <= Capacity
    /\ count \in [Keys -> 0..MaxCount] /\ made \in [Keys -> 0..MaxCount]
    /\ lost \in [Keys -> 0..MaxLost]
    /\ lru \in BOOLEAN /\ rewound \in BOOLEAN
    /\ scrape \in {"idle", "next", "read", "emit"}
    /\ cursor \in {<<>>} \cup {<<k>> : k \in Keys}
    /\ rows \in Seq([labels : LabelSets, value : 0..MaxCount]) /\ Len(rows) <= MaxRows
    /\ scrape = "read" =>
          cursor # <<>> /\ LabelsOf[Head(cursor)] # Skip /\ Len(rows) < MaxRows
    /\ floor \in [Keys -> 0..MaxCount]
    /\ DOMAIN exported \subseteq LabelSets
    /\ \A l \in DOMAIN exported : exported[l] \in Nat

\* What a scrape sends for a set of labels is never more than the programs
\* counted for it, and for the label sets that join to the same text, unless an
\* LRU map evicted the key the iterator held: then the walk begins again and
\* keys are added twice.
NeverInflated ==
    scrape = "emit" /\ ~rewound =>
        \A l \in DOMAIN Aggregate(rows) : Aggregate(rows)[l] <= Total(made, l)

\* A scrape of a map that the programs go on changing, and walk again after
\* an eviction, still reports every counter the map held all the time, with
\* at least the value it had when the scrape began, in one series only: its
\* own, or that of a label set that joins to the same text.
NothingMissed ==
    scrape = "emit" =>
        \A l \in LabelSets :
            Total(floor, l) > 0 =>
                \E m \in DOMAIN Aggregate(rows) :
                    /\ Aggregate(rows)[m] >= Total(floor, l)
                    /\ \A n \in DOMAIN Aggregate(rows) : (Join[n] = Join[l]) = (n = m)

\* From one scrape of a map without evictions to the next that does not fail no
\* series disappears or goes down, as Prometheus expects of a counter.  A series
\* whose labels join to the same text as others may be taken over by one of
\* these, no lower.
SeriesNeverDecrease ==
    [][~lru =>
          \A l \in DOMAIN exported :
              \E m \in DOMAIN exported' : /\ Join[m] = Join[l]
                                         /\ exported'[m] >= exported[l]]_vars

\* A scrape of a map without evictions ends once it has begun, however fast the
\* programs add keys.
ScrapeEnds == (scrape = "next" /\ ~lru) ~> (scrape = "idle")

-----------------------------------------------------------------------------
\* The inductive strengthening.  The keys the walk is done with: those up to
\* the one the iterator holds, whose value may still have to be read.
Passed ==
    IF scrape = "emit" THEN Keys
    ELSE {k \in Keys : /\ cursor # <<>>
                       /\ \/ Position(k) < Position(Head(cursor))
                          \/ scrape = "next" /\ k = Head(cursor)}

KeysOrdered ==
    /\ SumFunction(lost) <= MaxLost
    /\ \A k \in Keys :
          /\ floor[k] <= count[k] /\ count[k] <= made[k]
          /\ k \notin admitted => count[k] = 0
          /\ ~lru => count[k] = made[k]

\* The rows of a series are worth at least what the keys passed held when the
\* scrape began and, unless the walk began again, no more than was counted.
WalkSums ==
    scrape # "idle" =>
        \A l \in LabelSets :
            /\ SumFunctionOnSet(floor, Joined(l) \cap Passed) <= RowSum(rows, l)
            /\ ~rewound => RowSum(rows, l) <= SumFunctionOnSet(made, Joined(l) \cap Passed)

\* Without evictions the walk never begins again and a row's key stays.
WalkStable ==
    ~lru =>
        /\ ~rewound
        /\ cursor # <<>> => Head(cursor) \in admitted
        /\ \A i \in DOMAIN rows : \E k \in admitted : LabelsOf[k] = rows[i].labels

\* Without evictions a series exported before has a key the walk finds again,
\* and is worth no more than the map held when the scrape began.
ExportedIsOld ==
    ~lru =>
        \A l \in DOMAIN exported :
            /\ exported[l] <= Total(IF scrape = "idle" THEN count ELSE floor, l)
            /\ Joined(l) \cap admitted # {}
            /\ scrape # "idle" =>
                   Series(rows, l) # {} \/ (Joined(l) \cap admitted) \ Passed # {}

ScrapeInv == TypeOK /\ KeysOrdered /\ WalkSums /\ WalkStable /\ ExportedIsOld

=============================================================================
