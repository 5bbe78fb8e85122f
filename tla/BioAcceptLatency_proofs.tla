---------------------- MODULE BioAcceptLatency_proofs ----------------------
(***************************************************************************)
(* Proofs about BioLatency and AcceptLatency, for any CPUs, objects,       *)
(* labels and capacities of the two maps.                                  *)
(*                                                                         *)
(* BioLatency: its type invariant, that a latency is measured from the     *)
(* last insert or issue of its request, that none is counted twice, and    *)
(* that the sum is at least what the buckets account for.  The block layer *)
(* lets a request be completed by one CPU at a time and does not insert or *)
(* issue it meanwhile, which is what the lemmas of LatencyProbe_proofs ask *)
(* for ProbeInv.                                                           *)
(*                                                                         *)
(* AcceptLatency: its type invariant, that a thread alone in inet_csk_     *)
(* accept measures its connection exactly once and from its last start,    *)
(* and the same about the sum.  Several threads may measure the same       *)
(* connection, so ProbeInv does not hold; what the argument needs of the   *)
(* start map, EntriesInv, does.                                            *)
(***************************************************************************)
EXTENDS BioLatency, AcceptLatency, LatencyProbe_proofs

LEMMA BetweenType ==
    ASSUME ProbeTypeOK, NEW l
    PROVE  Between(l) \in Nat
  BY DeltasType DEF Between

\* A step that leaves alone the histogram and what waits for the sum slot.
LEMMA SumsKept ==
    ASSUME SumsCovered, hist' = hist, wrapped' = wrapped,
           \A d \in Cpus : Running(d, "sum") \/ Running(d, "sum")' => run'[d] = run[d]
    PROVE  SumsCovered'
<1> SUFFICES ASSUME NEW l \in Labels \ wrapped' PROVE Covered(hist', l, Between(l)')
  BY DEF SumsCovered
<1> DEFINE cs == {c \in Cpus : Running(c, "sum") /\ LabelOf[run[c].obj] = l}
<1>1. cs' = cs
  BY DEF Running
<1>2. [c \in cs |-> run[c].delta] = [c \in cs' |-> run'[c].delta]
  BY <1>1
<1>3. Between(l)' = Between(l)
  BY <1>2 DEF Between, DeltasOf
<1> QED
  BY <1>3 DEF SumsCovered

\* A label whose counters have exceeded a u64 stays one.
LEMMA LabelStays ==
    ASSUME ProbeTypeOK, NEW c \in Cpus, NEW label, CountBucket(c, label) \/ CountSum(c, label),
           NEW l, l \notin wrapped'
    PROVE  l \notin wrapped
  BY DEF CountBucket, CountSum, Increment

\* A latency is counted and waits, or is added to the sum slot.
LEMMA SumsAfterBucket ==
    ASSUME Inv, NEW c \in Cpus, Running(c, "bucket"), CountBucket(c, LabelOf[run[c].obj])
    PROVE  SumsCovered'
<1> SUFFICES ASSUME NEW l \in Labels \ wrapped' PROVE Covered(hist', l, Between(l)')
  BY DEF SumsCovered
<1> DEFINE label == LabelOf[run[c].obj]
           cs == {d \in Cpus : Running(d, "sum") /\ LabelOf[run[d].obj] = l}
           after == {d \in Cpus : Running(d, "sum")' /\ LabelOf[run'[d].obj] = l}
<1>0. ProbeTypeOK /\ l \notin wrapped
  BY LabelStays DEF Inv, TypeOK
<1>1. ProbeTypeOK /\ Covered(hist, l, DeltasOf(cs))
  BY <1>0 DEF Inv, SumsCovered, Between
<1>2. after = IF l = label THEN cs \cup {c} ELSE cs
  <2>1. /\ \A d \in Cpus : d # c => run'[d] = run[d]
        /\ Running(c, "sum")' /\ run'[c].obj = run[c].obj
    BY <1>1, AdvanceFacts DEF CountBucket, Running
  <2> QED
    BY <2>1 DEF Running
<1>3. cs \in SUBSET Cpus /\ \A d \in cs : Running(d, "sum")
  OBVIOUS
<1>4. Between(l)' = SumFunction([d \in after |-> run'[d].delta])
  BY DEF Between, DeltasOf
<1> HIDE DEF label, cs, after
<1> QED
  BY <1>1, <1>2, <1>3, <1>4, SlotAssumption, CountBucketCovers DEF label

LEMMA SumsAfterSum ==
    ASSUME Inv, NEW c \in Cpus, Running(c, "sum"), CountSum(c, LabelOf[run[c].obj])
    PROVE  SumsCovered'
<1> SUFFICES ASSUME NEW l \in Labels \ wrapped' PROVE Covered(hist', l, Between(l)')
  BY DEF SumsCovered
<1> DEFINE label == LabelOf[run[c].obj]
           before == {d \in Cpus : Running(d, "sum") /\ LabelOf[run[d].obj] = l}
           cs == {d \in Cpus : Running(d, "sum")' /\ LabelOf[run'[d].obj] = l}
<1>0. ProbeTypeOK /\ l \notin wrapped
  BY LabelStays DEF Inv, TypeOK
<1>1. ProbeTypeOK /\ Covered(hist, l, DeltasOf(before))
  BY <1>0 DEF Inv, SumsCovered, Between
<1>2. /\ cs \in SUBSET (Cpus \ {c}) /\ \A d \in cs : Running(d, "sum")
      /\ before = IF l = label THEN cs \cup {c} ELSE cs
  <2>1. /\ \A d \in Cpus : d # c => run'[d] = run[d]
        /\ ~Running(c, "sum")'
    BY <1>1, AdvanceFacts DEF CountSum, Running
  <2> QED
    BY <2>1 DEF Running
<1>3. Between(l)' = SumFunction([d \in cs |-> run'[d].delta])
  BY DEF Between, DeltasOf
<1> HIDE DEF label, before, cs
<1> QED
  BY <1>1, <1>2, <1>3, SlotAssumption, CountSumCovers DEF label

-----------------------------------------------------------------------------
\* biolatency.

LEMMA InitInv == Init => Inv
<1> SUFFICES ASSUME Init PROVE Inv
  OBVIOUS
<1>1. DOMAIN EmptyMap = {} /\ IsFiniteSet({}) /\ Cardinality({}) = 0
  BY FS_EmptySet DEF EmptyMap
<1>2. ProbeInit(EmptyMap) /\ hist = EmptyMap
  BY DEF Init, ProbeInit
<1>3. ProbeInv
  BY <1>1, <1>2, CapacitiesAssumption, ProbeInitInv
<1>4. Owned
  BY DEF Init, ProbeInit, Owned
<1>5. SumsCovered
  BY <1>2, <1>3, BetweenType, SlotAssumption, CoveredEmpty
  DEF SumsCovered, ProbeInv, EntriesInv
<1> QED
  BY <1>1, <1>2, <1>3, <1>4, <1>5 DEF Inv, TypeOK, Init, ProbeInv, EntriesInv

\* A request that is queued or free is not in the second probe.
LEMMA NotProbed ==
    ASSUME Inv, NEW r \in Objects, life[r] \in {"free", "queued", "issued"}
    PROVE  Probing(r) = {}
  BY DEF Inv, Owned, Probing

\* One that is not in the second probe may go anywhere.
LEMMA OwnedKept ==
    ASSUME Inv, NEW r \in Objects, Probing(r) = {}, run' = run,
           NEW where, life' = [life EXCEPT ![r] = where]
    PROVE  Owned'
<1>1. \A d \in Cpus : run[d] # Idle => run[d].obj # r
  BY DEF Probing
<1> QED
  BY <1>1 DEF Inv, Owned, TypeOK

LEMMA InsertOrIssueStep ==
    ASSUME Inv, NEW r \in Objects, BlockRqInsert(r) \/ BlockRqIssue(r)
    PROVE  Inv'
<1> USE DEF Inv, BlockRqInsert, BlockRqIssue
<1>1. Probing(r) = {}
  BY NotProbed
<1>2. ProbeInv'
  BY <1>1, StartStep
<1>3. TypeOK'
  BY <1>2 DEF TypeOK, ProbeInv, EntriesInv, RecordStart
<1>4. Owned'
  BY <1>1, OwnedKept DEF RecordStart
<1>5. SumsCovered'
  BY SumsKept DEF RecordStart
<1> QED
  BY <1>2, <1>3, <1>4, <1>5

\* A request that no CPU is completing changes its place in the block layer.
LEMMA LifeStep ==
    ASSUME Inv, NEW r \in Objects, Requeue(r) \/ Free(r)
    PROVE  Inv'
<1> USE DEF Inv, Requeue, Free
<1>1. ProbeInv'
  BY ProbeStutter
<1>2. TypeOK'
  BY <1>1 DEF TypeOK, ProbeInv, EntriesInv, probeVars
<1>3. Owned'
  BY OwnedKept DEF probeVars
<1>4. SumsCovered'
  BY SumsKept DEF probeVars
<1> QED
  BY <1>1, <1>2, <1>3, <1>4

LEMMA CompleteStep ==
    ASSUME Inv, NEW c \in Cpus, NEW r \in Objects, BlockRqComplete(c, r)
    PROVE  Inv'
<1> USE DEF Inv, BlockRqComplete
<1>1. ProbeInv'
  BY LookupStep
<1>2. TypeOK'
  BY <1>1 DEF TypeOK, ProbeInv, EntriesInv, LookupStart
<1>3. \A d \in Cpus : run'[d] = run[d] \/ run'[d].obj = r
  BY DEF LookupStart, TypeOK, ProbeTypeOK
<1>4. Owned'
  BY <1>3 DEF Owned, TypeOK
<1>5. SumsCovered'
  BY OthersWait, SumsKept DEF TypeOK
<1> QED
  BY <1>1, <1>2, <1>4, <1>5

LEMMA ProbeStep ==
    ASSUME Inv, NEW c \in Cpus, Probe(c)
    PROVE  Inv'
<1>0. /\ ProbeInv /\ TypeOK /\ Owned /\ SumsCovered /\ ProbeTypeOK /\ life' = life
      /\ run[c].at \in {"bucket", "sum"} => run[c].obj \in Objects /\ run[c].delta \in Nat
  BY RunFields DEF Inv, TypeOK, Probe
<1>1. CASE Measure(c)
  <2>1. ProbeInv'
    BY <1>0, <1>1, MeasureStep
  <2>2. TypeOK'
    BY <1>0, <1>1, <2>1 DEF TypeOK, ProbeInv, EntriesInv, Measure, MeasureFrom
  <2>3. Owned'
    BY <1>0, <1>1, MeasureKeepsObjects DEF Owned
  <2>4. SumsCovered'
    BY <1>0, <1>1, OthersWait, SumsKept
  <2> QED
    BY <2>1, <2>2, <2>3, <2>4 DEF Inv
<1>2. CASE Running(c, "bucket") /\ CountBucket(c, LabelOf[run[c].obj])
  <2> DEFINE key == <<LabelOf[run[c].obj], CapSlot(run[c].delta)>>
  <2>1. CapSlot(run[c].delta) \in 0..MaxSlot
    BY <1>0, <1>2, CapSlotType DEF Running
  <2>2. key \in HistKeys
    BY <1>0, <1>2, <2>1, LabelAssumption, BoundsAssumption DEF HistKeys, SumSlot, Running
  <2>a. key[1] \in Labels
    BY <2>2 DEF HistKeys
  <2>3. /\ Increment(key, 1) /\ run' = [run EXCEPT ![c].at = "sum"]
        /\ unsampled' = unsampled \ {run[c].obj}
        /\ UNCHANGED <<now, start, stamped, starts>>
    BY <1>2 DEF CountBucket
  <2>4. ProbeInv'
    BY <1>0, <1>2, <2>a, <2>3, BucketStep
  <2>5. DOMAIN hist' \subseteq HistKeys
    BY <1>0, <2>2, <2>a, <2>3, IncrementFacts DEF TypeOK
  <2>6. \A d \in Cpus : d # c => run'[d] = run[d]
    BY <1>0, <2>3 DEF ProbeTypeOK
  <2>7. run[c] # Idle /\ run'[c].obj = run[c].obj
    BY <1>0, <1>2, <2>3, AdvanceFacts DEF Running
  <2>8. Owned'
    BY <1>0, <2>6, <2>7 DEF Owned
  <2>9. SumsCovered'
    BY <1>2, SumsAfterBucket
  <2> QED
    BY <1>0, <2>4, <2>5, <2>8, <2>9 DEF Inv, TypeOK, ProbeInv, EntriesInv
<1>3. CASE Running(c, "sum") /\ CountSum(c, LabelOf[run[c].obj])
  <2> DEFINE key == <<LabelOf[run[c].obj], SumSlot>>
  <2>1. key \in HistKeys
    BY <1>0, <1>3, LabelAssumption, BoundsAssumption DEF HistKeys, SumSlot, Running
  <2>a. key[1] \in Labels
    BY <2>1 DEF HistKeys
  <2>2. /\ Increment(key, run[c].delta) /\ run' = [run EXCEPT ![c].at = "forget"]
        /\ UNCHANGED <<now, start, stamped, unsampled, starts>>
    BY <1>3 DEF CountSum
  <2>3. ProbeInv'
    BY <1>0, <1>3, <2>a, <2>2, SumStep
  <2>4. DOMAIN hist' \subseteq HistKeys
    BY <1>0, <1>3, <2>1, <2>a, <2>2, IncrementFacts DEF TypeOK, Running
  <2>5. \A d \in Cpus : d # c => run'[d] = run[d]
    BY <1>0, <2>2 DEF ProbeTypeOK
  <2>6. run[c] # Idle /\ run'[c].obj = run[c].obj
    BY <1>0, <1>3, <2>2, AdvanceFacts DEF Running
  <2>7. Owned'
    BY <1>0, <2>5, <2>6 DEF Owned
  <2>8. SumsCovered'
    BY <1>3, SumsAfterSum
  <2> QED
    BY <1>0, <2>3, <2>4, <2>7, <2>8 DEF Inv, TypeOK, ProbeInv, EntriesInv
<1>4. CASE Forget(c)
  <2>1. ProbeInv'
    BY <1>0, <1>4, ForgetStep
  <2>2. TypeOK'
    BY <1>0, <1>4, <2>1 DEF TypeOK, ProbeInv, EntriesInv, Forget
  <2>3. \A d \in Cpus : run'[d] = IF d = c THEN Idle ELSE run[d]
    BY <1>0, <1>4 DEF Forget, ProbeTypeOK
  <2>4. Owned'
    BY <1>0, <2>3 DEF Owned
  <2>5. SumsCovered'
    BY <1>0, <1>4, OthersWait, SumsKept
  <2> QED
    BY <2>1, <2>2, <2>4, <2>5 DEF Inv
<1> QED
  BY <1>1, <1>2, <1>3, <1>4 DEF Probe

LEMMA NextInv == Inv /\ [Next]_vars => Inv'
<1> SUFFICES ASSUME Inv, [Next]_vars PROVE Inv'
  OBVIOUS
<1>1. CASE Tick /\ UNCHANGED life
  <2>1. ProbeInv'
    BY <1>1, TickStep DEF Inv
  <2>2. SumsCovered'
    BY <1>1, SumsKept DEF Inv, Tick
  <2> QED
    BY <1>1, <2>1, <2>2 DEF Inv, TypeOK, Owned, ProbeInv, EntriesInv, Tick
<1>2. ASSUME NEW r \in Objects, BlockRqInsert(r) \/ BlockRqIssue(r) PROVE Inv'
  BY <1>2, InsertOrIssueStep
<1>3. ASSUME NEW r \in Objects, Requeue(r) \/ Free(r) PROVE Inv'
  BY <1>3, LifeStep
<1>4. ASSUME NEW c \in Cpus, NEW r \in Objects, BlockRqComplete(c, r) PROVE Inv'
  BY <1>4, CompleteStep
<1>5. ASSUME NEW c \in Cpus, Probe(c) PROVE Inv'
  BY <1>5, ProbeStep
<1>6. CASE UNCHANGED vars
  <2>1. ProbeInv'
    BY <1>6, ProbeStutter DEF Inv, vars, probeVars
  <2>2. SumsCovered'
    BY <1>6, SumsKept DEF Inv, vars
  <2> QED
    BY <1>6, <2>1, <2>2 DEF Inv, TypeOK, Owned, ProbeInv, EntriesInv, vars
<1> QED
  BY <1>1, <1>2, <1>3, <1>4, <1>5, <1>6 DEF Next

LEMMA Invariant == Spec => []Inv
  BY InitInv, NextInv, PTL DEF Spec

\* Type correctness of biolatency: neither map outgrows its max_entries, every
\* latency is a natural number and every slot is one of the histogram's.
THEOREM TypeCorrect == Spec => []TypeOK
  BY Invariant, PTL DEF Inv

\* A latency counted is measured from the last insert or issue of the request,
\* whatever a full start map refused, whatever a merged request left behind.
THEOREM LatencyIsFresh == Spec => []FreshTimestamps
<1>1. Inv => FreshTimestamps
  BY DEF Inv, ProbeInv
<1> QED
  BY <1>1, Invariant, PTL

\* An insert or issue is counted in the histogram at most once, also when the
\* request completes in several parts or on several CPUs.
THEOREM NoDoubleCount == Spec => []SampledOnce
<1>1. Inv => SampledOnce
  BY DEF Inv, ProbeInv
<1> QED
  BY <1>1, Invariant, PTL

\* The sum exported for a device and operation is never below what its buckets
\* account for, up to the samples between their two increments, although a
\* full map may refuse a bucket, the sum slot or both, until one of their
\* counters exceeds a u64.
THEOREM SumNeverTooSmall == Spec => []SumAtLeastBuckets
<1>1. Inv => SumAtLeastBuckets
  BY DEF Inv, SumsCovered, Covered, SumAtLeastBuckets, SumCoversBuckets, ValueAt
<1> QED
  BY <1>1, Invariant, PTL

-----------------------------------------------------------------------------
\* accept-latency.
LEMMA AcceptBetweenType ==
    ASSUME ProbeTypeOK, NEW l
    PROVE  AcceptBetween(l) \in Nat
  BY DeltasType DEF AcceptBetween

LEMMA AcceptSumsKept ==
    ASSUME AcceptSumsCovered, hist' = hist, wrapped' = wrapped,
           \A d \in Cpus : Running(d, "sum") \/ Running(d, "sum")' => run'[d] = run[d]
    PROVE  AcceptSumsCovered'
<1> SUFFICES ASSUME NEW l \in Labels \ wrapped' PROVE Covered(hist', l, AcceptBetween(l)')
  BY DEF AcceptSumsCovered
<1> DEFINE cs == {c \in Cpus : Running(c, "sum") /\ l = Port}
<1>1. cs' = cs
  BY DEF Running
<1>2. [c \in cs |-> run[c].delta] = [c \in cs' |-> run'[c].delta]
  BY <1>1
<1>3. AcceptBetween(l)' = AcceptBetween(l)
  BY <1>2 DEF AcceptBetween, DeltasOf
<1> QED
  BY <1>3 DEF AcceptSumsCovered

LEMMA AcceptSumsAfterBucket ==
    ASSUME ProbeTypeOK, AcceptSumsCovered, NEW c \in Cpus, CountBucket(c, Port)
    PROVE  AcceptSumsCovered'
<1> SUFFICES ASSUME NEW l \in Labels \ wrapped' PROVE Covered(hist', l, AcceptBetween(l)')
  BY DEF AcceptSumsCovered
<1> DEFINE cs == {d \in Cpus : Running(d, "sum") /\ l = Port}
           after == {d \in Cpus : Running(d, "sum")' /\ l = Port}
<1>0. l \notin wrapped
  BY LabelStays
<1>1. Covered(hist, l, DeltasOf(cs))
  BY <1>0 DEF AcceptSumsCovered, AcceptBetween
<1>2. after = IF l = Port THEN cs \cup {c} ELSE cs
  <2>1. (\A d \in Cpus : d # c => run'[d] = run[d]) /\ Running(c, "sum")'
    BY AdvanceFacts DEF CountBucket, Running
  <2> QED
    BY <2>1 DEF Running
<1>3. cs \in SUBSET Cpus /\ \A d \in cs : Running(d, "sum")
  OBVIOUS
<1>4. AcceptBetween(l)' = SumFunction([d \in after |-> run'[d].delta])
  BY DEF AcceptBetween, DeltasOf
<1>5. MaxSlot <= 27
  BY AcceptSlotAssumption, BoundsAssumption
<1> HIDE DEF cs, after
<1> QED
  BY <1>1, <1>2, <1>3, <1>4, <1>5, CountBucketCovers

LEMMA AcceptSumsAfterSum ==
    ASSUME ProbeTypeOK, AcceptSumsCovered, NEW c \in Cpus, CountSum(c, Port)
    PROVE  AcceptSumsCovered'
<1> SUFFICES ASSUME NEW l \in Labels \ wrapped' PROVE Covered(hist', l, AcceptBetween(l)')
  BY DEF AcceptSumsCovered
<1> DEFINE before == {d \in Cpus : Running(d, "sum") /\ l = Port}
           cs == {d \in Cpus : Running(d, "sum")' /\ l = Port}
<1>0. l \notin wrapped
  BY LabelStays
<1>1. Covered(hist, l, DeltasOf(before))
  BY <1>0 DEF AcceptSumsCovered, AcceptBetween
<1>2. /\ cs \in SUBSET (Cpus \ {c}) /\ \A d \in cs : Running(d, "sum")
      /\ before = IF l = Port THEN cs \cup {c} ELSE cs
  <2>1. (\A d \in Cpus : d # c => run'[d] = run[d]) /\ ~Running(c, "sum")'
    BY AdvanceFacts DEF CountSum, Running
  <2> QED
    BY <2>1 DEF CountSum, Running
<1>3. AcceptBetween(l)' = SumFunction([d \in cs |-> run'[d].delta])
  BY DEF AcceptBetween, DeltasOf
<1>4. MaxSlot <= 27
  BY AcceptSlotAssumption, BoundsAssumption
<1> HIDE DEF before, cs
<1> QED
  BY <1>1, <1>2, <1>3, <1>4, CountSumCovers

LEMMA AcceptInitInv == AcceptInit => AcceptInv
<1> SUFFICES ASSUME AcceptInit PROVE AcceptInv
  OBVIOUS
<1>1. DOMAIN EmptyMap = {} /\ IsFiniteSet({}) /\ Cardinality({}) = 0
  BY FS_EmptySet DEF EmptyMap
<1>2. ProbeInit(EmptyMap) /\ hist = EmptyMap /\ run = [c \in Cpus |-> Idle]
  BY DEF AcceptInit, ProbeInit
<1>3. EntriesInv /\ ProbeTypeOK
  BY <1>1, <1>2, CapacitiesAssumption, EntriesInit DEF EntriesInv
<1>4. AcceptTypeOK
  BY <1>1, <1>2, <1>3 DEF AcceptTypeOK, AcceptInit, IsInjective
<1>5. RunsAccept /\ AloneIsOne /\ AloneAtHead /\ ExactWhenAlone
  BY <1>2 DEF RunsAccept, AloneIsOne, AloneAtHead, ExactWhenAlone, AcceptInit
<1>6. MaxSlot <= 27
  BY AcceptSlotAssumption, BoundsAssumption
<1>7. AcceptSumsCovered
  BY <1>2, <1>3, <1>6, AcceptBetweenType, CoveredEmpty DEF AcceptSumsCovered
<1> QED
  BY <1>3, <1>4, <1>5, <1>7 DEF AcceptInv

\* The head of the queue is a request whose handshake is over.
LEMMA HeadFacts ==
    ASSUME AcceptTypeOK, queue # <<>>
    PROVE  Head(queue) \in Objects /\ Head(queue) \notin handshake /\ Head(queue) \in Queued
  BY DEF AcceptTypeOK, Queued, Range

\* A thread that is alone is the only one with a run.
LEMMA OnlyRun ==
    ASSUME AcceptInv, NEW c \in Cpus, run[c] # Idle \/ c \in accepting, NEW d \in alone
    PROVE  c = d
  BY DEF AcceptInv, RunsAccept, AloneIsOne

LEMMA HashAddStep ==
    ASSUME AcceptInv, NEW o \in Objects, HashAdd(o)
    PROVE  AcceptInv'
<1> USE DEF AcceptInv, HashAdd
<1>0. RecordStart(o) /\ run' = run /\ hist' = hist /\ wrapped' = wrapped /\ now' = now
  BY DEF RecordStart
<1>1. EntriesInv' /\ ProbeTypeOK'
  BY EntriesStart DEF EntriesInv
<1>2. AcceptTypeOK'
  <2>1. queue \in Seq(Objects \ (handshake \cup {o}))
    BY DEF AcceptTypeOK, Queued, Range
  <2> QED
    BY <1>0, <1>1, <2>1 DEF AcceptTypeOK
<1>3. RunsAccept' /\ AloneIsOne'
  BY <1>0 DEF RunsAccept, AloneIsOne
<1>4. \A c \in alone : run[c] # Idle => run[c].obj # o
  BY HeadFacts DEF AloneAtHead
<1>5. AloneAtHead'
  <2> SUFFICES ASSUME NEW c \in alone, Running(c, "read") PROVE PointerValid(c)'
    BY <1>0 DEF AloneAtHead, Running
  <2>1. PointerValid(c) /\ run[c].obj # o
    BY <1>4 DEF AloneAtHead, Running, Idle
  <2>2. /\ DOMAIN start \subseteq DOMAIN start'
        /\ \A x \in DOMAIN start : x # o => start'[x] = start[x]
    BY <1>0, StartFacts DEF AcceptTypeOK
  <2> QED
    BY <1>0, <2>1, <2>2 DEF PointerValid
<1>6. ExactWhenAlone'
  <2>1. \A c \in alone : Running(c, "bucket") => run[c].obj # o
    BY <1>4 DEF Running, Idle
  <2>2. /\ \A x \in Objects : x # o => stamped'[x] = stamped[x]
        /\ unsampled \subseteq unsampled'
    BY <1>0 DEF RecordStart, AcceptTypeOK, ProbeTypeOK
  <2>3. \A c \in alone : Running(c, "bucket") => run[c].obj \in Objects
    BY RunFields DEF AcceptTypeOK, Running
  <2> QED
    BY <1>0, <2>1, <2>2, <2>3 DEF ExactWhenAlone, Running
<1>7. AcceptSumsCovered'
  BY <1>0, AcceptSumsKept
<1> QED
  BY <1>1, <1>2, <1>3, <1>5, <1>6, <1>7

\* The handshake ends, one way or the other.
LEMMA HandshakeStep ==
    ASSUME AcceptInv, NEW o \in Objects, Establish(o) \/ HandshakeTimeout(o)
    PROVE  AcceptInv'
<1> USE DEF AcceptInv
<1>0. /\ UNCHANGED probeVars /\ UNCHANGED <<accepting, alone>>
      /\ o \in handshake /\ handshake' = handshake \ {o}
      /\ queue' = queue \/ queue' = Append(queue, o)
  BY DEF Establish, HandshakeTimeout
<1>1. EntriesInv'
  BY <1>0, EntriesStutter
<1>2. queue' \in Seq(Objects \ handshake') /\ IsInjective(queue')
  <2>1. queue \in Seq(Objects \ handshake) /\ IsInjective(queue)
    BY DEF AcceptTypeOK
  <2>2. queue \in Seq(Objects \ handshake')
    BY <1>0, <2>1
  <2>3. CASE queue' = queue
    BY <2>1, <2>2, <2>3
  <2>4. CASE queue' = Append(queue, o)
    <3>1. queue' \in Seq(Objects \ handshake')
      BY <1>0, <2>2, <2>4
    <3>2. \A i \in DOMAIN queue : queue[i] # o
      BY <1>0, <2>1
    <3>3. IsInjective(queue')
      BY <2>1, <2>4, <3>2 DEF IsInjective
    <3> QED
      BY <3>1, <3>3
  <2> QED
    BY <1>0, <2>3, <2>4
<1>3. AcceptTypeOK'
  BY <1>0, <1>1, <1>2 DEF AcceptTypeOK, EntriesInv, probeVars
<1>4. queue # <<>> => queue' # <<>> /\ Head(queue') = Head(queue)
  BY <1>0 DEF AcceptTypeOK
<1>5. RunsAccept' /\ AloneIsOne' /\ ExactWhenAlone'
  BY <1>0 DEF RunsAccept, AloneIsOne, ExactWhenAlone, Running, probeVars
<1>6. AloneAtHead'
  BY <1>0, <1>4 DEF AloneAtHead, Running, PointerValid, probeVars
<1>7. AcceptSumsCovered'
  BY <1>0, AcceptSumsKept DEF probeVars
<1> QED
  BY <1>1, <1>3, <1>5, <1>6, <1>7

\* A thread enters.  It looks up the head of the queue, or nothing.
LEMMA EnterStep ==
    ASSUME AcceptInv, NEW c \in Cpus, EnterAccept(c)
    PROVE  AcceptInv'
<1> USE DEF AcceptInv, EnterAccept
<1> DEFINE o == Head(queue)
           rec == [at |-> "read", obj |-> o, ts |-> start[o], since |-> now]
<1>0. /\ c \notin accepting /\ accepting' = accepting \cup {c} /\ run[c] = Idle
      /\ UNCHANGED <<now, start, hist, wrapped, stamped, unsampled, handshake, queue>>
      /\ alone' = IF accepting = {} THEN {c} ELSE {}
  BY DEF RunsAccept, LookupStart, probeVars
<1>1. \/ run' = run
      \/ /\ queue # <<>> /\ o \in DOMAIN start
         /\ \A d \in Cpus : run'[d] = IF d = c THEN rec ELSE run[d]
  <2>1. CASE UNCHANGED probeVars
    BY <2>1 DEF probeVars
  <2>2. CASE queue # <<>> /\ LookupStart(c, o) /\ o \in DOMAIN start
    BY <2>2, LookupFacts DEF AcceptTypeOK
  <2>3. CASE LookupStart(c, o) /\ o \notin DOMAIN start
    BY <2>3 DEF LookupStart
  <2> QED
    BY <2>1, <2>2, <2>3
<1>2. EntriesInv'
  BY EntriesStutter, EntriesLookup
<1>3. AcceptTypeOK'
  BY <1>0, <1>2 DEF AcceptTypeOK, EntriesInv
<1>4. RunsAccept' /\ AloneIsOne'
  BY <1>0, <1>1 DEF RunsAccept, AloneIsOne
<1>5. AloneAtHead' /\ ExactWhenAlone'
  <2> SUFFICES ASSUME NEW d \in alone'
               PROVE  /\ run'[d] # Idle => queue' # <<>> /\ run'[d].obj = Head(queue')
                      /\ Running(d, "read")' => PointerValid(d)'
                      /\ ~Running(d, "bucket")'
    BY DEF AloneAtHead, ExactWhenAlone
  <2>1. d = c
    BY <1>0
  <2>2. CASE run' = run
    BY <1>0, <2>1, <2>2 DEF Running, Idle
  <2>3. CASE queue # <<>> /\ o \in DOMAIN start /\ run'[c] = rec
    <3>1. start[o] <= now /\ now <= now
      BY <2>3, BoundsAssumption DEF EntriesInv, ProbeTypeOK, Times
    <3> QED
      BY <1>0, <2>1, <2>3, <3>1 DEF Running, PointerValid
  <2> QED
    BY <1>1, <2>2, <2>3
<1>6. AcceptSumsCovered'
  <2>1. \A d \in Cpus : Running(d, "sum") \/ Running(d, "sum")' => run'[d] = run[d]
    BY <1>0, <1>1 DEF Running, Idle
  <2> QED
    BY <1>0, <2>1, AcceptSumsKept
<1> QED
  BY <1>2, <1>3, <1>4, <1>5, <1>6

\* The time a thread that is alone reads is that of the last start, and nobody
\* has counted it: a run that has would be another thread's.
LEMMA AcceptMeasureStep ==
    ASSUME AcceptInv, NEW c \in Cpus, Measure(c), UNCHANGED tcpVars
    PROVE  AcceptInv'
<1> USE DEF AcceptInv
<1>0. /\ EntriesInv' /\ EntriesInv /\ ProbeTypeOK /\ run[c].at = "read" /\ run[c] # Idle
      /\ UNCHANGED <<now, start, hist, wrapped, stamped, unsampled, handshake, queue, accepting, alone>>
  <2>1. EntriesInv' /\ EntriesInv /\ ProbeTypeOK
    BY EntriesMeasure DEF EntriesInv
  <2>2. run[c].at = "read" /\ run[c] # Idle
    BY DEF Measure, Running, Idle
  <2> QED
    BY <2>1, <2>2 DEF Measure, MeasureFrom, tcpVars
<1>1. PICK rec : /\ rec.at = "bucket" /\ rec.obj = run[c].obj /\ rec # Idle
                 /\ \A d \in Cpus : run'[d] = IF d = c THEN rec ELSE run[d]
  BY <1>0, MeasureFacts
<1>2. AcceptTypeOK'
  BY <1>0 DEF AcceptTypeOK, EntriesInv
<1>3. RunsAccept' /\ AloneIsOne'
  BY <1>0, <1>1 DEF RunsAccept, AloneIsOne
<1>4. AloneAtHead' /\ ExactWhenAlone'
  <2> SUFFICES ASSUME NEW d \in alone
               PROVE  /\ run'[d] # Idle => queue # <<>> /\ run'[d].obj = Head(queue)
                      /\ ~Running(d, "read")'
                      /\ (run[d].delta <= now - stamped[run[d].obj])'
                      /\ run'[d].obj \in unsampled
    BY <1>0 DEF AloneAtHead, ExactWhenAlone
  <2>1. d = c
    BY <1>0, OnlyRun
  <2>2. queue # <<>> /\ run[c].obj = Head(queue) /\ PointerValid(c)
    BY <1>0, <2>1 DEF AloneAtHead, Running
  <2>3. (run[c].delta <= now - stamped[run[c].obj])'
    BY <1>0, <2>2, MeasuredIsFresh
  <2>4. ~\E e \in Cpus : run[e].at \in {"sum", "forget"}
    BY <1>0, <2>1, OnlyRun, RunFields
  <2>5. run[c].obj \in unsampled
    BY <1>0, <2>2, <2>4 DEF EntriesInv, SampledEntriesGo, PointerValid
  <2> QED
    BY <1>1, <2>1, <2>2, <2>3, <2>5 DEF Running
<1>5. AcceptSumsCovered'
  BY <1>0, OthersWait, AcceptSumsKept
<1> QED
  BY <1>0, <1>2, <1>3, <1>4, <1>5

\* The other steps of a run: it has measured already.
LEMMA AcceptCountStep ==
    ASSUME AcceptInv, NEW c \in Cpus, CountBucket(c, Port) \/ CountSum(c, Port),
           UNCHANGED tcpVars
    PROVE  AcceptInv'
<1> USE DEF AcceptInv
<1>0. /\ EntriesInv /\ ProbeTypeOK /\ run[c].at \in {"bucket", "sum"}
      /\ UNCHANGED <<handshake, queue, accepting, alone>>
  BY DEF CountBucket, CountSum, Running, tcpVars, EntriesInv
<1>1. /\ \A d \in Cpus : d # c => run'[d] = run[d]
      /\ run'[c].at \in {"sum", "forget"} /\ run'[c].obj = run[c].obj
      /\ run[c] # Idle
  BY <1>0, AdvanceFacts DEF CountBucket, CountSum
<1>2. PICK key \in HistKeys, n \in Nat : Increment(key, n)
  <2>1. run[c].delta \in Nat
    BY <1>0, RunFields
  <2>2. /\ <<Port, CapSlot(run[c].delta)>> \in HistKeys
        /\ <<Port, SumSlot>> \in HistKeys
    BY <2>1, CapSlotType, PortAssumption, BoundsAssumption DEF HistKeys, SumSlot
  <2> QED
    BY <2>1, <2>2 DEF CountBucket, CountSum
<1>3. EntriesInv'
  <2>1. \A s : <<Port, s>>[1] \in Labels
    BY PortAssumption
  <2> QED
    BY <1>0, <2>1, EntriesBucket, EntriesSum DEF CountBucket, CountSum
<1>4. AcceptTypeOK'
  <2>1. DOMAIN hist' \subseteq HistKeys
    BY <1>0, <1>2, IncrementFacts DEF AcceptTypeOK, HistKeys
  <2> QED
    BY <1>0, <1>3, <2>1 DEF AcceptTypeOK, EntriesInv
<1>5. RunsAccept' /\ AloneIsOne'
  BY <1>0, <1>1 DEF RunsAccept, AloneIsOne
<1>6. AloneAtHead' /\ ExactWhenAlone'
  <2> SUFFICES ASSUME NEW d \in alone
               PROVE  /\ run'[d] # Idle => queue # <<>> /\ run'[d].obj = Head(queue)
                      /\ ~Running(d, "read")' /\ ~Running(d, "bucket")'
    BY <1>0 DEF AloneAtHead, ExactWhenAlone
  <2>1. d = c
    BY <1>1, OnlyRun
  <2> QED
    BY <1>1, <2>1 DEF AloneAtHead, Running
<1>7. AcceptSumsCovered'
  BY <1>0, AcceptSumsAfterBucket, AcceptSumsAfterSum
<1> QED
  BY <1>3, <1>4, <1>5, <1>6, <1>7

LEMMA AcceptForgetStep ==
    ASSUME AcceptInv, NEW c \in Cpus, Forget(c), UNCHANGED tcpVars
    PROVE  AcceptInv'
<1> USE DEF AcceptInv
<1>0. /\ EntriesInv' /\ EntriesInv /\ ProbeTypeOK /\ run[c] # Idle
      /\ \A d \in Cpus : run'[d] = IF d = c THEN Idle ELSE run[d]
      /\ UNCHANGED <<now, hist, wrapped, stamped, unsampled, handshake, queue, accepting, alone>>
  <2>1. EntriesInv' /\ EntriesInv /\ ProbeTypeOK
    BY EntriesForget DEF EntriesInv
  <2>2. run[c] # Idle
    BY DEF Forget, Running, Idle
  <2>3. \A d \in Cpus : run'[d] = IF d = c THEN Idle ELSE run[d]
    BY <2>1, ForgetFacts
  <2> QED
    BY <2>1, <2>2, <2>3 DEF Forget, tcpVars
<1>1. AcceptTypeOK'
  BY <1>0 DEF AcceptTypeOK, EntriesInv
<1>2. RunsAccept' /\ AloneIsOne'
  BY <1>0 DEF RunsAccept, AloneIsOne
<1>3. \A d \in alone : d = c
  BY <1>0, OnlyRun
<1>4. AloneAtHead' /\ ExactWhenAlone'
  BY <1>0, <1>3 DEF AloneAtHead, ExactWhenAlone, Running, Idle
<1>5. AcceptSumsCovered'
  BY <1>0, OthersWait, AcceptSumsKept
<1> QED
  BY <1>0, <1>1, <1>2, <1>4, <1>5

\* A thread leaves with the head of the queue; if any thread is alone, it is
\* this one, and it is gone.
LEMMA LeaveStep ==
    ASSUME AcceptInv, NEW c \in Cpus, LeaveAccept(c)
    PROVE  AcceptInv'
<1> USE DEF AcceptInv, LeaveAccept
<1>0. UNCHANGED probeVars /\ run[c] = Idle /\ hist' = hist /\ wrapped' = wrapped /\ run' = run
  BY DEF probeVars
<1>1. EntriesInv'
  BY EntriesStutter
<1>2. queue' \in Seq(Objects \ handshake') /\ IsInjective(queue')
  <2>1. queue \in Seq(Objects \ handshake) /\ IsInjective(queue)
    BY DEF AcceptTypeOK
  <2>2. CASE queue = <<>>
    BY <2>1, <2>2
  <2>3. CASE queue # <<>>
    <3>1. queue' = Tail(queue) /\ Tail(queue) \in Seq(Objects \ handshake)
      BY <2>1, <2>3
    <3>2. IsInjective(Tail(queue))
      BY <2>1, <2>3 DEF IsInjective
    <3> QED
      BY <3>1, <3>2
  <2> QED
    BY <2>2, <2>3
<1>3. \A d \in alone : d = c
  BY OnlyRun
<1>4. AcceptTypeOK'
  <2>1. accepting' \subseteq Cpus /\ alone' \subseteq accepting'
    BY DEF AcceptTypeOK
  <2>2. DOMAIN hist' \subseteq HistKeys /\ handshake' \subseteq Objects
    BY <1>0 DEF AcceptTypeOK
  <2>3. ProbeTypeOK'
    BY <1>1 DEF EntriesInv
  <2> QED
    BY <1>2, <2>1, <2>2, <2>3 DEF AcceptTypeOK
<1>5. RunsAccept' /\ AloneIsOne' /\ AloneAtHead' /\ ExactWhenAlone'
  BY <1>0, <1>3 DEF RunsAccept, AloneIsOne, AloneAtHead, ExactWhenAlone
<1>6. AcceptSumsCovered'
  BY <1>0, AcceptSumsKept
<1> QED
  BY <1>1, <1>4, <1>5, <1>6

LEMMA AcceptTickStep ==
    ASSUME AcceptInv, Tick, UNCHANGED tcpVars
    PROVE  AcceptInv'
<1> USE DEF AcceptInv
<1>0. EntriesInv' /\ ProbeTypeOK /\ hist' = hist /\ wrapped' = wrapped /\ run' = run
  BY EntriesTick DEF Tick, EntriesInv
<1>1. AcceptTypeOK' /\ RunsAccept' /\ AloneIsOne' /\ alone \subseteq Cpus
  BY <1>0 DEF AcceptTypeOK, EntriesInv, RunsAccept, AloneIsOne, tcpVars
<1>2. AloneAtHead'
  BY <1>0, <1>1, TickKeepsPointer DEF AloneAtHead, Running, tcpVars
<1>3. ExactWhenAlone'
  <2> SUFFICES ASSUME NEW c \in alone, Running(c, "bucket")
               PROVE  (run[c].delta <= now - stamped[run[c].obj])' /\ run[c].obj \in unsampled
    BY <1>0 DEF ExactWhenAlone, Running, Tick, tcpVars
  <2>1. run[c].delta <= now - stamped[run[c].obj] /\ run[c].obj \in unsampled
    BY DEF ExactWhenAlone
  <2> QED
    BY <1>0, <1>1, <2>1, TickKeepsPointer
<1>4. AcceptSumsCovered'
  BY <1>0, AcceptSumsKept
<1> QED
  BY <1>0, <1>1, <1>2, <1>3, <1>4

LEMMA AcceptStutter ==
    ASSUME AcceptInv, UNCHANGED acceptVars
    PROVE  AcceptInv'
<1> USE DEF AcceptInv, acceptVars
<1>1. EntriesInv'
  BY EntriesStutter DEF probeVars
<1>2. AcceptTypeOK' /\ RunsAccept' /\ AloneIsOne' /\ AloneAtHead' /\ ExactWhenAlone'
  BY <1>1 DEF AcceptTypeOK, EntriesInv, RunsAccept, AloneIsOne, AloneAtHead, ExactWhenAlone,
              Running, PointerValid
<1>3. AcceptSumsCovered'
  BY AcceptSumsKept
<1> QED
  BY <1>1, <1>2, <1>3

LEMMA AcceptNextInv == AcceptInv /\ [AcceptNext]_acceptVars => AcceptInv'
<1> SUFFICES ASSUME AcceptInv, [AcceptNext]_acceptVars PROVE AcceptInv'
  OBVIOUS
<1>1. CASE Tick /\ UNCHANGED tcpVars
  BY <1>1, AcceptTickStep
<1>2. ASSUME NEW o \in Objects, HashAdd(o) PROVE AcceptInv'
  BY <1>2, HashAddStep
<1>3. ASSUME NEW o \in Objects, Establish(o) \/ HandshakeTimeout(o) PROVE AcceptInv'
  BY <1>3, HandshakeStep
<1>4. ASSUME NEW c \in Cpus, EnterAccept(c) PROVE AcceptInv'
  BY <1>4, EnterStep
<1>5. ASSUME NEW c \in Cpus, AcceptProbe(c) PROVE AcceptInv'
  BY <1>5, AcceptMeasureStep, AcceptCountStep, AcceptForgetStep DEF AcceptProbe
<1>6. ASSUME NEW c \in Cpus, LeaveAccept(c) PROVE AcceptInv'
  BY <1>6, LeaveStep
<1>7. CASE UNCHANGED acceptVars
  BY <1>7, AcceptStutter
<1> QED
  BY <1>1, <1>2, <1>3, <1>4, <1>5, <1>6, <1>7 DEF AcceptNext

LEMMA AcceptInvariant == AcceptSpec => []AcceptInv
  BY AcceptInitInv, AcceptNextInv, PTL DEF AcceptSpec

\* Type correctness of accept-latency: the maps stay within their max_entries
\* and every key is one of the port's, whatever threads race for a connection.
THEOREM AcceptTypeCorrect == AcceptSpec => []AcceptTypeOK
<1>1. AcceptInv => AcceptTypeOK
  BY DEF AcceptInv
<1> QED
  BY <1>1, AcceptInvariant, PTL

\* A thread that is alone in inet_csk_accept from its entry on measures its
\* connection from the last time it was hashed, and counts it once, whatever
\* races there were before.
THEOREM AloneIsExact == AcceptSpec => []ExactWhenAlone
<1>1. AcceptInv => ExactWhenAlone
  BY DEF AcceptInv
<1> QED
  BY <1>1, AcceptInvariant, PTL

\* Threads that count the same connection twice count it twice in the bucket and
\* in the sum: until one of the port's counters exceeds a u64, the sum is never
\* below what the buckets account for.  Nothing is claimed of it afterwards.
THEOREM AcceptSumNeverTooSmall == AcceptSpec => []AcceptSumAtLeastBuckets
<1>1. AcceptInv => AcceptSumAtLeastBuckets
  BY DEF AcceptInv, AcceptSumsCovered, Covered, AcceptSumAtLeastBuckets,
         SumCoversBuckets, ValueAt
<1> QED
  BY <1>1, AcceptInvariant, PTL

=============================================================================
