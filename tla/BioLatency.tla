----------------------------- MODULE BioLatency -----------------------------
(***************************************************************************)
(* examples/biolatency.bpf.c: the latency of block requests.  The kernel's *)
(* block layer is outside the repository; it is modelled as the program    *)
(* relies on it.  A request is inserted in a queue or issued at once,      *)
(* issued, and completed, once or in several parts, by one CPU at a time.  *)
(* It may go back to the queue, and a queued request may be merged into    *)
(* another and vanish without a completion.  Its memory is then used for a *)
(* new request.                                                            *)
(***************************************************************************)
EXTENDS LatencyProbe

CONSTANT LabelOf    \* device and operation of each request

ASSUME LabelAssumption == LabelOf \in [Objects -> Labels]

\* MAX_LATENCY_SLOT is 27, the largest of the programs.
ASSUME SlotAssumption == MaxSlot <= 27

VARIABLE life       \* where the request is in the block layer

vars == <<now, start, hist, wrapped, run, stamped, unsampled, starts, life>>

Init == ProbeInit(EmptyMap) /\ life = [r \in Objects |-> "free"]

BlockRqInsert(r) ==
    /\ life[r] = "free"
    /\ life' = [life EXCEPT ![r] = "queued"]
    /\ RecordStart(r)

BlockRqIssue(r) ==
    /\ life[r] \in {"free", "queued"}
    /\ life' = [life EXCEPT ![r] = "issued"]
    /\ RecordStart(r)

\* block_rq_complete is called with the request still owned by the completer.
BlockRqComplete(c, r) ==
    /\ life[r] \in {"issued", "completed"}
    /\ Probing(r) = {}
    /\ life' = [life EXCEPT ![r] = "completed"]
    /\ LookupStart(c, r)

\* No program is attached to these events.
Requeue(r) ==
    /\ life[r] \in {"issued", "completed"}
    /\ Probing(r) = {}
    /\ life' = [life EXCEPT ![r] = "queued"]
    /\ UNCHANGED probeVars

Free(r) ==
    /\ life[r] \in {"queued", "completed"}
    /\ Probing(r) = {}
    /\ life' = [life EXCEPT ![r] = "free"]
    /\ UNCHANGED probeVars

Probe(c) ==
    /\ \/ Measure(c)
       \/ Running(c, "bucket") /\ CountBucket(c, LabelOf[run[c].obj])
       \/ Running(c, "sum") /\ CountSum(c, LabelOf[run[c].obj])
       \/ Forget(c)
    /\ UNCHANGED life

Next ==
    \/ Tick /\ UNCHANGED life
    \/ \E r \in Objects :
          \/ BlockRqInsert(r)
          \/ BlockRqIssue(r)
          \/ Requeue(r)
          \/ Free(r)
          \/ \E c \in Cpus : BlockRqComplete(c, r)
    \/ \E c \in Cpus : Probe(c)

Spec == Init /\ [][Next]_vars

-----------------------------------------------------------------------------
\* Type invariant (biolatency.bpf.c).
TypeOK ==
    /\ ProbeTypeOK /\ DOMAIN hist \subseteq HistKeys
    /\ life \in [Objects -> {"free", "queued", "issued", "completed"}]

Between(l) == DeltasOf({c \in Cpus : Running(c, "sum") /\ LabelOf[run[c].obj] = l})

\* The sum that biolatency exports for a device and operation is at least
\* what its buckets account for.
SumAtLeastBuckets == SumCoversBuckets(Between)

-----------------------------------------------------------------------------
\* The inductive strengthening of the four.  A request in the second probe is
\* owned by the CPU that completes it, so nothing else starts or forgets it.
Owned == \A c \in Cpus : run[c] # Idle => life[run[c].obj] = "completed"

SumsCovered == \A l \in Labels \ wrapped : Covered(hist, l, Between(l))

Inv == TypeOK /\ Owned /\ ProbeInv /\ SumsCovered

=============================================================================
