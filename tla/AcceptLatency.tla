---------------------------- MODULE AcceptLatency ----------------------------
(***************************************************************************)
(* examples/accept-latency.bpf.c: how long connections wait for accept().  *)
(* The TCP stack is outside the repository; it is modelled as the program  *)
(* relies on it.  A connection request is hashed when its SYN arrives,     *)
(* joins the accept queue of the listening socket when the handshake is    *)
(* over, and leaves it when a thread accepts it, or it times out in the    *)
(* handshake.  The second probe runs at the entry of inet_csk_accept,      *)
(* before the socket is locked, and reads the head of the queue there.     *)
(* Each thread that accepts runs on its own CPU while it is in the probe.  *)
(***************************************************************************)
EXTENDS LatencyProbe, Sequences

CONSTANT Port    \* the listening port, the histogram's label

ASSUME PortAssumption == Port \in Labels

\* MAX_LATENCY_SLOT is 26.
ASSUME AcceptSlotAssumption == MaxSlot <= 26

VARIABLES
    handshake,   \* requests hashed whose handshake is not over
    queue,       \* the accept queue
    accepting,   \* threads inside inet_csk_accept
    alone        \* history: those that were there alone from their entry on

acceptVars ==
    <<now, start, hist, wrapped, run, stamped, unsampled, starts,
      handshake, queue, accepting, alone>>

tcpVars == <<handshake, queue, accepting, alone>>

Queued == Range(queue)

AcceptInit ==
    /\ ProbeInit(EmptyMap)
    /\ handshake = {}
    /\ queue = <<>>
    /\ accepting = {}
    /\ alone = {}

\* inet_csk_reqsk_queue_hash_add
HashAdd(o) ==
    /\ o \notin handshake \cup Queued
    /\ handshake' = handshake \cup {o}
    /\ RecordStart(o)
    /\ UNCHANGED <<queue, accepting, alone>>

Establish(o) ==
    /\ o \in handshake
    /\ handshake' = handshake \ {o}
    /\ queue' = Append(queue, o)
    /\ UNCHANGED <<probeVars, accepting, alone>>

HandshakeTimeout(o) ==
    /\ o \in handshake
    /\ handshake' = handshake \ {o}
    /\ UNCHANGED <<probeVars, queue, accepting, alone>>

\* inet_csk_accept is entered.  An empty queue has no head to look up.
EnterAccept(c) ==
    /\ c \notin accepting
    /\ accepting' = accepting \cup {c}
    /\ alone' = IF accepting = {} THEN {c} ELSE {}
    /\ \/ queue = <<>> /\ UNCHANGED probeVars
       \/ queue # <<>> /\ LookupStart(c, Head(queue))
    /\ UNCHANGED <<handshake, queue>>

AcceptProbe(c) ==
    /\ \/ Measure(c)
       \/ CountBucket(c, Port)
       \/ CountSum(c, Port)
       \/ Forget(c)
    /\ UNCHANGED tcpVars

\* After the probe, the thread takes the head under the socket's lock, after
\* waiting for one if need be, or gives up on an empty queue.
LeaveAccept(c) ==
    /\ c \in accepting
    /\ run[c] = Idle
    /\ accepting' = accepting \ {c}
    /\ alone' = alone \ {c}
    /\ queue' = IF queue = <<>> THEN queue ELSE Tail(queue)
    /\ UNCHANGED <<probeVars, handshake>>

AcceptNext ==
    \/ Tick /\ UNCHANGED tcpVars
    \/ \E o \in Objects : HashAdd(o) \/ Establish(o) \/ HandshakeTimeout(o)
    \/ \E c \in Cpus : EnterAccept(c) \/ AcceptProbe(c) \/ LeaveAccept(c)

AcceptSpec == AcceptInit /\ [][AcceptNext]_acceptVars

-----------------------------------------------------------------------------
\* Type invariant (accept-latency.bpf.c).
AcceptTypeOK ==
    /\ ProbeTypeOK /\ DOMAIN hist \subseteq HistKeys
    /\ handshake \subseteq Objects
    /\ queue \in Seq(Objects \ handshake) /\ IsInjective(queue)
    /\ accepting \subseteq Cpus
    /\ alone \subseteq accepting

AcceptBetween(l) == DeltasOf({c \in Cpus : Running(c, "sum") /\ l = Port})

\* Until a counter of the port exceeds a u64, the sum exported for it is at
\* least what its buckets account for, even when several threads measure the
\* same connection.  A difference below zero counts in both as 2^64 ns, and a
\* thousand of them exceed the sum's u64 (accept-latency.bpf.c:54, :69).
AcceptSumAtLeastBuckets == SumCoversBuckets(AcceptBetween)

\* A thread that is alone in inet_csk_accept measures the time since its
\* connection was last hashed, and counts it once, whatever threads that were
\* not alone have done before.
ExactWhenAlone ==
    \A c \in alone :
        Running(c, "bucket") =>
            /\ run[c].delta <= now - stamped[run[c].obj]
            /\ run[c].obj \in unsampled

-----------------------------------------------------------------------------
\* The inductive strengthening of the three.  A run is a thread's that accepts;
\* a thread that is alone measures the head of the queue, which only it can
\* take, and whose entry nobody else replaces or deletes.
RunsAccept == \A c \in Cpus : run[c] # Idle => c \in accepting

AloneIsOne == \A c \in alone : accepting = {c}

AloneAtHead ==
    \A c \in alone :
        /\ run[c] # Idle => queue # <<>> /\ run[c].obj = Head(queue)
        /\ Running(c, "read") => PointerValid(c)

AcceptSumsCovered == \A l \in Labels \ wrapped : Covered(hist, l, AcceptBetween(l))

AcceptInv ==
    /\ AcceptTypeOK
    /\ EntriesInv
    /\ RunsAccept
    /\ AloneIsOne
    /\ AloneAtHead
    /\ ExactWhenAlone
    /\ AcceptSumsCovered

=============================================================================
