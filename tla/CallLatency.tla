----------------------------- MODULE CallLatency -----------------------------
(***************************************************************************)
(* The programs of examples/ that time one object from one function to     *)
(* another:                                                                *)
(*                                                                         *)
(*  - network-retransmission-time.bpf.c, from tcp_retransmit_skb to        *)
(*    tcp_cleanup_rbuf.  The object is a socket; both run under its lock.  *)
(*  - tcp-connection-consumption.bpf.c, from tcp_v4/v6_conn_request to     *)
(*    tcp_v4/v6_conn_established, keyed by the function's socket.  The     *)
(*    first is the listener's and runs without its lock, on any number of  *)
(*    CPUs at once, so it may read the clock before another CPU and store  *)
(*    the time after it, and while the socket is in the second probe.  The *)
(*    second is called for a socket on one CPU at a time.                  *)
(*  - shrinklat.bpf.c, from the entry of shrink_node to its return.  The   *)
(*    object is the thread; the kernel may miss any entry or return.  The  *)
(*    histogram is exp2, in an array map.                                  *)
(*                                                                         *)
(* The first two make linear histograms.  A CPU in one probe begins no     *)
(* other one.  MaxSlot is bucket_max of the .yaml file and HistCapacity    *)
(* the size of the histogram's map.                                        *)
(***************************************************************************)
EXTENDS LatencyProbe, Histogram

CONSTANT BucketMultiplier   \* of the linear programs

ASSUME MultiplierAssumption == BucketMultiplier \in Nat \ {0}

\* shrinklat's array: one element for each slot up to MAX_LATENCY_SLOT, 26.
ASSUME ArrayAssumption == Labels = {0} /\ HistCapacity = MaxSlot + 1 /\ MaxSlot > 0

VARIABLES
    program,    \* which program it is, fixed from Init on
    starting,   \* the time each CPU has read and is about to store
    measured    \* history: number of times measured

vars ==
    <<now, start, hist, wrapped, run, stamped, unsampled, starts,
      program, starting, measured>>

owned == <<program, starting, measured>>

Programs == {"connection", "retransmission", "shrinklat"}

\* One object is in one probe at a time, whichever it is.
Serial == program # "connection"

Linear == program # "shrinklat"

\* The map has the bucket for its whole key.
Net == 0

Config ==
    IF Linear
    THEN [type |-> "linear", min |-> 0, max |-> MaxSlot, multiplier |-> BucketMultiplier]
    ELSE [type |-> "exp2", min |-> 0, max |-> MaxSlot, multiplier |-> 1]

\* All the elements of an array map are there from the beginning, and no other
\* one can be added: it is a full map.
Array == [k \in {<<Net, slot>> : slot \in 0..MaxSlot} |-> 0]

Init ==
    /\ program \in Programs
    /\ ProbeInit(IF Linear THEN EmptyMap ELSE Array)
    /\ starting = [c \in Cpus |-> Idle]
    /\ measured = 0

\* The first probe of a program that nobody else disturbs.
StoreStart(o) ==
    /\ Serial
    /\ Probing(o) = {}
    /\ RecordStart(o)
    /\ UNCHANGED owned

\* That of tcp-connection-consumption reads the clock ...
ReadClock(c, o) ==
    /\ program = "connection"
    /\ run[c] = Idle /\ starting[c] = Idle
    /\ starts < MaxStarts
    /\ starts' = starts + 1
    /\ starting' = [starting EXCEPT ![c] = [at |-> "store", obj |-> o, ts |-> now]]
    /\ stamped' = [stamped EXCEPT ![o] = now]
    /\ UNCHANGED <<now, start, hist, wrapped, run, unsampled, program, measured>>

\* ... and then updates the map.
StoreClock(c) ==
    /\ starting[c] # Idle
    /\ start' = UpdateAny(start, starting[c].obj, starting[c].ts, StartCapacity)
    /\ unsampled' = unsampled \cup {starting[c].obj}
    /\ starting' = [starting EXCEPT ![c] = Idle]
    /\ UNCHANGED <<now, hist, wrapped, run, stamped, starts, program, measured>>

EndProbe(c, o) ==
    /\ Probing(o) = {}
    /\ starting[c] = Idle
    /\ LookupStart(c, o)
    /\ UNCHANGED owned

\* An element freed since the lookup may have been given a time that was read
\* before it, if the clock and the update are two steps.
PointedToLate(c) ==
    {run[c].ts} \cup {start[x] : x \in {y \in DOMAIN start : ~Held(c)}}

\* The linear programs read *pstart first and the clock after it.
ReadStart(c) ==
    /\ Running(c, "read")
    /\ \E ts \in (IF Serial THEN PointedTo(c) ELSE PointedToLate(c)),
          clock \in run[c].since..now :
          /\ Linear => ts <= clock
          /\ MeasureFrom(c, ts, clock)
    /\ UNCHANGED owned

\* A linear bucket has no upper limit.
LinearBucket(delta) == <<Net, delta \div BucketMultiplier>>

\* The latency is counted in its bucket.
CountOne(c) ==
    /\ \/ ~Linear /\ CountBucket(c, Net)
       \/ /\ Linear
          /\ Running(c, "bucket")
          /\ Increment(LinearBucket(run[c].delta), 1)
          /\ run' = [run EXCEPT ![c].at = "sum"]
          /\ unsampled' = unsampled \ {run[c].obj}
          /\ UNCHANGED <<now, start, stamped, starts>>
    /\ measured' = measured + 1
    /\ UNCHANGED <<program, starting>>

\* The second increment.  The linear programs add to the same key again, and
\* the array has no element for the sum slot.
CountTime(c) ==
    /\ \/ ~Linear /\ CountSum(c, Net)
       \/ /\ Linear
          /\ Running(c, "sum")
          /\ Increment(LinearBucket(run[c].delta), run[c].delta)
          /\ run' = [run EXCEPT ![c].at = "forget"]
          /\ UNCHANGED <<now, start, stamped, unsampled, starts>>
    /\ UNCHANGED owned

DeleteStart(c) == Forget(c) /\ UNCHANGED owned

Next ==
    \/ Tick /\ UNCHANGED owned
    \/ \E o \in Objects :
          StoreStart(o) \/ \E c \in Cpus : ReadClock(c, o) \/ EndProbe(c, o)
    \/ \E c \in Cpus :
          StoreClock(c) \/ ReadStart(c) \/ CountOne(c) \/ CountTime(c) \/ DeleteStart(c)

Spec == Init /\ [][Next]_vars

-----------------------------------------------------------------------------
Pending == {Idle} \cup [at : {"store"}, obj : Objects, ts : 0..now]

\* Type invariant; a start map that is full and a bucket map that is full
\* refuse keys and are never overfilled.
TypeOK ==
    /\ ProbeTypeOK
    /\ program \in Programs /\ measured \in Nat
    /\ starting \in [Cpus -> Pending]
    /\ Serial => \A c \in Cpus : starting[c] = Idle
    /\ ~Linear => DOMAIN hist = DOMAIN Array

Quiet == \A c \in Cpus : run[c] = Idle

\* A latency that network-retransmission-time or shrinklat counts is the time
\* since the first function was last entered for the object, whatever entries
\* a full start map has refused and whatever returns were missed.  Of
\* tcp-connection-consumption it does not hold: a start that read the clock
\* earlier may be the last to store its time (:42-43, :53-54).
FreshWhenSerial == Serial => FreshTimestamps

\* Every latency shrinklat has measured is in the exported histogram, however
\* long it was and although nobody looks whether the array has its slot
\* (shrinklat.bpf.c:49-54), as long as no counter exceeds a u64; the sum has
\* no slot there and is exported as 0.
EveryLatencyExported ==
    ~Linear /\ Quiet /\ wrapped = {} =>
        /\ Collect(hist, Config)[Net].count = measured
        /\ Collect(hist, Config)[Net].sum = 0

\* README.md:377-393 builds a linear histogram by adding up the map's buckets,
\* "because this is what prometheus expects": when no program is running, the
\* count exported is the number of times measured.
CountIsNumberOfEvents ==
    Linear /\ Quiet /\ hist # EmptyMap
        => Collect(hist, Config)[Net].count <= measured

-----------------------------------------------------------------------------
\* The inductive invariant.  The array has counted every latency at once.
AllCounted ==
    ~Linear /\ wrapped = {} => UpTo(BucketsOf(hist, Net), 0, MaxSlot) = measured

Inv == TypeOK /\ OnceInv /\ (Serial => ProbeInv) /\ AllCounted

=============================================================================
