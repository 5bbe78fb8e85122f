---------------------------- MODULE PerfEventSink ----------------------------
(***************************************************************************)
(* Counters fed by a perf event array (exporter/perf_event_array.go): the  *)
(* programs write events to a ring; the polling goroutine hands them over  *)
(* unbuffered channels to one goroutine that decodes and counts events and *)
(* one that counts lost ones; a ticker replaces the counters by new ones;  *)
(* scrapes read them.                                                      *)
(*                                                                         *)
(* The ring and the polling goroutine belong to the kernel and libbpfgo.   *)
(* The ring notes how many events it had no room for and puts a record of  *)
(* that number before the next event it accepts.                           *)
(***************************************************************************)
EXTENDS Naturals, Sequences, FiniteSets, SequencesExt, Functions

CONSTANTS
    EventLabels,   \* label values that events decode to
    Skipped,       \* an event whose labels a decoder skips
    Undecodable,   \* an event a decoder fails on
    Kinds,         \* the kinds of event the programs write
    RingSize,
    MaxEvents,     \* bound of the model: events written
    MaxFlushes     \* bound of the model: ticks of the flush timer

\* An event has a fixed size, so there are finitely many; its labels are
\* decoded, or skipped, or fail to be decoded.
ASSUME KindsAssumption ==
    /\ Kinds \subseteq EventLabels \cup {Skipped, Undecodable}
    /\ IsFiniteSet(EventLabels)
    /\ {Skipped, Undecodable} \cap EventLabels = {} /\ Skipped # Undecodable
ASSUME RingAssumption == RingSize \in Nat \ {0}
ASSUME EventsAssumption == MaxEvents \in Nat

VARIABLES
    ring,         \* records in the ring, oldest first
    unreported,   \* events lost since the last record of lost events
    polled,       \* the record the polling goroutine is sending, if any
    receiver,     \* the receiving goroutine
    vecs,         \* every counterVec so far, the last one in use
    dropCounter,
    scraped,      \* what the last scrape sent
    crashed,      \* the process has panicked
    written,      \* history: events written, by kind
    skips         \* history: events skipped

sinkVars ==
    <<ring, unreported, polled, receiver, vecs, dropCounter,
      scraped, crashed, written, skips>>

NoRecord == [none |-> TRUE]
EventRecord(e) == [event |-> e]
LostRecord(n) == [lost |-> n]
IsLost(rec) == "lost" \in DOMAIN rec

Idle == [at |-> "idle"]
EmptyVec == [l \in EventLabels |-> 0]
Epoch == Len(vecs)

SinkInit ==
    /\ ring = <<>>
    /\ unreported = 0
    /\ polled = NoRecord
    /\ receiver = Idle
    /\ vecs = <<EmptyVec>>
    /\ dropCounter = 0
    /\ scraped = [epoch |-> 1, counts |-> EmptyVec]
    /\ crashed = FALSE
    /\ written = [k \in Kinds |-> 0]
    /\ skips = 0

Sum(f) == SumFunction(f)

-----------------------------------------------------------------------------
\* Mutants of Write: one record more than the ring has room for, and events
\* lost that are never reported.
WriteOverfull(e) ==
    /\ Sum(written) < MaxEvents
    /\ written' = [written EXCEPT ![e] = @ + 1]
    /\ LET new == (IF unreported > 0 THEN <<LostRecord(unreported)>> ELSE <<>>)
                    \o <<EventRecord(e)>>
       IN  IF Len(ring) <= RingSize
           THEN ring' = ring \o new /\ unreported' = 0
           ELSE ring' = ring /\ unreported' = unreported + 1
    /\ UNCHANGED <<polled, receiver, vecs, dropCounter, scraped, crashed, skips>>

WriteForgetsLost(e) ==
    /\ Sum(written) < MaxEvents
    /\ written' = [written EXCEPT ![e] = @ + 1]
    /\ ring' = IF Len(ring) < RingSize THEN Append(ring, EventRecord(e)) ELSE ring
    /\ UNCHANGED <<unreported, polled, receiver, vecs, dropCounter, scraped, crashed,
                   skips>>

\* A program, such as oomkill for every process it kills, calls
\* bpf_perf_event_output, and does not look at the result.
Write(e) ==
    /\ Sum(written) < MaxEvents
    /\ written' = [written EXCEPT ![e] = @ + 1]
    /\ LET new == (IF unreported > 0 THEN <<LostRecord(unreported)>> ELSE <<>>)
                    \o <<EventRecord(e)>>
       IN  IF Len(ring) + Len(new) <= RingSize
           THEN ring' = ring \o new /\ unreported' = 0
           ELSE ring' = ring /\ unreported' = unreported + 1
    /\ UNCHANGED <<polled, receiver, vecs, dropCounter, scraped, crashed, skips>>

\* Mutant of Poll: the record stays in the ring.
PollKeeps ==
    /\ ~crashed
    /\ polled = NoRecord
    /\ ring # <<>>
    /\ polled' = Head(ring)
    /\ UNCHANGED <<ring, unreported, receiver, vecs, dropCounter, scraped, crashed,
                   written, skips>>

\* The polling goroutine takes a record and blocks until it is received.
Poll ==
    /\ ~crashed
    /\ polled = NoRecord
    /\ ring # <<>>
    /\ polled' = Head(ring)
    /\ ring' = Tail(ring)
    /\ UNCHANGED <<unreported, receiver, vecs, dropCounter, scraped, crashed,
                   written, skips>>

ReceiveLost ==
    /\ ~crashed
    /\ polled # NoRecord /\ IsLost(polled)
    /\ dropCounter' = dropCounter + polled.lost
    /\ polled' = NoRecord
    /\ UNCHANGED <<ring, unreported, receiver, vecs, scraped, crashed, written, skips>>

Receive ==
    /\ ~crashed
    /\ polled # NoRecord /\ ~IsLost(polled)
    /\ receiver = Idle
    /\ receiver' = [at |-> "decode", event |-> polled.event]
    /\ polled' = NoRecord
    /\ UNCHANGED <<ring, unreported, vecs, dropCounter, scraped, crashed, written, skips>>

\* Mutant of Decode: the goroutine ends at a skipped label set.
DecodeStopsAtSkip ==
    /\ ~crashed
    /\ receiver.at = "decode"
    /\ receiver' = IF receiver.event = Skipped THEN [receiver EXCEPT !.at = "ended"]
                   ELSE [at |-> "inc", event |-> receiver.event, vec |-> Epoch]
    /\ UNCHANGED <<ring, unreported, polled, vecs, dropCounter, scraped, crashed,
                   written, skips>>

\* DecodeLabels, then the load of sink.counterVec.  After a failure that is
\* only logged, WithLabelValues gets no labels and panics.
Decode ==
    /\ ~crashed
    /\ receiver.at = "decode"
    /\ CASE receiver.event = Skipped ->
              receiver' = Idle /\ skips' = skips + 1 /\ UNCHANGED crashed
         [] receiver.event = Undecodable ->
              crashed' = TRUE /\ UNCHANGED <<receiver, skips>>
         [] OTHER ->
              /\ receiver' = [at |-> "inc", event |-> receiver.event, vec |-> Epoch]
              /\ UNCHANGED <<skips, crashed>>
    /\ UNCHANGED <<ring, unreported, polled, vecs, dropCounter, scraped, written>>

\* WithLabelValues(...).Inc() on the counterVec loaded before.
Inc ==
    /\ ~crashed
    /\ receiver.at = "inc"
    /\ vecs' = [vecs EXCEPT ![receiver.vec][receiver.event] = @ + 1]
    /\ receiver' = Idle
    /\ UNCHANGED <<ring, unreported, polled, dropCounter, scraped, crashed, written, skips>>

\* Mutant of Flush: the counters in use are set to zero.
FlushInPlace ==
    /\ ~crashed
    /\ vecs' = [vecs EXCEPT ![Epoch] = EmptyVec]
    /\ UNCHANGED <<ring, unreported, polled, receiver, dropCounter, scraped, crashed,
                   written, skips>>

\* resetCounterVec, on the ticker and without a lock.
Flush ==
    /\ ~crashed
    /\ Epoch <= MaxFlushes
    /\ vecs' = Append(vecs, EmptyVec)
    /\ UNCHANGED <<ring, unreported, polled, receiver, dropCounter, scraped, crashed,
                   written, skips>>

\* Collect sends the counters in use, and nothing else.
Collect ==
    /\ ~crashed
    /\ scraped' = [epoch |-> Epoch, counts |-> Last(vecs)]
    /\ UNCHANGED <<ring, unreported, polled, receiver, vecs, dropCounter, crashed,
                   written, skips>>

SinkNext ==
    \/ \E e \in Kinds : Write(e)
    \/ Poll \/ ReceiveLost \/ Receive \/ Decode \/ Inc
    \/ Flush
    \/ Collect

SinkSpec == SinkInit /\ [][SinkNext]_sinkVars

\* The goroutines keep running; nothing makes programs write or anybody scrape.
SinkFairSpec ==
    SinkSpec /\ WF_sinkVars(Poll) /\ WF_sinkVars(ReceiveLost) /\ WF_sinkVars(Receive)
         /\ WF_sinkVars(Decode) /\ WF_sinkVars(Inc)

-----------------------------------------------------------------------------
Records(Numbers) == [event : Kinds] \cup [lost : Numbers]

Receivers ==
    {Idle} \cup [at : {"decode"}, event : Kinds]
           \cup [at : {"inc"}, event : Kinds \cap EventLabels, vec : 1..Epoch]

\* The types, when what is counted is one of Numbers.
Shapes(Numbers) ==
    /\ ring \in Seq(Records(Numbers)) /\ Len(ring) <= RingSize
    /\ unreported \in Numbers
    /\ polled \in Records(Numbers) \cup {NoRecord}
    /\ vecs \in Seq([EventLabels -> Numbers]) /\ vecs # <<>>
    /\ receiver \in Receivers
    /\ dropCounter \in Numbers
    /\ scraped \in [epoch : 1..Epoch, counts : [EventLabels -> Numbers]]
    /\ crashed \in BOOLEAN
    /\ written \in [Kinds -> Numbers]
    /\ skips \in Numbers

\* Type invariant (perf_event_array.go): nothing is counted more often than
\* events were written.
SinkTypeOK == Shapes(0..MaxEvents)

Counted(l) == Sum([i \in 1..Epoch |-> vecs[i][l]])

AllCounted == Sum([l \in EventLabels |-> Counted(l)])

\* Events on their way: in the ring, in the hands of the polling goroutine or
\* of the receiver.
Weight(rec) == IF IsLost(rec) THEN rec.lost ELSE 1

Underway ==
    Sum([i \in DOMAIN ring |-> Weight(ring[i])])
      + (IF polled = NoRecord THEN 0 ELSE Weight(polled))
      + (IF receiver = Idle THEN 0 ELSE 1)

\* Every event the programs wrote is on its way, counted in one of the
\* counterVecs, skipped, or counted as dropped, whatever the goroutines and the
\* flush do to each other.
EveryEventAccounted ==
    Sum(written) =
        Underway + unreported + dropCounter + skips + AllCounted

\* Between two flushes no scrape reports less than the one before.
ScrapesGrow ==
    [][scraped'.epoch = scraped.epoch =>
          \A l \in EventLabels : scraped'.counts[l] >= scraped.counts[l]]_sinkVars

\* No event is counted twice, or in the series of other labels.
CountedWasWritten ==
    \A l \in EventLabels \cap Kinds : Counted(l) <= written[l]

\* What is in the ring is received and settled in the end: the goroutines never
\* wait for each other in a circle and no event stops them.
EventsSettle == []<>(Underway = 0)

\* perf_event_array.go:52 logs that labels failed to decode: the exporter
\* goes on.
DecodeFailureIsSurvived == ~crashed

-----------------------------------------------------------------------------
\* The inductive strengthening.  What is on its way of one kind of event is not
\* counted yet.
Of(rec, e) == IF rec = EventRecord(e) THEN 1 ELSE 0

UnderwayOf(e) ==
    Sum([i \in DOMAIN ring |-> Of(ring[i], e)])
      + Of(polled, e)
      + (IF receiver # Idle /\ receiver.event = e THEN 1 ELSE 0)

KindsAccounted ==
    \A l \in EventLabels \cap Kinds : Counted(l) + UnderwayOf(l) <= written[l]

\* A scrape has reported no more than its counterVec has now.
ScrapedIsOld ==
    \A l \in EventLabels : scraped.counts[l] <= vecs[scraped.epoch][l]

SinkInv ==
    /\ Shapes(Nat)
    /\ Sum(written) <= MaxEvents
    /\ EveryEventAccounted
    /\ KindsAccounted
    /\ ScrapedIsOld

=============================================================================
