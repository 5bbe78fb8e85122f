# A verification of LinMonitor

LinMonitor measures a Linux machine with eBPF programs and publishes what they
count to Prometheus. The programs and the exporter that loads them, reads their
maps and answers scrapes are in `src/dependencies/ebpf_exporter/` (below: `EE`;
its README is meant where no other is named). This directory holds TLA+
modules of the parts where several CPUs, threads or goroutines meet, the
configurations that model-check them with TLC, and theorems about each of them
that TLAPS checks for any number of CPUs, keys, threads and programs.

## The system

```
 kernel: kprobes, tracepoints, perf events       exporter (Go): one process
 +--------------------------------------+        +-----------------------------+
 | program --- start map (times)        |        | Attach: load, attach        |
 |    |                                 |        |                             |
 |    +-- increment_map --> counter map | <----- | scrape: walk, decode,       | <-- Prometheus
 |    |                     histogram   | syscall| aggregate, histogram        |
 |    +-- perf event output --> ring    | -----> | perf sink: count, flush     |
 +--------------------------------------+        +-----------------------------+
```

| component | state | operations | modules |
|---|---|---|---|
| Counter maps, `maps.bpf.h` | a BPF map of u64 | `increment_map` on any CPU | `BpfMaps`, `CounterMap`, `IncrementMap`, `CounterPrograms_proofs` |
| `bits.bpf.h` | none | `log2`, `log2l` | `Bits` |
| timers, raw-tracepoints, uprobe, usdt, cachestat, llcstat, tcp-syn-backlog | a counter map | one handler that increments, or two | `CounterPrograms`, `CounterPrograms_proofs` |
| biolatency | start map, histogram map | insert, issue, complete | `LatencyProbe`, `BioLatency`, `LatencyProbe_proofs`, `BioAcceptLatency_proofs` |
| accept-latency | the same | hash add, accept | `LatencyProbe`, `AcceptLatency`, `BioAcceptLatency_proofs` |
| tcp-connection-consumption, network-retransmission-time, shrinklat | the same | start, end | `LatencyProbe`, `CallLatency`, `LatencyExport_proofs` |
| tcp-window-clamps | LRU map of calls under way | enter, return | `WindowClamps`, `WindowClamps_proofs` |
| cgroup | LRU counter map | `do_count` | `MapScrape` |
| oomkill | perf event array | one event for each kill | `PerfEventSink` |
| Scrapes, `exporter.go` | cursor, rows | walk, read, aggregate, send | `MapScrape` over `CounterMap`, `Exporter_proofs` |
| Histograms, `histogram.go` | none | transform, collect | `Histogram`, `HistogramExport`, `LatencyExport_proofs` |
| Perf event sinks, `perf_event_array.go` | ring, channels, counterVec, drop counter | poll, decode, increment, flush, collect | `PerfEventSink`, `Exporter_proofs` |
| Start, `exporter.go`, `attach.go`, `perf_event.go` | modules, attachments, links | load, attach per program and CPU | `Attach`, `Exporter_proofs` |
| Decoder set, `decoder.go`, `cgroup.go` | mutex, cache | decode, refresh | `CgroupDecoder`, `CgroupDecoder_proofs` |

Not modelled: see the last sections.

**How they interact.** Programs and exporter share maps and nothing else: no
lock is held across a system call, so a scrape sees a map in the middle of
anything. Programs on different CPUs share maps and are ordered only by the
map helpers. In the exporter each scrape is a goroutine of its own; scrapes,
the `/maps` page and perf sinks share the decoders, which the mutex of
`decoder.Set` protects. A sink's `counterVec` is shared with nothing to protect it: a
flush assigns the pointer (perf_event_array.go:94) that a receiver and a scrape load.

**What is hard.** Two CPUs that create one key; a map that is full; an address
that is used again while an entry of its earlier use is still there; a pointer
into a map whose element another CPU frees; a walk over a map that changes;
an event counted in a `counterVec` that a flush has just replaced; goroutines
that wait for each other over unbuffered channels; a cache that is filled from
a directory tree that changes; a start in which any one call fails. What makes
each component correct is said below with its module. The file `PROJECT.json`
lists each hazard at its line.

## The modules

### IncrementMap, CounterMap (`examples/maps.bpf.h`)

`IncrementMap` is `increment_map` with one step per helper call: `Lookup`,
`Create` (update with `BPF_NOEXIST`), `Again` (second lookup), `Add` (the atomic
add). `table` is the map, `pc` and `call` are the calls in progress. `asked` and
`lost` are histories. `CounterMap` is what callers and the exporter rely on: a
key is admitted once and for good, every increment of an admitted key is one
step, and an increment is lost only when its key is not in a full map. `Abstract`
in `IncrementMap` is the refinement mapping: admitted keys are the domain of
`table`, counts are its values.

Properties: `AllOrNothing` (a counter that Prometheus sees has never lost an
increment), `Conservation` (asked = counted + lost + in flight),
`CountsNeverDecrease`, `ImplementsCounterMap`. The other modules take an
increment as one step because of the last.

### CounterPrograms (the callers of `increment_map`)

`CounterPrograms` EXTENDS `IncrementMap`: an action of it is a handler, whose body
is a `Lookup` with the key and the amount that handler passes; `Proceed` is the
rest of the call. `program`, fixed in `Init`, says whose map it is. `PageCacheOp` is
the four probes of cachestat, whose map has four elements; `NamedEvent` stands for
timers, raw-tracepoints, uprobe and usdt, which count whatever an event names;
`CacheEvent` is llcstat, with the CPU as the key and the sample period as the
amount; `SynRecv` and `AddBacklog` are the two increments of tcp-syn-backlog, where the
length is divided by 50 when it is read and again to find the bucket
(tcp-syn-backlog.bpf.c:30 and 19), and `next` holds the second amount between
them. llcstat's two maps are alike and one is modelled.

Properties: those of `IncrementMap` and `CompleteWhenItFits`: a program that asks for
no more keys than its map has elements loses nothing, although CPUs race to create
the last of them. cachestat.bpf.c:10 relies on exactly that.

### Bits, Histogram, HistogramExport (`bits.bpf.h`, `histogram.go`)

`Log2` is the shift cascade of the code; the assumption `Log2lIsHighestBit` of
`MCHistogramExport` compares it with the position of the highest bit on both
sides of every power of two in each half of a u64 (a u64 is given by its halves,
for TLC's integers have 32 bits); `Log2OfU64` is what it comes to, for a value given as
one number, and is what the models of programs use. `Histogram` has `transformHistogramDynamic`,
`transformHistogramFixed` and `collectHistograms` as operators on a map;
`HistogramExport` counts events as the programs do and exports the result. `config`
is chosen in `ExportInit`, so that one run covers an exp2 and a fixed histogram.

Properties: `ExportIsComplete` (count and sum of every series are those of the
events, none is lost to a bound or to the sum key) and `BucketsAreRanges`: the
cumulative bucket with the bound of key b holds exactly the events up to b in
a fixed histogram, and those **below 2^(b+1)** in an exp2 one. The second half
is not what the README says (README.md:424-427: key 3 "should count values for
(exp2(2), exp2(3)] interval"): a bucket filled with `log2l` is exported under the
bound at which it begins (see Findings). README.md:371 also ends its loop before
`bucket_max`, where the code includes it.

### LatencyProbe, BioLatency, AcceptLatency, CallLatency

`LatencyProbe` is the shape the latency programs share: `RecordStart` is the
first probe; `LookupStart`, `Measure`, `CountBucket`, `CountSum`, `Forget` are the
second one, a step for each thing it does to shared state. `run[c]` is the probe
CPU `c` is in. `PointedTo` is what dereferencing the pointer of the lookup may
give: the time found, or, once the entry is deleted or replaced, a time stored
since, for elements of a preallocated map are given out again at once. Differences
and counters are u64: `Elapsed` wraps in nanoseconds, before the division by 1000
(`NsPerUs`), so that a difference below zero is about `Wrap / NsPerUs`; the slot is `log2l`
of the whole of it. `Increment` takes the total modulo `Wrap`, and the history `wrapped` has
the labels of which a counter has exceeded a u64.

* `BioLatency` adds the block layer as `biolatency.bpf.c` relies on it: a request
  is inserted or issued, may be requeued, merged away or completed in parts, and
  its address is used again; one CPU at a time completes it. `FreshTimestamps`: a
  latency is never more than the time since the request was last inserted or
  issued, whatever an earlier use left in the map and whatever a full map
  refused. `SampledOnce`: an issue is counted at most once. `SumAtLeastBuckets`:
  the exported sum keeps up with the buckets although they are two increments,
  until a counter of the label exceeds a u64.
* `AcceptLatency` adds handshakes, the accept queue and threads. The probe runs at
  the entry of `inet_csk_accept`, before the socket is locked, so two threads can
  measure one connection, and one can read an element that has been given to a
  later connection; its difference may be below zero, which counts as 2^64 ns. A
  thousand of those exceed the u64 of the sum, and then the sum is below what the
  buckets stand for. `ExactWhenAlone` says exactly when a measurement is right;
  `AcceptSumAtLeastBuckets` says what holds even when it is not, until the sum has
  exceeded its u64.
  The time is taken when the request is hashed (accept-latency.bpf.c:36), so the
  metric includes the handshake, where accept-latency.yaml:4 speaks of the time
  "sockets sit in accept queue".
* `CallLatency` is the programs that time an object from one function to another:
  network-retransmission-time, whose functions run under the lock of the socket;
  tcp-connection-consumption, the same program on other functions; and shrinklat,
  from the entry of `shrink_node` to its return. `program`, fixed in `Init`, says which.
  Any entry or return may be missed. tcp-connection-consumption stores its start under
  the listening socket of `tcp_v4_conn_request`, which runs without the lock of that
  socket on any number of CPUs. So its first probe is two steps, `ReadClock` and
  `StoreClock`, which any CPU takes at any time, also while the socket is in the
  second probe. The last to store may have read the clock first, and then what is
  measured is longer than the time since the last start: `FreshWhenSerial`, that a
  latency is the time since the last start, speaks of the other two programs only.
  `SampledOnce` holds of all three. shrinklat's histogram is an array map with the
  slots up to the cap and none for the sum; an array is a full map from the
  beginning, so `Increment` refuses the sum. `EveryLatencyExported` composes the
  probe with `Histogram`: whatever has been measured is in the exported count, and
  the exported sum is 0 (until a counter exceeds a u64). The run `linear_count` shows that the two increments of
  the linear programs go to one key, so that the count of the exported histogram is
  not a number of events (see Findings). The linear bucket is not capped at
  `bucket_max` (tcp-connection-consumption.bpf.c:75), which README.md:419-420 calls
  important.

### WindowClamps (`tcp-window-clamps.bpf.c`)

The kprobe `Enter` leaves the call in an LRU map; the kretprobe is three steps:
`Find`, `Delete`, `Examine`, which reads the socket through the pointer after the
entry is gone (lines 83-87), so `found[x]` grows when the element is reused. A
context is a thread or the softirq of a CPU; `KeyOf` is `enter_key`, so the threads
of a process, and an interrupt on top of one, share a key. Then a return can take
the entry of another call: the clamp of another socket is counted. The kernel may
miss a kprobe (`Enter` without its update) and a return (`Miss`): when no kretprobe
instance is free, or when the call had been entered before the kretprobe was there,
for attach.go:13-27 attaches one program after the other. A missed return leaves the
entry, and `BPF_NOEXIST` (line 70) keeps it. What holds nonetheless: `EntriesAlive`, an
entry that outlives the call that made it is one whose own return was missed; and
`OwnEntry`, a context with a key of its own finds the entry of its own call, or none,
or that of an earlier call of its own whose return was missed, and each of these
misleads one later call at most.

### MapScrape (`exporter.go`)

`collectCounters`, `mapValues` and `aggregateMapValues` with a step for each
system call: `Begin`, `NextKey`, `ReadValue`, `EndOfMap`, `Emit`. The kernel's map is an
instance of `CounterMap`; `lru`, fixed in `Init`, adds `Evict`. When the key the
iterator holds is gone, the kernel begins again from the first key (`Following`,
`Rewinds`).

Properties: `NothingMissed` (what the map held all the time is reported with at
least its value at the beginning, also after a rewind), `NeverInflated` (no series
above what was counted, unless the walk was rewound: then a key is added twice,
which only an LRU map can cause), `SeriesNeverDecrease` and `ScrapeEnds` for a
map without evictions.

A decoder may skip a key or fail at it; a failure gives up the metric for this
scrape (exporter.go:401-406). `aggregateMapValues` adds up the rows whose labels are
the same text once joined with `|` (exporter.go:507), and `Join` is that text: a
label set of the instance is a sequence of sequences of characters, and `Web` and
`Lookalike` are different and join to the same. Their counters go to one series, under
the labels of whichever the walk met first, so the properties speak of all the
label sets of one text; for labels without a `|` that is one label set.
`SeriesNeverDecrease` says what is left then: the text never goes down, but the
series that carries it may change.

### PerfEventSink (`perf_event_array.go`)

`Write` is `bpf_perf_event_output`, as oomkill calls it, into the kernel's ring with
its records of lost events; `Poll` is libbpf's
goroutine, which blocks on an unbuffered channel; `Receive`, `Decode`, `Inc` and
`ReceiveLost` are the two receivers; `Flush` replaces the `counterVec` between
`Decode`'s load and `Inc`; `Collect` is a scrape. `vecs` keeps every `counterVec`, for
an increment may still reach one that was replaced.

Properties: `EveryEventAccounted`, `CountedWasWritten`, `ScrapesGrow` (between
two flushes) and, under fairness, `EventsSettle`. The number of dropped events is
kept in a counter that `Collect` does not send and that nobody registers.

The loads and the store of the pointer to the `counterVec` are one step each, in one
order for all goroutines. The code synchronises them with nothing
(perf_event_array.go:15, 55, 86, 94), which is a data race; see the last lines of Findings.

### CgroupDecoder (`decoder.go`, `cgroup.go`)

`Lock` to `Finish` is `Set.Decode`; `Hit`, `Miss`, `Visit`, `ReadDir`, `Settle` are the cgroup
decoder and the steps of its walk, while `Create` and `Remove` change cgroupfs. `todo` is
the set of places the walk has still to visit; a directory is asked for its id and
then read, and may go in between. A path is used again by a later cgroup, an id never.
Every call on cgroupfs may fail, for a directory that has gone, a permission or a
limit: `NameToHandleAt` fails in `Visit`, and that directory is skipped
(cgroup.go:63-67); reading a directory fails in `ReadDir`, or at once in `Miss`, and the
walk is over (cgroup.go:55-57).

Properties: `OneInDecoder` (the cache is a plain Go map), `PathIsKept`,
`DecodingEnds`, and `LivingIsKnown`: a cgroup that is there is decoded as unknown
only if the very walk made for it failed at its directory or before it (`cutOff`); no
failure of another goroutine's walk, and no change of the tree, does that. It is
then cached as unknown (cgroup.go:43) until another id makes the decoder walk again.

### Attach (`exporter.go`, `attach.go`, `perf_event.go`)

`Load`, `AttachGeneric`, `ParseSection`, `OpenOnCpu`, `Keep` and `Serve` are the start, in which
every call may fail. `links` are the kernel's, by program and CPU.

Properties: `AttachedRuns` (a program is reported as attached exactly if it runs
on every CPU) and `AttachedOnce`. A perf event program that fails on a later CPU
is reported as not attached and keeps running on the CPUs before, for nobody
destroys those links.

## The runs

| run | instance | what it shows |
|---|---|---|
| `counter_programs` | 3 CPUs, 2 or 3 keys by program, room for 2, amounts 0 to 2 | races to create a key, a full map, and one that is exactly full |
| `biolatency` | 2 CPUs, 3 requests of 2 labels, room for 2 starts and 4 of 6 histogram keys | reuse, requeue, merge, partial completion, both maps full |
| `accept` | 2 threads, 2 requests, room for 1, 4 starts, u64 of 6 values | overlapping probes, reused elements, differences below zero, a sum that overflows |
| `call_latency` | 2 CPUs, 3 sockets or threads, room for 2, 2 buckets, all three programs | starts repeated, missed, refused, overlapping, measured elsewhere; the array without a sum |
| `linear_count` | the same | violation, see Findings |
| `histogram` | exp2 and fixed, 2 series, 3 events, values around the bounds | completeness and ranges; see Findings |
| `window_clamps` | 2 threads that share a key, 2 contexts that do not, room for 2, 4 calls | eviction, overlap, reuse, missed probes and returns |
| `scrape` | 4 keys, 2 of them with labels that join to one text and 1 skipped, room for 3, hash and LRU | a map that changes under the walk |
| `perf_sink` | ring of 2, 4 events of 3 kinds, 1 flush | loss, skip, flush and scrape in any order |
| `perf_sink_undecodable` | with undecodable events | violation, see Findings |
| `cgroup` | 2 goroutines, 3 ids on 2 paths | a restart under one path, removal during a walk, any call on cgroupfs failing |
| `attach` | 2 configurations, one perhaps twice, 4 programs, 3 CPUs | every failure at every point |

**Bounds.** `MaxTime`, `MaxStarts`, `MaxAsked`, `MaxCount`, `MaxLost`, `MaxRows`, `MaxEvents`, `MaxFlushes`,
`MaxCalls` stop clocks, histories and inputs; each is a guard of an action, named as
a bound where it is declared, and no property refers to it but a type. The
instances are the smallest in which every case of the text above happens: two
actors race (three for `increment_map`, where the loser of a race meets a full
map), capacities are below the number of keys so that a full map is met, an
address or a path is used at least twice, a scrape can be rewound, two times the
clock can be equal or differ by more than a bucket. `Wrap` stands for 2^64: it is
above every time of an instance in nanoseconds (`MaxTime * NsPerUs`), so that a
difference below zero is told from a real one as in the code. `accept` takes it as
small as that allows, so that counters exceed it within the bounds. `CHECK_DEADLOCK FALSE` is set where the bounds,
or an exporter that has nothing to do, may stop a model; `perf_sink` and
`cgroup` are checked for deadlock. Symmetry is used only in runs without liveness.

**Fairness.** `scrape`: a request handler that has begun goes on
(`WF` of the exporter's steps after `Begin`; nothing makes Prometheus scrape or
programs count). `perf_sink`: weak fairness of each goroutine's step; none for
writes, flushes and scrapes. `cgroup`: weak fairness of a goroutine's steps and
strong fairness of `Lock`, because `sync.Mutex` hands itself to a goroutine that
has waited for a millisecond, so that no stream of other lockers keeps it out;
cgroups need not come or go. Nothing else assumes fairness.

## Findings

* `linear_count`. tcp-connection-consumption.bpf.c:79 and
  network-retransmission-time.bpf.c:63 add the time to the bucket itself, where the
  other programs use a slot for the sum. The exporter adds up the buckets for
  the count of the histogram (README.md:389-392), so the count is not a number of
  events.
* `perf_sink_undecodable`. perf_event_array.go:52 logs that labels failed to decode
  and goes on with no labels; `WithLabelValues` panics on them in a goroutine that
  nothing recovers, and the exporter ends.
* `histogram`. README.md:424-427 says of an exp2 histogram that "key 3 should count
  values for (exp2(2), exp2(3)] interval: (4, 8]" and that `log2l` gives that key, and
  histogram.go:66-67 that the bound of a bucket is "the upper limit of all values in
  the bucket". `log2l` gives key 3 to the values from 8 to 15, and histogram.go:70 exports
  them under the bound 8, which is their lower limit, so that quantiles computed from
  such a histogram are too small. The run checks what each exported bucket does hold
  (`BucketsAreRanges`), and passes.

Read in the code and not checked by a run:

* the histogram map of biolatency has `MAX_LATENCY_SLOT + 1` entries for a disk
  (biolatency.bpf.c:35) and the program uses one more, for the sum;
* shrinklat's sum slot is one beyond its array, so its sum is never counted
  (`EveryLatencyExported` has it as 0);
* tcp-rtt.bpf.c uses a map it does not declare;
* network-retransmission-time.bpf.yaml is not named as the loader expects
  (`<name>.yaml`);
* the linear map has 52 entries where `bucket_max` is 500;
* two programs whose info cannot be read in one scrape get the same series with id
  0 (exporter.go:233), which Prometheus refuses;
* a `counterVec` is replaced by assigning a plain pointer (perf_event_array.go:15 and
  94) that other goroutines load at lines 55 and 86: a data race. Where stores and
  loads keep their order, as on amd64, the outcomes are the interleavings that
  `PerfEventSink` has. The Go memory model promises less: elsewhere a goroutine might
  go on with the old `counterVec` after the flush, or see the new pointer before what
  it points to is initialised;
* tcp-connection-consumption.bpf.c:42-43 and 53-54 read the clock and store the time
  without a lock, so a latency may be longer than the time since the last start of its
  socket (see `CallLatency`).

## The proofs

The theorems hold for any sets of CPUs, keys, objects, labels, contexts, goroutines
and programs, any capacities and any bounds that satisfy the named assumptions of
the modules; the instances above are only some of them. Each component has an
inductive strengthening, written beside its properties (`Inv`, or a name of its own
where one module of proofs is about several), and a TLC run with it as an invariant
came before each proof. Each module of proofs has a lemma for `Init` and one for
each action.

| module | about | theorems |
|---|---|---|
| `SharedLemmas` | the operators of `BpfMaps`, sums and powers of two | lemmas only |
| `CounterPrograms_proofs` | `IncrementMap` | `TypeCorrect`, `NeverPartlyCounted`, `NothingVanishes`, `Monotone`, `Refinement` |
| | `CounterPrograms` | `ProgramsCallIncrementMap`, `NothingLostWhenItFits` |
| `LatencyProbe_proofs` | `LatencyProbe` | lemmas: what each step of the shared probe keeps |
| `BioAcceptLatency_proofs` | `BioLatency` | `TypeCorrect`, `LatencyIsFresh`, `NoDoubleCount`, `SumNeverTooSmall` |
| | `AcceptLatency` | `AcceptTypeCorrect`, `AloneIsExact`, `AcceptSumNeverTooSmall` |
| `LatencyExport_proofs` | `CallLatency` | `TypeCorrect`, `LatencyIsFresh`, `NoDoubleCount`, `ShrinkLatIsComplete` |
| | `HistogramExport` | `ExportedIsComplete`, `ExportedRanges` |
| `WindowClamps_proofs` | `WindowClamps` | `TypeCorrect`, `NoStaleEntry`, `FindsItsOwn` |
| `CgroupDecoder_proofs` | `CgroupDecoder` | `TypeCorrect`, `OneAtATime`, `LivingAreKnown`, `PathsAreKept` |
| `Exporter_proofs` | `Attach` | `AttachTypeCorrect`, `ReportsAreTrue`, `NoDoubleAttach` |
| | `PerfEventSink` | `SinkTypeCorrect`, `EventsAreAccounted`, `NothingCountedTwice`, `ScrapesOnlyGrow` |
| | `MapScrape` | `ScrapeTypeCorrect`, `NeverMoreThanCounted`, `EveryCounterReported`, `CountersOnlyGrow` |

**Sums.** Half of the properties add something up: increments over keys, latencies
over buckets and CPUs, records over a ring, rows over a walk. `SumFunction` of the
community modules folds over a set, by a recursive function that takes an element
at a time with `CHOOSE`. The induction theorems of the library take an operator as
a parameter, which the provers cannot instantiate, so `SharedLemmas` proves induction
in a form that speaks of sets: a set of subsets of a finite set that has the empty
set and stays closed when an element is added has the finite set too
(`SetInduction`, from the smallest counterexample). With it, `AddsExists` and
`AddsUnique` show that the recursion has one solution, whichever order `CHOOSE`
takes, and the rest is arithmetic: what a sum is after one term changed (`SumUpdate`),
was added or was left out, that it depends on its terms alone, grows with them, and is
not changed by zeros, and that a sum over disjoint parts is the sum of their sums
(`SumOfParts`); then the same for a sequence that is appended to or cut.

**IncrementMap** assumes `CpusAssumption` (CPUs are finitely many, for the sums),
`CapacityAssumption` (the capacity is a natural number) and `AmountsAssumption` (so
are increments). `Inv` is `TypeOK`,
`PointersValid` (a CPU about to add through a pointer has a key that is in the map),
`RefusedByFullMap` (a CPU whose second lookup comes after a refused update has a
key that is out of a full map or that another CPU has added) and `AllOrNothing`.
`AllOrNothing` alone is not inductive: the step that gives an increment up needs to
know that the map is full, which was found out two steps before and stays true
because nothing is ever deleted. From `Inv` follow `TypeCorrect`,
`NeverPartlyCounted`, `Monotone` (an action property, by cases on `Next`) and
`Refinement`: `Create` is `Admit`, `Add` is `Count`, giving up is `Lose`, the lookups stutter.
`NothingVanishes` adds `Conservation`: a step changes what one CPU has in flight, and by
as much the map, the losses or the increments asked for.

**CounterPrograms** builds on it. `OwnKeys` says that a CPU in a call, or about
to make the second one, asks for a key of its program, so that nothing else is in the
map or was lost. With `IncrementMap`'s `Inv` it shows that every handler step is one
`IncrementMap` allows (`ProgramsCallIncrementMap`: all theorems above hold of the
programs), and that a lost key would leave the map fuller than the keys that can be
in it (`NothingLostWhenItFits`, by cardinality).

**The latency programs** assume `CpusAssumption`, `CapacitiesAssumption`,
`BoundsAssumption`, `WrapAssumption`, and one on labels or on the array. What
`LatencyProbe_proofs` shows of the shared probe is in four parts. `WrapAssumption` says that
no time of the model, in nanoseconds, exceeds a u64, as none does for 584 years.

* `EntriesInv` holds whoever calls the probes: `EntriesAreLatest` (an entry, if there
  is one, is from the last start: a full map refuses only keys it does not hold) and
  `SampledEntriesGo` (the entry of an object that was counted is about to be deleted
  by a CPU that counted it).
* `OnceInv` is what holds when an object is in the second probe of one CPU at a time,
  whatever first probes run meanwhile and however late they store the time they read:
  `ProbedOnce`, and `UnsampledRuns` (what a CPU is measuring has not been counted since
  its last start), from which `SampledOnce` follows. It needs `SampledEntriesGo` alone:
  `EntriesAreLatest` fails when the clock is read in one step and stored in another.
* `ProbeInv` adds what holds when, besides, no first probe runs for an object that is in
  the second: `EntriesInv`, and `PointersValid` (the entry a CPU has looked up is still
  there, with the time it had). `FreshTimestamps` then follows from `EntriesAreLatest`. The
  lemmas take the exclusion as a hypothesis; `BioLatency` gets it from the block layer
  (`Owned`: a request in completion belongs to one CPU), `CallLatency` from the guards of
  its actions. `Inv` of `CallLatency` has `OnceInv` for all three programs, and `ProbeInv`
  where starts are serial (`Serial`).
* `Covered`, for the sums. That the sum slot keeps up with the buckets is not
  inductive, for a full histogram map may refuse the sum and a bucket, in either
  order, and the properties say nothing while the sum slot is missing. What is
  inductive is that the buckets are accounted for as long as the sum slot is in the
  map *or may still get in*; once a map without it is full, it is full for good. All of
  this is said of labels that are not in `wrapped`: while a label is not, `Increment`
  adds as numbers do (`IncrementExact`), and once it is, it stays. A
  bucket stands for a power of two, and the provers know `2^k` only for a `k` that is
  given: `Powers` of `SharedLemmas` is the table up to 27, which is why `SlotAssumption` and
  `AcceptSlotAssumption` bound `MAX_LATENCY_SLOT` by the values the programs define, 27
  and 26, instead of any number.

`AcceptLatency` lets threads measure the same connection, so `ProbeInv` does not hold
of it; `EntriesInv` does. `AloneIsExact` needs besides that a thread that is alone has
the head of the queue (`AloneAtHead`): only it can take the head, no handshake can
be hashed again while it is queued, and a thread about to delete an entry is in
`inet_csk_accept` too (`RunsAccept`), where there is nobody else (`AloneIsOne`).
That a connection is in the queue once is part of `AcceptTypeOK`.

`ShrinkLatIsComplete` needs `ArrayAssumption` (the array has one element for each slot,
and there is more than one: `transformHistogramDynamic` refuses a histogram with
`bucket_min` equal to `bucket_max`). Its invariant is `AllCounted`, the sum of the buckets
while no counter has exceeded a u64: `CountBucket` cannot be refused, as the array has
every slot, and `CountSum` always is.

**HistogramExport** assumes `ValuesAssumption` (the values measured are finitely many
natural numbers) and `ConfigsAssumption`: an exp2 histogram has the slots from 0 to
`LastSlot`, between 1 and 27, as the programs cap it; a fixed one has its keys in
ascending order. `ExportInv` says of the map that each bucket holds the events whose
value falls in it and the sum slot the sum of all. `Slot(v) <= b` exactly if
`v < 2^(b + 1)` (`Powers`), so the values up to a bound are the disjoint union, over
the buckets up to it, of those that fall in one; by `SumOfParts` the cumulative bucket
is their number (`ExportedRanges`), and for the last bucket that of all values
(`ExportedIsComplete`). `BoundsDiffer`: no two buckets have one bound, so what the
transformation puts under a bound is of that bucket.

**WindowClamps** assumes `CapacityAssumption` and `BoundAssumption`. `Owned`: the
entry of a key was made by a call that is inside with that key and has not deleted
it yet, or by one with that key whose return was missed. `EntriesAlive` follows, and it
is inductive because a return that is not missed deletes whatever entry its key has,
even one that another call has put there. For `OwnEntry`, a key of one context has only
that context's entries; that an entry misleads one call at most needs `FoundIsDeleted`
(an entry found is about to go) and `Issued` (an entry made later has a new number).

**CgroupDecoder** assumes `PathsAssumption`. `HolderDecodes` (past `Lock` exactly if
holding the mutex) gives `OneInDecoder`. `LivingIsKnown` needs two more: `CacheIsTrue` (a
cached id has its path, or is unknown and dead or cut off) and `WalkReaches` (unless it
has failed before it, a walk has found the cgroup it is made for, or has its place
still to do), which holds because a cgroup decoded existed before the walk listed the
directory.

**Attach** assumes `ListsAssumption`, `CpusAssumption` (there is a CPU: with none, a
program would be reported as attached vacuously) and `ProgramsAssumption` (configurations
have no program in common). `OneByOne` says where the loops over configurations,
programs and CPUs are, `UntouchedYet` and `OpenedSoFar` which links there are at that point,
and `RecordsAreTrue` that every record made is the truth about the links. A name
given twice is refused by `Load`, without which `UntouchedYet` would not be kept.

**PerfEventSink** assumes `KindsAssumption` (labels are finitely many; an event that
is skipped or cannot be decoded has none), `RingAssumption` and `EventsAssumption`.
`EveryEventAccounted` is inductive with the shapes of the state: each action moves one
event, or the number of lost ones, from one of its terms to the next, and `Flush` only
adds a `counterVec` of zeros, for `Counted` adds up all there ever were.
`NothingCountedTwice` is the same sum for one kind of event (`KindsAccounted`), and the
bounds in `SinkTypeOK` follow from the sums. A scrape reports no more than its
`counterVec` holds now (`ScrapedIsOld`), also when an `Inc` comes after the flush.

**MapScrape** assumes `OrderAssumption` (the hash table is a list without repetition)
and `BoundsAssumption`. `WalkSums` relates rows to the keys the walk has passed: the rows
of one text are worth at least what these keys held at the beginning and, unless the
walk began again, at most what was counted for them. It holds after a rewind because
a rewind can only add rows, and when a key is deleted before the iterator, because
then it held nothing that the map held all the time. At the end the walk has passed
every key (`NeverMoreThanCounted`, `EveryCounterReported`). `CountersOnlyGrow` needs that
a map without evictions never makes the walk begin again (`WalkStable`), and that what
was sent before has a key that the next walk still meets and counts for more
(`ExportedIsOld`).

**Only model-checked**: liveness (`ScrapeEnds`, `EventsSettle`, `DecodingEnds`), which
needs `ENABLED`; the two violations, which are counterexamples; and
`Log2lIsHighestBit` for results above 27 (`Powers` proves it of `log2l` up to there, for
every value).

## What the models take from outside

* A BPF hash map is preallocated: it refuses a new key when `max_entries` are in
  use, and an element that was freed may be given out at once.
* A map helper is atomic; an LRU map evicts any entry, and only when it is full
  (the kernel's per-CPU free lists may evict earlier).
* The block layer completes a request on one CPU at a time and owns it meanwhile.
* `tcp_retransmit_skb` and `tcp_cleanup_rbuf` run under the lock of their socket.
  `tcp_v4_conn_request` and `tcp_v6_conn_request` do not hold that of the listening
  socket, nor does `inet_csk_accept` at its entry. `tcp_v4_conn_established` and
  `tcp_v6_conn_established` are not functions of a mainline kernel; they are taken to
  be called for one socket on one CPU at a time.
* The kernel may miss any kprobe, and any return where no instance of a kretprobe is
  free or that was entered before the kretprobe was attached.
* `bpf_map_get_next_key` returns the first key for one that is gone; a hash map's
  order does not change while an entry stays.
* A walk of cgroupfs reads a directory and then visits its entries, and every call on
  cgroupfs may fail.

## What is not modelled, and why

* tcp-rtt does not compile: it uses a map it does not declare.
* bpf-jit copies a kernel counter to a gauge: one read and one store.
* `get_disk`, device numbers, keys of maps: labels are model values.
* `DecodeLabels` and the other decoders: conversions; that they skip or fail is in
  `MapScrape`. The caches of majorminor, ksym and regexp are filled like that of
  cgroup, under the same mutex, and never refreshed: a device number that is given to
  another device keeps its first name (majorminor.go:56).
* `Describe`, `program_info.go`, configuration: no state after the start. A histogram
  without labels makes `Describe` panic (exporter.go:218).
* `/maps` reads with the `mapValues` that `MapScrape` models and decodes as one more
  goroutine of `CgroupDecoder`; `main.go` starts what `Attach` models.
* `vmlinux.h`, generated from the kernel's types, is nine tenths of the repository's
  lines and has no behaviour.
* Benchmarks, Makefile, installation, Prometheus and Grafana configuration: no
  behaviour of their own.

## Plan

The order was: what every program relies on (`IncrementMap`), its callers
(`CounterPrograms`), the programs with shared state (`BioLatency`, `AcceptLatency`,
`CallLatency`, `WindowClamps`), what the exporter does with the maps (`MapScrape`,
`Histogram`, `PerfEventSink`), what it does besides (`CgroupDecoder`, `Attach`). What
could follow:

1. Models: a scrape of a histogram map, whose bucket and sum are read at different
   times (`MapScrape` with `Histogram` in place of `Aggregate`); majorminor's cache.
2. Proofs: the refinements that are now invariants of histories, as such: a scrape as
   one step that reads every counter, `Attach` as one step per program.
