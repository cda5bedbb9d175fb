# rust-prometheus in TLA+

The client library for Prometheus, a Rust crate, keeps metrics (counters,
gauges, histograms, and vectors of them by label values) that the threads of a
program update and that a scrape collects.  It is almost entirely about shared
memory: relaxed and ordered atomics, two kinds of lock, and thread-local copies
that are flushed now and then.  There is no network protocol to model and
nothing is persisted: what is hard is the interleaving of updaters, collectors
and removers, the long sequences of calls on the maps that name the metrics, and
the way from what users write (names, labels, buckets, any string) to an output
that a reader takes for what was meant.

Line numbers below are lines of `src/src/`, and for `static-metric` of
`src/static-metric/src/`.

## The system's parts

| part | state | operations | used by |
|---|---|---|---|
| atomic cells, `atomic64.rs` | one 64-bit atomic; for an `f64`, its bits | `set`, `get`, `inc_by`, `dec_by`, `swap`, `compare_exchange_weak` | every metric |
| counters and gauges, `value.rs`, `counter.rs`, `gauge.rs` | descriptor, label pairs, a cell | `inc`, `inc_by`, `dec`, `set`, `reset`, `get`, `collect` | users, vectors, registry |
| histogram, `histogram.rs` | a packed word (hot shard and count), two shards (count, sum, buckets), `collect_lock` | `observe`, `proto` (collect), `get_sample_sum`, `get_sample_count` | users, vectors, registry |
| local counters and histograms, and vectors of them | an unshared copy, the shared metric it is for | `inc`/`observe`, `reset`/`clear`, `flush`, clone, drop, `remove_label_values` | one thread each |
| histogram timers | the histogram, or a copy of the local one, and whether it has observed | `observe_duration`, `stop_and_record`, `stop_and_discard`, drop | one thread each |
| metric vectors, `vec.rs` | a map from a hash of label values to a child, an `RwLock` | `with_label_values`, `remove_label_values`, `reset`, `collect` | users, registry |
| descriptors, `desc.rs`, `metrics.rs` | names, labels, two hashes (`id`, `dim_hash`); immutable | `new`, `describe` | all metrics, registry |
| registry, `registry.rs` | `collectors_by_id`, `dim_hashes_by_name`, `desc_ids`, prefix, common labels, an `RwLock`; one of them is the default | `register`, `unregister`, `gather` | users, macros, encoders, push |
| process collector, `process_collector.rs` | gauges and one counter | `collect` | registry |
| coarse clock, `timer.rs` | `RECENT`, `UPDATER_IS_RUNNING`, a background thread | `now_millis`, `recent_millis`, `ensure_updater` | auto flush |
| auto flush, `auto_flush.rs`, `metrics.rs` | per thread: a root of local metrics, its `last_flush` | `inc`/`observe`, `may_flush`, `try_flush`, `flush` | the code that `static-metric` generates |
| `static-metric` | `SCOPE_ID` while compiling; at run time the structs it generates | generates structs from definitions; `from`, `get`, `try_get`, `flush` of these | users |
| macros, `macros.rs` | none | make a metric and register it | users |
| data model, `plain_model.rs`, `proto_model.rs` | none; two forms of the same messages | `set_`, `get_`, `take_`; size, write, merge | metrics, registry, encoders |
| encoders, `encoder/` | none between calls | write gathered families as text or protobuf | users, push |
| push, `push.rs` | none between calls | send gathered families to a Pushgateway | users |

How they interact.  A metric is shared by reference count: users hold handles,
a vector or the registry holds one more, and a scrape goes registry → vector →
metric, with a read lock at the first two levels and, for a histogram, a mutex
at the third.  A local metric holds a handle of its own and adds to it at its
flush.  An auto-flushed metric decides by `RECENT` whether to flush the root of
its thread, and a background thread is what keeps `RECENT` going.

What is hard, and the property that goes with it:

* an `observe` overlaps a `collect`, and must be in it entirely or not at all
  (`SnapshotIsCut`, `ImplementsAbstract`); the collector spins with the lock
  held, and must not spin for ever (`ColdShardDrains`, `LockReleased`);
* `get_sample_sum` is two loads, with a collect between them
  (`SampleSumComplete`);
* a float is added with load, add, compare-and-exchange (`ImplementsCell`);
* a child is looked up under one lock and created under another
  (`ImplementsVec`, `HeldIsExported`), and a handle outlives its child's removal
  (`ExportIsFresh`, `LocalIsExported`);
* `register` is refused half way through its loop; `unregister` forgets some
  things and remembers others (`DescIdsExact`, `DimensionsAgree`,
  `NoDuplicateSamples`);
* the process collector reads a counter and then increases it by the
  difference, while another scrape does so, too (`SoloScrapeIsExact`,
  `CpuOnlyGoesUp`);
* a thread reads the clock, is delayed, and then publishes an old time
  (`RecentCoversAnswers`, `ImplementsTimer`); and local data is flushed by a clock
  that lags (`StalenessBounded`, `FlushesApart`);
* a timer owns a copy of a local histogram, outlives it, and flushes it
  (`NothingLost`);
* collectors of one name, of one type or of several, come in the order of a hash
  map and are made one family (`EveryChildIsGathered`, `GatherIsReproducible`,
  `SeriesUnique`, `LabelNamesUnique`);
* two hashes decide who is who, and see only concatenated bytes
  (`IdentityIsExact`);
* the text has delimiters that may occur in the strings it carries
  (`TextIsFaithful`), a histogram has buckets that may or may not end in +Inf
  (`HistogramSeries`), and an encoder may stop after it has written
  (`TextIsFaithful`, `WireIsFaithful`, `PushIsFaithful`);
* a message is measured in one pass and written in another (`WireIsFaithful`);
* a job and a grouping become a part of a URL as they are (`PushIsFaithful`);
* the same data model exists twice (`BuildsAgree`);
* generated code is reached by field, by value, by enum and by offsets into
  memory (`Conserved`, `DelegatorsReachTheirLeaves`, `StructsApart`,
  `EveryCombinationExists`, `FlushReachesEveryLeaf`).

`PROJECT.json` lists the hazards one by one, each with its line.

## The modules

| module | models | with |
|---|---|---|
| `ShardAndCount` | the packed word, `histogram.rs` `ShardAndCount`, with its width | |
| `HistogramData` | an f64 sum and a bucket counter as tallies of observations | |
| `HistogramSpec` | the abstract histogram: record at an instant, snapshot at an instant | |
| `HistogramCore` | `observe`, local flush, `proto`, `get_sample_sum`, one atomic access per step | implements `HistogramSpec` |
| `AtomicCellSpec`, `AtomicF64` | an abstract cell; `AtomicF64` of `atomic64.rs` | implements it |
| `TimerSpec`, `Timer` | an abstract lagging clock; `timer.rs` | implements it |
| `AutoFlush` | `auto_flush.rs`, `try_flush` of `metrics.rs`, and the generated root | uses `TimerSpec` |
| `VecSpec` | the abstract vector: get or create at an instant | |
| `MetricVec` | `MetricVecCore` of `vec.rs`, its steps and its locks | implements `VecSpec` |
| `LocalVec` | `GenericLocalCounterVec` and `LocalHistogramVec` over a shared vector, and both timers | uses `VecSpec` |
| `Registry` | `RegistryCore` of `registry.rs`, its steps and its lock | |
| `DataModel` | the messages of `proto_model.rs` and of `plain_model.rs`, their defaults and accessors | |
| `Wire` | size, writing and merging of the generated messages | extends `DataModel` |
| `Descriptor` | `desc.rs`, `Opts`, label pairs, `labels!`, `opts!` | |
| `Collectors` | constructors, buckets, lookup by label list and by label map, `collect` | extends `Descriptor`, `DataModel` |
| `Gather` | `register`, `unregister`, `gather` of `registry.rs` as functions, to the finished families | extends `Collectors` |
| `Instrumentation` | what a program does to be observed: macros, default registry, `register`, `unregister`, updates and removals of children | extends `Gather` |
| `Scrape` | what a program gathers, collects or gives to a push, in both builds | extends `Instrumentation` |
| `TextFormat` | the text and protobuf encoders | extends `Gather`, `Wire` |
| `Characters` | finding characters and splitting at them: for the reader and for URLs | extends `Descriptor` |
| `TextReader` | a reader of the text format, and what a family ought to say in it: the reference for the encoder | extends `TextFormat`, `Characters` |
| `Url` | external: what `Url::from_str` makes of a URL, and what a server reads from its path | extends `Characters` |
| `Push` | `push.rs` | extends `TextFormat`, `Url` |
| `Exposition` | composition: instrumentation, gather, encoding, push, in both builds; every step is one of `Scrape`'s | extends `Scrape`, `TextReader`, `Push` |
| `StaticMetric` | `static-metric`: expansion, `from`, `get`, `try_get`, `flush`, delegators | extends `Collectors` |
| `ProcessCollector` | `collect` of `process_collector.rs`, its counter | |
| `HistogramProofs`, `AtomicsProofs` (of `AtomicF64` and `Timer`), `AutoFlushProofs`, `MetricVecProofs`, `LocalVecProofs`, `RegistryProofs` (of `Registry` and `ProcessCollector`), `InstrumentationProofs` (of `Instrumentation`, `Scrape` and `StaticMetric`) | the theorems and their proofs | the module they are about |
| `SumLemmas` | sums of functions over finite sets | used by the proofs of `AutoFlush`, `LocalVec` and `StaticMetric` |
| `MC...` | values of the constants for TLC | |

`Mutant:` in a comment marks an altered form of the definition below it, a
plausible bug.  Each shows that the property it is paired with in
`PROJECT.json` does depend on the code; nothing in a specification uses them.

### How a step is chosen

A step is one access to shared memory, and the steps of threads interleave.
That is what the code's orderings give where it matters:

* The packed word is updated with `Acquire`/`AcqRel` operations and a shard's
  `count` with `Release` on the observers' side and `Acquire` on the
  collector's, so what an observer has added to a shard (with relaxed
  operations, histogram.rs 381 and 384) is visible to the collector that has seen
  the observer's increment of `count` (386, 418).  Two relaxed operations of *one*
  observer on different atomics of a shard may be seen by others in either
  order, but nobody looks at them before `count` says that both are done; the
  exception is `get_sample_sum`, which reads one single atomic.
* `collect_lock`, and the `RwLock`s of the vector and the registry, order what is
  done under them.  A critical section that waits for nothing, and that no
  unlocked access looks into, is one step; where a section is left early
  (`register`), or where it calls something unlocked (`collect` of a vector,
  `gather`), it is several.
* A cell, a `RECENT`, a `UPDATER_IS_RUNNING` is one atomic with a single
  modification order.

### Histogram

`shardAndCount`, `count`, `sum`, `bucket` and `lock` are the fields of
`HistogramCore` and its shards; `wpc`, `cpc`, `rpc` say where each thread is and
the other variables are its locals, under the code's names.  An observation is a
model value: a sum and a bucket say how often each observation was added to
them.  That is finer than the `f64` or `u64` of the code (a tally fixes the
sum, up to rounding, and the counter) and loses no error: an observation that is missing is
visible even when its value is 0.0.  Where the code *compares* or packs counts
they are numbers, of the width `CountRange`, and wrap.

`Claim` is the increment of the word (`observe` 370, `flush` 1040);
`AddToBucket`, `AddToSum`, `AddToCount` are the rest of both.  A flush is a set
of observations rather than one; it writes its buckets in order and its sum and
count once.  `LockCollect` … `UnlockCollect` are `proto`, with the
compare-and-exchange on the cold count as the guard of `Drain`.  A collect's
result is compared with the observations the word counted at its flip:
`claimed` and `cut` are history variables, as `before` is.

`get_sample_count` is one load of the word, no action of its own.

### AtomicF64, counters and gauges

The bits are what is compared, so `Add` may be any operation on them.
Subtraction adds the negation; `inc`, `dec`, `set` and `reset` of `value.rs` are
calls of these.  For the integer cells each operation is one instruction, and
there is nothing to implement.

### Timer and AutoFlush

`Timer` has the caller's `now_millis` as four kinds of step and a spurious
failure of the weak exchange.  The updater's sleep is any time, so that no
property depends on its length.  `AutoFlush` is composed with the abstract
`TimerSpec` that `Timer` implements, and adds one assumption on it, named `Lag`:
how late the updater may be.  (The code's updater sleeps for `CHECK_UPDATE_INTERVAL`, 200 ms; a
busy machine may add to it.)  `StalenessBounded` and `FlushesApart` give their
bounds in terms of `Lag`.

A root's metrics are visited in their order, one at a time: that is the
generated `flush` of the struct.  A thread's exit drops them in order: a local
histogram flushes when it is dropped and a local counter does not, which
`Conserved` accounts for as discarded, so it is what the code does.  Because
`reset` and `clear` do not change `last_flush`, they cannot make data wait.
`oldest` is when the first increment since the root was empty was made.

### MetricVec and LocalVec

`Lookup` is the fast path under the read lock, `FindCreated` and `Create` the
slow one under the write lock, and `children` the map.  The key is
`HashLabelValues`, the hash of the concatenation: FNV is taken to have no
collisions of its own, the concatenation (vec.rs 110) is modelled as it is.
`Inc` of a handle takes no lock.  `Visit` is one child's `metric()`, so
that increments and lookups go on during a collect while creations and removals
wait.  `generation`, `heldSince`, `credited` and `before` are history: they say
which child a handle belongs to and what it should have been credited with.

`VecSpec` is what a user may count on: `Get` returns the child or makes a new
one, at one instant.  A lookup that misses gives the user's old handle up
(`Release`) and takes effect where the write lock is held.

`LocalVec` is one layer up, on the abstract vector: making a local metric is
`Get`, and removing a child is `Delete`.  The vector's users there are the local
metrics and the timers, since those are what holds its children.  `kind` tells the two local vectors apart: `LocalHistogram` has a
`Drop` (histogram.rs 1150), a local counter has none.  Their own removal is two
steps, first the local metric and then the shared child, in that order.
`StartTimer` and `StartLocalTimer` are `start_timer` of the shared and of the
local histogram; the latter's timer owns a `Clone`, which the code clears
(histogram.rs 906).  `Record` is every way to observe: `observe_duration`,
`stop_and_record`, and the drop of a timer that was not stopped (which the model
splits in two, `Record` and `DropTimer`, as `drop` of the struct and of its
field are).  A timer of a local histogram may outlive the vector it came from.

### Registry

One step per descriptor in `register`, since each turn of the loop may return.
`RememberName` keeps the code's order: the name's dimension is written before the
duplicate within the collector is noticed, and it stays.  Collectors are keyed
by the wrapping sum of their ids (`CollectorId`).  A gather calls the collectors
one by one, merges families by name, and prunes the empty ones; vectors get
their first child and lose their last one meanwhile (`Populate`, `Empty`), which
takes no registry lock.

`Registry` says who is in a gather; `Gather` says what comes out of it.  Its
`register`, `unregister` and `gather` are the same code as functions, on
descriptors and collectors that are built as the code builds them, with the
sort, the prefix and the common labels.  A hash map's order is an argument of
`gather` (`Arrangements`: every order of collectors, and an order and its
reverse of the children and of the common labels).  A collector may be code of
its own (`OtherCode`): whatever implements the trait, which has some list of
descriptors and collects some list of families.

### From options to output

`Descriptor` has strings as sequences of characters, because the errors that are
possible are those of strings: `("ab", "c")` and `("a", "bc")`, a `$` before a
name, a quote in a value.  A hash is the bytes the hasher is given, so equal
hashes are equal bytes and FNV's own collisions are left out.  `DescId` and
`DimHash` are the two hashes of desc.rs, and `NewDesc` its checks in their
order.  A sort is the insertion sort as a recursive function: what matters is that it is
stable, and where it puts what compares equal.

`Collectors` has the constructors with their errors (`Ok`, `Err`; `Then` is `?`),
`check_and_adjust_buckets` and the two bucket generators, label lists and maps
as keys, and `collect` in either build.  Numbers are integers with `INF` and
`NaN`, and a comparison with `NaN` is false, as a double's is.

`DataModel` has a message as a record.  In the generated build a singular field
is a sequence of at most one value, and a getter's default is the message of an
absent field; in the plain build every field has a value.  `Put`, `Read` and
`Erase` are the accessors of both.  `Wire` writes a message as a sequence of
atoms (tag, length, scalar) and counts a scalar as one: a length is the number of
atoms that `Size` computed in a pass of its own, as `compute_size` does, over a
list of fields of its own (`Counted`), and `Merge` is `merge_from`, which trusts it.

`TextFormat` writes characters, and `TextReader` reads them without knowing what
was written; `Said` says what a reader should find.  An encoder's result is the
text so far and an error: `encode_utf8` and the `Write`r of a caller keep the
first part.  An untyped family is `unimplemented!()`, a panic after the header.

`Push` puts a URL together as push.rs does and gives it to `Parsed`, which is
`Url::from_str`: blanks are stripped, `.` and `..` are walked, a backslash is a slash,
what follows a `?` or a `#` is no path, and a URL without a scheme or a host or with
a bad port is an error, over which the `unwrap` of push.rs 154 panics.  A scheme other
than http and https is an error of the client.  The order of the grouping's map is any
order.  Percent encoding is undone by the server, so a character that has to be
escaped comes out as it was, and only what already looks like an escape is changed
(`Received`).  Left out are schemes in capitals and the forms of a host (addresses,
escapes, international names).  `FiledUnder` is the gateway's reading of the path.

`Instrumentation` is the program that uses the library: an action is a call of a macro
(`Register`), of `unregister`, a second registration of a handle, an update or a removal of a child by list or
by map.  `Scrape` adds what is taken from the collectors: a `gather`, a `collect`, or the
gather of a registry that a push makes for its collectors.  `Exposition` adds what is
written: one of the encoders, a push.  Its `out` is the only variable that `Scrape`
does not have, and each of its actions is an action of `Scrape` that also sets `out`: what is
proved of `ScrapeSpec` holds of it, and the run `exposition` checks the same
properties there.  Families once
gathered are values, so the updates that would run meanwhile cannot be seen in
them, and the model does not interleave them; how they run during a gather is in
`Registry`, `MetricVec` and `HistogramCore`.  Everything after `gather` is done
in both builds side by side and compared (`BuildsAgree`).

### StaticMetric

`Expand` is one macro invocation at compile time: enums and metrics in their
order, refused as the code's panics do, each metric in a scope of its own
(`SCOPE_ID`, builder.rs 90).  `BuildRoot` is the generated `from`, which makes
every child in the fields' order.  Two combinations of values may have one key, since the
vector hashes values without a separator (the run `metric_vec_labels`), and are then one
child; so `EveryCombinationExists` and `Conserved` speak of children by the keys of
combinations (`KeyOf`).  `UpdateLeaf` reaches a leaf by a field, by `get` of
an enum, by `try_get` of a value, or for an auto-flushed metric by the offsets of its delegators
(`outer_from`, `delegator_new`, `get_local`).  The offsets are differences of
addresses in a value of the struct that is never initialized
(auto_flush_builder.rs 524, 556), which the language does not define; what a build
produces is the layout of the struct, and the model takes every order of its fields,
the root's own `last_flush` and `flush_millis` among them.  What the generated code
would not compile with is taken from the compiler (`Compiles`): a metric without
labels, a field twice, a label value that is named like one of the root's own fields.  A local root belongs to its thread, any other is
shared.  When an auto-flushed root is flushed is `AutoFlush`'s question; here it
may be at every update.

### ProcessCollector

`ReadStat`, `ReadPast`, `IncByDifference` and `Export` are `collect`, from the
read of `/proc` to the returned sample.  The counter is a `u64`, and the
difference wraps as in a release build; a build with overflow checks panics
there instead.

## The runs

All but `static_metric` check for deadlock: there a definition that is refused
and a `from` that panics end the program.  All the times are below five minutes
with two workers.

| run | asks | bounds |
|---|---|---|
| `histogram` | Is what `proto` returns an atomic snapshot, whatever overlaps it?  Does the reader of the sum ever see an emptied shard?  Does the collector's wait end?  Is the inductive invariant of the proofs one? | 2 writers, 2 collectors, 1 reader, 2 bounds, 3 observations |
| `atomic_f64` | Does `inc_by` take effect at one instant? | 3 threads, 3 bit patterns |
| `process_scrapes` | Is the counter right again after scrapes that overlapped? | 2 scrapers, 3 seconds, 3-bit counter |
| `process_goes_up` | Does the counter only go up?  **No.** | the same |
| `timer` | Is `RECENT` monotonic, never ahead and never behind an answer?  Is there one updater, and does it get through? | 3 callers, 3 ms |
| `auto_flush` | Is every increment somewhere, exactly once?  How stale may it get?  How close may flushes be? | 2 threads, a counter and a histogram, interval 2, lag 1, 4 ms, 3 increments |
| `metric_vec` | Do racing users get the one exported child?  Does a scrape read the increments of that child and no other?  Is a lookup one step for who makes it? | 2 users, 1 scraper, 2 label values, 3 children |
| `metric_vec_labels` | Is a handle's metric the one of the labels asked for?  **No.** | 2 users, 2 labels |
| `local_vec` | Is an increment or a timing ever lost or counted twice?  Does a local metric feed the exported child until somebody else removes that, and no later one? | 2 threads, 2 label values, 3 children, 2 increments, 1 timer, both kinds of vector |
| `registry` | Are the ids exact, the dimensions consistent, a gather complete and without duplicates, after any refusals and removals? | 7 collectors of 4 descriptors, 1 gatherer |
| `exposition` | Does what is gathered, written or pushed say what the metrics hold, under the labels they have, and nothing twice?  Is it the same for every order of the hash maps and in both builds?  Does a push go to the group of its job and grouping, and is it refused only for the reasons there are? | 22 things to register in 9 setups of up to 5, 2 calls, 7 pushes of what is gathered or of up to 2 collectors |
| `static_metric` | Does generated code reach the leaf that was meant, and flush every one? | 16 programs, 2 threads, 2 updates, every order of the fields |

Why these bounds are enough to show what they claim:

* `histogram`: with two bounds, an observation falls in the first bucket, the
  second or none, and a flush may have any of the three sets.  Two writers are
  enough for one that is late on the cold shard and one that is already on the
  hot one; two collectors, and as many collects as they like, give both values
  of the shard bit and a collect that has merged before.  Three observations let
  one be merged, one be late and one be new.  `CountRange` is 4, so that all
  counts up to the largest one the assumption admits occur.  In `IInv` this run
  checks the invariant that the proofs use for every value of the constants.
* `atomic_f64`: the addition is modulo 3, so the cell comes back to an earlier
  value (A-B-A) with one thread between another's load and exchange.
* `process_*`: two scrapers suffice for one that overtakes another, and for both adding the same seconds; the small counter
  makes the wrap happen.
* `timer`: one caller with an old time, one with a newer one, and one that
  changes `RECENT` in between.
* `auto_flush`: the clock runs for two intervals, so there are two automatic
  flushes; three increments let one wait through two attempts that are too early.
  The threads are interchangeable, hence the symmetry.
* `metric_vec`: three children: two for a race, and one after a removal.
  Users and metrics are interchangeable; `None` and the labels are not permuted.
* `local_vec`: three children are one for each label and one that follows a
  removed one; the threads remove each other's.  Two increments let one be in a
  local metric and one in a timer.  Threads, labels and children are
  interchangeable.
* `registry`: two descriptors of one name that agree, one of the same name that
  does not, one of another name; collectors of one, two, two equal and no descriptors.  One
  gatherer, because readers change nothing that another reader sees.  The sums
  of ids are distinct, as `SumsAreDistinct` demands.
* `exposition`: a setup is a registry and what is offered to it, chosen so that
  the offers meet: two counters and a vector of one name; a counter and a gauge
  of one name; names and labels that are the same bytes when put together; a name both
  constant and variable; quotes, backslashes and newlines in values and help;
  bounds that end in +Inf, that decrease, that two generators make; a vector with a
  label `le`; a counter named like a histogram's `_count`; names and helps that
  are refused; collectors of other code with a summary, a timestamp, an untyped
  metric, a family without a name and two equal descriptors; a prefix, common
  labels, one that clashes with a label; the default registry.  Two calls are
  enough to make two children, or to register, unregister and register again,
  since every order of offers comes on top of them.
  The pushes have no, one and two grouping labels (the two in both orders), which
  meet constant, variable and common labels of the setups and a metric with a label `job`;
  values that are empty, have a quote or a slash; PUT and POST; URLs with and
  without a scheme, with a closing slash, a path, dots and a user, and two that
  make no request: a bad port, another scheme.
* `static_metric`: plain, local and auto-flushed metrics with one, two and three labels;
  fields whose values are each other's names, and one value under two names; a
  metric named like another's second level; label keys in another order than the
  vector's, and keys that it has not; an enum too late or not visible; a metric
  type and a missing label that are refused, with the compiler or without; a value
  twice, and one named `last_flush`, in the root or below it; values that run together to one
  key, and a label that two levels name.  Three levels are a delegator of a
  delegator.  Two updates put counts in two leaves or in two threads.

### Fairness

Liveness is claimed in two places only.

* `LockReleased`: a thread that has begun a call goes on with it (weak fairness
  of each thread's steps, which is what an operating system's scheduler
  gives).  No thread has to begin a call, and nothing is assumed about who
  gets the mutex.  The observers' steps never wait, so a collector spins only
  while a descheduled writer is between its claim and its count.
* `RecentCatchesUp`: the updater thread wakes up, a spawned thread starts, and
  `now_millis` of the updater goes on.  Its weak exchange may fail spuriously,
  and may be overtaken; strong fairness of the successful exchange says that an
  exchange that can succeed again and again does once.  It is assumed for the
  updater alone; callers may stop at any point of `now_millis`.

### Where the code and its words disagree

1. `process_goes_up` (a bug).  process_collector.rs 165–167 reads the CPU time,
   then the counter, and adds the difference, in steps of their own, and a gather
   holds a read lock only.  A scrape that has read a CPU time of 0 is overtaken by one that
   reads 1 and brings the counter to 1; then the first reads the counter, and its
   `total - past` is 0 - 1: the counter goes back to 0 in a release build, and the
   scrape panics in a debug build.
2. `metric_vec_labels`.  The hash of label values has no separator (vec.rs 110;
   desc.rs 159 writes one), so `("ab", "c")` and `("a", "bc")` are one child.

Other observations, which no run claims as a violation:

* `push` puts job and grouping into the URL as they are ("TODO: escape job", push.rs
  106, and "TODO: check label name", 110).  Of a job `a#1` everything from the `#` on is a
  fragment, which is not sent: the metrics are filed under the job `a` without their grouping,
  and the call returns `Ok`.  A `?`, a backslash, an escape, a job of dots and a
  slash in a label name lead elsewhere, too.  `PushIsFaithful` says where a push goes
  for jobs and groupings without these (`Plainly`); the rest of it holds for all.
* An empty URL is no error: it becomes `http:/`, and what is put behind it
  makes `metrics` the host.
* `remove_label_values` of a local counter vector throws away what was not
  flushed, against a comment of its own test (counter.rs 524).  The local
  histogram's flushes.  `NothingLost` accounts for it as discarded.
* `register` leaves what it has written to `dim_hashes_by_name` (registry.rs 63)
  when it refuses the collector, so a later one may be refused because of
  "a previously registered descriptor" that never was.
* A family without a timestamp sorts first, not last as the comment at
  registry.rs 177 has it: the missing one is read as 0.
* Collectors of different types may share a name if a constant label differs;
  their family has the type of whichever comes first, and the metrics of the
  others are shown as 0 (`EveryChildIsGathered`, `Mixed`).
* A name may be both a constant and a variable label (the `$` of desc.rs 149
  keeps them apart), or a common label and a metric's own: the metric then has it
  twice (`LabelNamesUnique`).
* A counter may be named like the `_count` of a histogram: `SeriesUnique` is
  within a family.
* The process collector is made "for the given process id"
  (process_collector.rs 22), and reads the start time of its own process
  (105).
* A `HistogramVec` is made and registered with bad buckets or a label `le`; only
  its children fail.
* An id is made from the values of constant labels without their names.  The
  names are in the dimensions, which are compared per metric name.
* A bucket of +Inf in a family of other code is written as `le="inf"`.
* `NaN` bounds pass `check_and_adjust_buckets`, since no comparison with them
  holds.

## What is proved

TLAPS proves these for every value of the constants that the named assumptions
admit.

| theorem | says | along |
|---|---|---|
| `HistogramProofs!TypeCorrect` | every variable keeps its shape; the word does not leave its width | the shapes themselves are inductive |
| `HistogramProofs!Invariance` | `IInv` holds always | below |
| `HistogramProofs!SnapshotCorrect`, `SampleSumCorrect` | every collect is a snapshot, every read of the sum is complete | conjuncts of `IInv` |
| `HistogramProofs!Refinement` | `HistogramCore` implements `HistogramSpec` | `IInv`, one lemma per kind of step |
| `HistogramProofs!DrainIsBounded` | no writer enters a shard that is being drained | `IInv` |
| `AtomicsProofs!CellRefinement` | the load/exchange loop implements an atomic cell | the loaded bits equal the cell's when the exchange succeeds |
| `AtomicsProofs!RecentCovers`, `Refinement`, `SingleUpdater` | the clock's properties | `TimerInv`, `UpdaterInv` |
| `AutoFlushProofs!CountsConserved` | every increment is in exactly one place | the sum over the threads changes where one thread's count does (`SumLemmas`) |
| `AutoFlushProofs!StalenessIsBounded`, `FlushesAreApart` | how old data may get, how close flushes may come | `FlushInv` |
| `MetricVecProofs!HeldExported`, `ExportFresh` | the vector's two | `VecInv` |
| `MetricVecProofs!Refinement` | `MetricVec` implements `VecSpec` | `VecInv`: what has no labels yet is nobody's and holds nothing |
| `LocalVecProofs!NoneIsLost` | increments and timings are in one place or were thrown away | three sums, over children, local metrics and timers |
| `LocalVecProofs!AddedIsNat` | never is more thrown away than was added | `NoneIsLost`: each sum is of natural numbers |
| `LocalVecProofs!LocalExported` | a local metric is in front of the exported child exactly if nobody else has removed that, and so never of its successor | inductive with `LocalInv`; a new child is one that nobody holds |
| `RegistryProofs!IdsExact`, `DimensionsSame`, `NoDuplicates` | the registry's three | `RegistryInv` |
| `RegistryProofs!GatherComplete` | a gather has what was there all the while, of every collector it has called, and nothing of an unregistered one | `GatherInv` |
| `RegistryProofs!SoloScrape` | a scrape of the process that is alone is exact | `AloneInv`, and that adding a wrapped difference undoes it |
| `InstrumentationProofs!HashedInjective` | lists of strings that are hashed with the separator behind each are told apart | where the first separator is |
| `InstrumentationProofs!IdentityExact` | equal ids and equal dimensions mean what desc.rs says they mean, for every program | `KeptInv` |
| `InstrumentationProofs!ChildrenAreGathered` | every child of every registered collector of the library is in what is gathered, with its labels and its number | `ScrapeInv`, and the way through `gather` below |
| `InstrumentationProofs!LabelNamesAreUnique` | a gathered metric has no label name twice but for the known reasons | the same |
| `InstrumentationProofs!StructsAreApart` | no two metrics of a program generate structs in one scope | `StructsInv`: every scope is below the next one |
| `InstrumentationProofs!DelegatorsLeadHome` | the offsets of a delegator lead to its own leaf, whatever the labels and the order of the fields | `StructsInv`, and the layout of a struct below |
| `InstrumentationProofs!FlushesAreComplete` | a flush empties every leaf of its thread's root, however deep the tree | `StructsInv`: a root has a leaf at the end of every way (`Rooted`) |
| `InstrumentationProofs!CombinationsExist` | a vector with a root has the children of the combinations of label values, and no others | `CountsInv`, and what `from` makes (`FromMakes`) |
| `InstrumentationProofs!UpdatesConserved` | an update of a leaf is in the child that was meant or in a leaf that is flushed into it | `CountsInv`, and sums over leaves, roots and labels |

**The histogram's invariant.**  `SnapshotIsCut` speaks of the moment of the
return, and nothing in it says why the buckets are right at that moment.
`IInv` says, at every step of every collect, which observations are where.  When
no collector is past its flip, all that is counted is on the hot shard, less what the
writers still have to add, and the cold one is empty (`QuietShards`).
Otherwise there is one collector, by the lock, and the observations of its cut move from the cold
shard through its locals to the hot one, bucket by bucket, while the hot shard takes the later
ones (`CollectShards`, `CollectLocals`); a writer is on the hot shard with
observations after the cut, or, during the wait only, on the cold one with
observations of the cut (`CollectWriters`).  The end of the wait is the crux:
the cold count equals the size of the cut only when no writer is left there,
since a count is a number and each missing observation is missing from it
(`CountHolds`).

**The auto flush's invariant.**  `StalenessBounded` compares the clock with the
time of the oldest increment when a check finds that it is too early; the check itself
compares neither of the two, but `RECENT` with `last_flush`.  `FlushInv` ties
them: `RECENT` is at most `Lag` behind the clock and no root is ahead of it
(`ClockInv`), what a root holds is not older than its `last_flush`, except that
a flush under way has left nothing in the metrics it has been through (`OldestInv`), and
`last_flush` is at most `Lag` behind the clock at which its flush was
decided (`DecidedInv`).  `OldestInv` follows the program counter: a root is
empty before its first increment, is not when an increment asks whether to flush, and is
again when the flush ends, which is where `last_flush` is set.

**Sums.**  `Conserved` and `NothingLost` add up counts over threads, labels and
children.  `SumLemmas` proves about the community modules' `SumFunctionOnSet`, which
adds in an order that `CHOOSE` makes, that the sum is an integer, that it changes by what one
value changes, and that it is the sum of a part and the rest.  The proofs are by
induction, but over the subsets of a finite set: its subsets are well-founded, so
a set of counterexamples has a smallest member.  In `LocalVec` a removal may
orphan many threads' metrics at once and moves nothing (`Vec!Delete` resets no local metric),
while a flush moves one metric's count to the child it is for, which may not be
the exported one; the sum over *all* children is what stays right.
In `StaticMetric` a child has the leaves of many roots, and perhaps of several
combinations; what is summed for it is over all of them.
`LocalInv` says what a step under way has still to do: the labels it has left to flush or
drop are there, and the ones it is to remove from the shared vector are gone from
its own, so that it never orphans itself.

**The vector's invariant.**  A child holds what was credited to the present
generation of its hash, its own labels hash to where it is, and a handle is the
child of its hash or one of an earlier generation.

**The registry's invariant.**  What `register` has so far found distinct and
agreeing stays so because it holds the write lock, and names are never
forgotten, which is why dimensions agree among collectors registered at
different times.  `GatherInv` adds to `GatherIsComplete` that the collectors a gather
has still to call are registered ones, and that what it counts as steadily
populated is populated; it is inductive because no register or unregister has
the write lock while anybody gathers.

**Identity.**  `IdentityIsExact` says of any two of the library's collectors at hand that their ids
are equal exactly when their names and the values of their constant labels are, and their
dimensions exactly when their label names and help are.  `HashedInjective` is the reason:
0xFF is a byte of no string, so the hashed bytes can be cut at it (`LayoutDecides`).
From there on the proof is about what is in a list, in whatever order: the constant
labels are sorted by name before their values are hashed, and equal lists of values
say nothing of the names, which is why those are hashed into the dimension (`SortedAll`,
`NamesSorted`); the `$` before a variable label cannot begin a constant one, because
names are valid (`ValidNames`, `PrefixedNames`).  The theorem is about every
program, so the invariant, `KeptInv`, is that each collector still has the descriptor
of its offer (or is other code's, whose descriptors are not the library's): through
registration, refusal, second registration, and the updates and removals of
children.  `FlattenSeq` and
`StableSort` are recursive functions; they are reasoned about as any function that
satisfies their equation, which exists (`StepsExist`) and is unique, by induction
over the natural numbers below a bound (`AllNumbers`: a set of numbers that has none
missing).

**What is gathered.**  `ScrapeInv` is that the collectors are kept as above, that those of the
registry are among them (`RegistryInv`), and that families just gathered are those of
`gather` in one order of the hash maps.  From there the proof follows the code.  A
collector of the library collects one family, with a metric for each key in whatever order
they come (`CollectOne`), which shows the child's number in a family of its type and nothing in
another (`MetricShows`); what is
collected is that of all the collectors (`CollectedAll`).  The merge is an invariant of its loop (`MergedTo`): every
metric collected so far is in the family of its name, nothing else is, and a family without
metrics is in none of them (`MergeStep`, `FamiliesMerged`); it is the one that a merge that
replaces breaks.  The sort loses none (`SortedMetrics`), and the prefix and the common labels
change neither what a metric shows nor the order of its own labels (`CommonAdded`,
`FinishedFamily`).  For the names of the labels, `LabelledAs` says what `make_label_pairs`
leaves: the constant and the variable names, each once unless `new_desc` has let one
be both (`MadePairs`), and `KeptInv` carries it to every child.  Fields are read
as they were written in either build (`ReadPut`, `ReadOther`), whichever of the
two data models `Read` and `Put` are of.  A family of other code is a list of any metrics, so nothing
is claimed of its contents, only that it loses no child of the others.

**Generated structs.**  Three things must be right for an offset to lead to the right
leaf, and they are lemmas of their own.  A field begins and ends within its struct and two
fields do not overlap, whatever their order: what is before a field in memory is a set of
other fields, and of two fields one is before the other with all that is before it
(`BeforeFields`, `StructLayout`).  What is left of a way, from any level on, stays within
the struct it has come to (`RestOfWay`); so two ways that part at a level never meet again
(`AddressesDiffer`).  And the offset that a delegator hands on for a level is that of the
same field in the same struct (`DelegatorOffsets`); it is this one that a delegator that
forgets an offset breaks.  The rest is about which leaves there are.  `Paths` is the list of
all the ways, `from` makes a leaf for each or panics (`FromRooted`), and a flush goes
through the same list (`FlushEmpties`), so it reaches every one of them.  `StructsInv`
carries this through the program's life: while it is compiled, that the metrics are in
scopes of their own and the compiler has accepted them; then, that the fields were laid
out and that every root is complete.  A root whose `from` has panicked is never used.

**Children of generated structs.**  `CountsInv` ties roots and vector together: every leaf has
the key of the child of its own way (`Keyed`), the children are those of the combinations
(`Combined`), and what is in a child and held for it is what was counted for it
(`Conserves`).  It takes four arguments.  Ways and combinations are the same but for
the names of the fields: every choice of a definition per level is a path (`WaysArePaths`),
so every combination of values is on one (`CombinationsAreWays`), and what a step of an access
leads to, by field, by `get` or by the first arm of `try_get` that matches, is a definition
of the value that is meant (`StepMeans`, `AccessAlong`); for a delegator `DelegatorsLeadHome` says the
rest (`AccessLeads`).  The compiler refuses a field twice, so the name of a way decides its key
(`NamesDecide`).  `from` either finds or makes each child, and whether it can be made depends
on the vector, not on the values (`NewOfAny`), so a root panics at its first leaf or at none
(`FromMakes`): this is why a vector whose root panics stays empty.  Then a flush moves what
a leaf holds and changes no sum (`LeafMoves`, `FlushMoves`), and an update adds one to one
side and one to the other (`CountedMore`, `OneRootKept`).  Nothing is assumed of the hash: where two
combinations share a key, both theorems are about the child they share.

Assumptions.  `HistogramAssumption`: there are fewer observations than the word
can count (2^63); past it the count carries into the shard bit.  `BucketOf` is
any function.  `AtomicF64Assumption`: the set of bit patterns is closed under
addition; no algebra is needed.  `ProcessAssumption`: CPU seconds fit a `u64`.
`RegistryAssumption`: shapes.  `SumsAreDistinct`: sums of ids identify
collectors; without it (a 64-bit collision) `unregister` may remove a collector
other than the one it was given.  `AutoFlushAssumption` and
`LocalVecAssumption`: threads, labels and children are finitely many (they are added over),
no thread is a pair of a thread and a hash, so that holders of a metric have names of their own,
and a clock may lag by a tick.  `OffersAssumption`: the strings a program passes are
UTF-8, in which 0xFF is no byte; a name, a label or a help may be any such string,
valid or not.  `ProgramsAssumption`: what the parser of `static-metric` lets through.  The collectors of other code that are offered are lists of descriptors and of
families with all their fields (`OtherCode`): what the types of the trait say.
`SetupsAssumption`: so is the process collector, and a registry has finitely many common
labels.
All are evaluated by TLC on the instances.  The provers know of no TLA+ string that it is
a string, so `Letters` and `Digits` are sets of characters, and
what is a valid name is read from them.

Only model-checked:

* The liveness properties (`LockReleased`, `RecentCatchesUp`): liveness under fairness is beyond the prover.
* Of `gather`, that its output is the same for every order of the hash maps
  (`GatherIsReproducible`).  That would need the order that the insertion sort
  makes, not only what it keeps, and that two metrics of one family never compare equal.
* What `Exposition` writes: `TextIsFaithful`, `BuildsAgree`, `SeriesUnique`,
  `HistogramSeries`, `WireIsFaithful`, `PushIsFaithful`.  Encoders and readers recurse over
  messages and text (`Wire` and `TextFormat` by `RECURSIVE` operators), and what a
  recursive definition computes for every input is for the most part out of the prover's reach.

In the other direction, `IInv` is an invariant of the run `histogram`, and `FlushInv` and `LocalInv` hold on the
instances of `auto_flush` and `local_vec`; `KeptInv` cannot be evaluated, since it
quantifies over all strings, and what it is for, `IdentityIsExact`, is checked by the run `exposition`.

## What is not modelled

* In the modules about interleavings, the value of an observation, of a label or
  of a name, except where two of them may be confused.  In the modules about
  output, rounding and overflow of doubles (so `exponential_buckets` never
  reaches +Inf), and characters that are not ASCII: a string of the runs is made of those in `Bytes`.
* The gauges of the process collector: stores of what `/proc` says.
* What a `u64` or `i64` loses when it is exported as a double.
* Tokens and syntax errors of `static-metric`, and its `register_static_*`
  macros beyond the call of `from`.
* The `int` and `with_registry` variants of the macros, which differ from
  the modelled ones in a type or in the registry that is called.
* Errors of the writer that an encoder is given, reflection and debug output of
  the generated messages, the HTTP client and the Pushgateway beyond the path it reads.
* Hash collisions in FNV; memory exhaustion; collectors of users that call the
  registry that is calling them.
* Benchmarks and examples: programs that use the library.

## Plan

Done, in this order: the histogram, its abstract specification and proofs; the
cells; the process collector; the clock and auto flush; the vectors; the
registry; the local vectors with their timers; options, descriptors, data model
and the way to the encoders and to push; `static-metric`; completeness of a gather;
proofs of conservation and of the staleness bound, of what identifies a
collector, of where generated code finds its leaves and what its updates come to, and of
what a gather has in it.

Left, in the order of worth:

1. A proof of `GatherIsReproducible`.
2. The registry over vectors that come and go.
3. The gauges of the process collector, with a `/proc` that fails half way.
