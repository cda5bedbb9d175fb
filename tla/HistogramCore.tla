---------------------------- MODULE HistogramCore ----------------------------
(***************************************************************************)
(* HistogramCore of histogram.rs, with LocalHistogramCore::flush: writers   *)
(* record observations on the hot shard while collectors flip the shards,   *)
(* wait for the cold one to drain, snapshot it and merge it into the hot    *)
(* one.  Every step is one access to one atomic.                            *)
(*                                                                          *)
(* The data is that of HistogramData, except that the counts which the code *)
(* compares (shard_and_count and the shards' count) are numbers.            *)
(***************************************************************************)
EXTENDS ShardAndCount, HistogramData

CONSTANTS
    Writers,    \* threads that observe or flush a local histogram
    Collectors, \* threads that collect the histogram (proto)
    Readers,    \* threads that call get_sample_sum
    NoOwner,    \* the lock is free
    NoResult    \* the call has not returned

ASSUME HistogramAssumption ==
    /\ Cardinality(Obs) < CountRange
    /\ NoOwner \notin Collectors \cup Readers
    /\ Collectors \cap Readers = {}
    /\ \A S \in SUBSET Obs : NoResult # S /\ NoResult # Snapshot(S)

VARIABLES
    shardAndCount,  \* the packed word
    count,          \* count[s]: observations completed on shard s
    sum,            \* sum[s]: the tally behind the shard's f64
    bucket,         \* bucket[s][b]: the tally behind each bucket counter
    lock,           \* collect_lock
    wpc,            \* where each writer is
    batch,          \* what it records: {v} in observe, the local data in flush
    wshard,         \* the shard that the increment of the word returned
    left,           \* the buckets it has still to add to
    cpc,            \* where each collector is
    cold,           \* cold_shard_index
    overall,        \* overall_count
    coldSum,        \* cold_shard_sum
    i,              \* the loop index over the bounds
    coldBucket,     \* cold_bucket_count
    cumulative,     \* cumulative_count after each bound
    result,         \* the snapshot that the collector's last call returned
    rpc,            \* where each reader is
    rshard,         \* the shard a reader has chosen
    sample,         \* the sum that the reader's last call returned
    claimed,        \* history: the observations counted in the packed word
    cut,            \* history: claimed, when the collector flipped
    before          \* history: what was recorded when the reader got the lock

wvars == <<wpc, batch, wshard, left>>
cvars == <<cpc, cold, overall, coldSum, i, coldBucket, cumulative, result, cut>>
rvars == <<rpc, rshard, sample, before>>
shards == <<count, sum, bucket>>
vars == <<shardAndCount, shards, lock, wvars, cvars, rvars, claimed>>

Hot == ShardIndex(shardAndCount)

\* The observations whose call has returned.
Recorded == claimed \ UNION {batch[w] : w \in Writers}

-----------------------------------------------------------------------------
\* HistogramCore::new
Init ==
    /\ shardAndCount = 0
    /\ count = [s \in Shard |-> 0]
    /\ sum = [s \in Shard |-> Zero]
    /\ bucket = [s \in Shard |-> [b \in Bounds |-> Zero]]
    /\ lock = NoOwner
    /\ wpc = [w \in Writers |-> "idle"]
    /\ batch = [w \in Writers |-> {}]
    /\ wshard = [w \in Writers |-> 0]
    /\ left = [w \in Writers |-> {}]
    /\ cpc = [c \in Collectors |-> "idle"]
    /\ cold = [c \in Collectors |-> 0]
    /\ overall = [c \in Collectors |-> 0]
    /\ coldSum = [c \in Collectors |-> Zero]
    /\ i = [c \in Collectors |-> 1]
    /\ coldBucket = [c \in Collectors |-> Zero]
    /\ cumulative = [c \in Collectors |-> [b \in 0 .. NB |-> Zero]]
    /\ result = [c \in Collectors |-> NoResult]
    /\ rpc = [r \in Readers |-> "idle"]
    /\ rshard = [r \in Readers |-> 0]
    /\ sample = [r \in Readers |-> NoResult]
    /\ claimed = {}
    /\ cut = [c \in Collectors |-> {}]
    /\ before = [r \in Readers |-> {}]

-----------------------------------------------------------------------------
(***************************************************************************)
(* observe, and LocalHistogramCore::flush of a non-empty local histogram.   *)
(***************************************************************************)

\* shard_and_count.inc_by: count the batch and learn the hot shard.
Claim(w, B) ==
    /\ wpc[w] = "idle"
    /\ B # {}
    /\ B \cap claimed = {}
    /\ wshard' = [wshard EXCEPT ![w] = Hot]
    /\ shardAndCount' = IncWord(shardAndCount, Cardinality(B))
    /\ claimed' = claimed \cup B
    /\ batch' = [batch EXCEPT ![w] = B]
    /\ left' = [left EXCEPT ![w] = {BucketOf[o] : o \in B} \cap Bounds]
    /\ wpc' = [wpc EXCEPT ![w] = "add"]
    /\ UNCHANGED <<shards, lock, cvars, rvars>>

Observe(w, o) == Claim(w, {o})

Flush(w, B) == Claim(w, B)

\* shard.buckets[i].inc_by, in increasing order of i; an observation above
\* every bound is in no bucket.
AddToBucket(w) ==
    /\ wpc[w] = "add"
    /\ \E b \in left[w] :
        /\ \A d \in left[w] : b <= d
        /\ bucket' = [bucket EXCEPT ![wshard[w]][b] =
                        Plus(@, TallyOf({o \in batch[w] : BucketOf[o] = b}))]
        /\ left' = [left EXCEPT ![w] = @ \ {b}]
    /\ UNCHANGED <<shardAndCount, count, sum, lock, wpc, batch, wshard, cvars, rvars, claimed>>

\* shard.sum.inc_by; its compare-and-swap loop is the subject of AtomicF64.
AddToSum(w) ==
    /\ wpc[w] = "add"
    /\ left[w] = {}
    /\ sum' = [sum EXCEPT ![wshard[w]] = Plus(@, TallyOf(batch[w]))]
    /\ wpc' = [wpc EXCEPT ![w] = "count"]
    /\ UNCHANGED <<shardAndCount, count, bucket, lock, batch, wshard, left, cvars, rvars, claimed>>

\* shard.count.inc_by, the last step of the call; a flush also clears the
\* local histogram.
AddToCount(w) ==
    /\ wpc[w] = "count"
    /\ count' = [count EXCEPT ![wshard[w]] = @ + Cardinality(batch[w])]
    /\ wpc' = [wpc EXCEPT ![w] = "idle"]
    /\ batch' = [batch EXCEPT ![w] = {}]
    /\ wshard' = [wshard EXCEPT ![w] = 0]
    /\ UNCHANGED <<shardAndCount, sum, bucket, lock, left, cvars, rvars, claimed>>

WriterStep(w) == AddToBucket(w) \/ AddToSum(w) \/ AddToCount(w)

-----------------------------------------------------------------------------
(***************************************************************************)
(* proto, the collect operation.                                            *)
(***************************************************************************)

LockCollect(c) ==
    /\ cpc[c] = "idle"
    /\ lock = NoOwner
    /\ lock' = c
    /\ cpc' = [cpc EXCEPT ![c] = "flip"]
    /\ result' = [result EXCEPT ![c] = NoResult]
    /\ UNCHANGED <<shardAndCount, shards, wvars, cold, overall, coldSum, i, coldBucket, cumulative, cut, rvars, claimed>>

Flip(c) ==
    /\ cpc[c] = "flip"
    /\ cold' = [cold EXCEPT ![c] = Hot]
    /\ overall' = [overall EXCEPT ![c] = ObsCount(shardAndCount)]
    /\ shardAndCount' = FlipWord(shardAndCount)
    /\ cut' = [cut EXCEPT ![c] = claimed]
    /\ cpc' = [cpc EXCEPT ![c] = "drain"]
    /\ UNCHANGED <<shards, lock, wvars, coldSum, i, coldBucket, cumulative, result, rvars, claimed>>

\* Mutant: the collector does not wait for the writers on the cold shard.
DrainedAlways(c) == TRUE

\* The guard of the compare_exchange_weak: a failure, spurious or not, goes
\* round the loop and changes nothing.
Drained(c) == count[cold[c]] = overall[c]

Drain(c) ==
    /\ cpc[c] = "drain"
    /\ Drained(c)
    /\ count' = [count EXCEPT ![cold[c]] = 0]
    /\ cpc' = [cpc EXCEPT ![c] = "sum"]
    /\ UNCHANGED <<shardAndCount, sum, bucket, lock, wvars, cold, overall, coldSum, i, coldBucket, cumulative, result, cut, rvars, claimed>>

SwapSum(c) ==
    /\ cpc[c] = "sum"
    /\ coldSum' = [coldSum EXCEPT ![c] = sum[cold[c]]]
    /\ sum' = [sum EXCEPT ![cold[c]] = Zero]
    /\ cpc' = [cpc EXCEPT ![c] = "swap"]
    /\ UNCHANGED <<shardAndCount, count, bucket, lock, wvars, cold, overall, i, coldBucket, cumulative, result, cut, rvars, claimed>>

\* One iteration over the bounds is two atomic steps: take the cold bucket
\* and then add it to the hot one.
SwapBucket(c) ==
    /\ cpc[c] = "swap"
    /\ i[c] <= NB
    /\ coldBucket' = [coldBucket EXCEPT ![c] = bucket[cold[c]][i[c]]]
    /\ bucket' = [bucket EXCEPT ![cold[c]][i[c]] = Zero]
    /\ cpc' = [cpc EXCEPT ![c] = "merge"]
    /\ UNCHANGED <<shardAndCount, count, sum, lock, wvars, cold, overall, coldSum, i, cumulative, result, cut, rvars, claimed>>

MergeBucket(c) ==
    /\ cpc[c] = "merge"
    /\ bucket' = [bucket EXCEPT ![Other(cold[c])][i[c]] = Plus(@, coldBucket[c])]
    /\ cumulative' = [cumulative EXCEPT ![c][i[c]] = Plus(cumulative[c][i[c] - 1], coldBucket[c])]
    /\ i' = [i EXCEPT ![c] = @ + 1]
    /\ coldBucket' = [coldBucket EXCEPT ![c] = Zero]
    /\ cpc' = [cpc EXCEPT ![c] = "swap"]
    /\ UNCHANGED <<shardAndCount, count, sum, lock, wvars, cold, overall, coldSum, result, cut, rvars, claimed>>

\* Mutant: the hot shard's count misses the observations of the cold one.
MergeCountForgotten(c) ==
    /\ cpc[c] = "swap"
    /\ i[c] > NB
    /\ cpc' = [cpc EXCEPT ![c] = "mergesum"]
    /\ UNCHANGED <<shardAndCount, shards, lock, wvars, cold, overall, coldSum, i, coldBucket, cumulative, result, cut, rvars, claimed>>

MergeCount(c) ==
    /\ cpc[c] = "swap"
    /\ i[c] > NB
    /\ count' = [count EXCEPT ![Other(cold[c])] = @ + overall[c]]
    /\ cpc' = [cpc EXCEPT ![c] = "mergesum"]
    /\ UNCHANGED <<shardAndCount, sum, bucket, lock, wvars, cold, overall, coldSum, i, coldBucket, cumulative, result, cut, rvars, claimed>>

\* Mutant: the hot shard's sum misses the observations of the cold one.
MergeSumForgotten(c) ==
    /\ cpc[c] = "mergesum"
    /\ cpc' = [cpc EXCEPT ![c] = "unlock"]
    /\ UNCHANGED <<shardAndCount, shards, lock, wvars, cold, overall, coldSum, i, coldBucket, cumulative, result, cut, rvars, claimed>>

MergeSum(c) ==
    /\ cpc[c] = "mergesum"
    /\ sum' = [sum EXCEPT ![Other(cold[c])] = Plus(@, coldSum[c])]
    /\ cpc' = [cpc EXCEPT ![c] = "unlock"]
    /\ UNCHANGED <<shardAndCount, count, bucket, lock, wvars, cold, overall, coldSum, i, coldBucket, cumulative, result, cut, rvars, claimed>>

\* drop(collect_guard), and the call returns: its locals are gone.
UnlockCollect(c) ==
    /\ cpc[c] = "unlock"
    /\ lock' = NoOwner
    /\ result' = [result EXCEPT ![c] =
                    [count |-> overall[c], sum |-> coldSum[c],
                     cumulative |-> [b \in Bounds |-> cumulative[c][b]]]]
    /\ cpc' = [cpc EXCEPT ![c] = "idle"]
    /\ cold' = [cold EXCEPT ![c] = 0]
    /\ overall' = [overall EXCEPT ![c] = 0]
    /\ coldSum' = [coldSum EXCEPT ![c] = Zero]
    /\ i' = [i EXCEPT ![c] = 1]
    /\ cumulative' = [cumulative EXCEPT ![c] = [b \in 0 .. NB |-> Zero]]
    /\ UNCHANGED <<shardAndCount, shards, wvars, coldBucket, cut, rvars, claimed>>

\* Everything a collector does once it holds the lock.
CollectorStep(c) ==
    \/ Flip(c)       \/ Drain(c)
    \/ SwapSum(c)    \/ SwapBucket(c) \/ MergeBucket(c)
    \/ MergeCount(c) \/ MergeSum(c)   \/ UnlockCollect(c)

-----------------------------------------------------------------------------
(***************************************************************************)
(* sample_sum; its guard is dropped when it returns.  sample_count is one   *)
(* load of the word and takes no lock.                                      *)
(***************************************************************************)

\* Mutant: sample_sum does not take collect_lock.
MayReadAlways == TRUE

\* What sample_sum waits for.
MayRead == lock = NoOwner

LockRead(r) ==
    /\ rpc[r] = "idle"
    /\ MayRead
    /\ lock' = r
    /\ rpc' = [rpc EXCEPT ![r] = "shard"]
    /\ sample' = [sample EXCEPT ![r] = NoResult]
    /\ before' = [before EXCEPT ![r] = Recorded]
    /\ UNCHANGED <<shardAndCount, shards, wvars, cvars, rshard, claimed>>

ReadShard(r) ==
    /\ rpc[r] = "shard"
    /\ rshard' = [rshard EXCEPT ![r] = Hot]
    /\ rpc' = [rpc EXCEPT ![r] = "sum"]
    /\ UNCHANGED <<shardAndCount, shards, lock, wvars, cvars, sample, before, claimed>>

ReadSum(r) ==
    /\ rpc[r] = "sum"
    /\ sample' = [sample EXCEPT ![r] = sum[rshard[r]]]
    /\ lock' = NoOwner
    /\ rpc' = [rpc EXCEPT ![r] = "idle"]
    /\ rshard' = [rshard EXCEPT ![r] = 0]
    /\ UNCHANGED <<shardAndCount, shards, wvars, cvars, before, claimed>>

ReaderStep(r) == ReadShard(r) \/ ReadSum(r)

-----------------------------------------------------------------------------
Next ==
    \/ \E w \in Writers :
        \/ \E o \in Obs : Observe(w, o)
        \/ \E B \in SUBSET Obs : Flush(w, B)
        \/ WriterStep(w)
    \/ \E c \in Collectors : LockCollect(c) \/ CollectorStep(c)
    \/ \E r \in Readers : LockRead(r) \/ ReaderStep(r)

Spec == Init /\ [][Next]_vars

(***************************************************************************)
(* A thread that has begun an operation goes on with it; none has to begin  *)
(* one, and the mutex promises no fairness.                                 *)
(***************************************************************************)
Fairness ==
    /\ \A w \in Writers : WF_vars(WriterStep(w))
    /\ \A c \in Collectors : WF_vars(CollectorStep(c))
    /\ \A r \in Readers : WF_vars(ReaderStep(r))

FairSpec == Spec /\ Fairness

-----------------------------------------------------------------------------
\* The shapes of the variables (the packed word of ShardAndCount, the shards'
\* atomics, and the locals of the three kinds of call).
TypeOK ==
    /\ shardAndCount \in Word
    /\ count \in [Shard -> Nat]
    /\ sum \in [Shard -> Tally]
    /\ bucket \in [Shard -> [Bounds -> Tally]]
    /\ lock \in {NoOwner} \cup Collectors \cup Readers
    /\ wpc \in [Writers -> {"idle", "add", "count"}]
    /\ batch \in [Writers -> SUBSET Obs]
    /\ wshard \in [Writers -> Shard]
    /\ left \in [Writers -> SUBSET Bounds]
    /\ cpc \in [Collectors -> {"idle", "flip", "drain", "sum", "swap", "merge", "mergesum", "unlock"}]
    /\ cold \in [Collectors -> Shard]
    /\ overall \in [Collectors -> Nat]
    /\ coldSum \in [Collectors -> Tally]
    /\ i \in [Collectors -> 1 .. NB + 1]
    /\ \A c \in Collectors : cpc[c] = "merge" => i[c] \in Bounds
    /\ coldBucket \in [Collectors -> Tally]
    /\ cumulative \in [Collectors -> [0 .. NB -> Tally]]
    /\ result \in [Collectors -> {NoResult} \cup
                    [count : Nat, sum : Tally, cumulative : [Bounds -> Tally]]]
    /\ rpc \in [Readers -> {"idle", "shard", "sum"}]
    /\ rshard \in [Readers -> Shard]
    /\ sample \in [Readers -> {NoResult} \cup Tally]
    /\ claimed \in SUBSET Obs
    /\ cut \in [Collectors -> SUBSET Obs]
    /\ before \in [Readers -> SUBSET Obs]

(***************************************************************************)
(* The abstract histogram: an observation is recorded when the word counts  *)
(* it, and a collect takes what the word counts when it flips the shards.   *)
(***************************************************************************)
Taken == [c \in Collectors |->
            IF cpc[c] = "flip" \/ (cpc[c] = "idle" /\ result[c] = NoResult)
            THEN NoResult ELSE cut[c]]

Abstract == INSTANCE HistogramSpec WITH observed <- claimed, taken <- Taken

\* Whatever the interleaving of writers and collectors, proto implements an
\* atomic snapshot: histogram.rs's "Atomicity across collects".
ImplementsAbstract == Abstract!AbstractSpec

\* The snapshot proto returns is of exactly the observations that the word
\* counted when it flipped the shards: none half recorded, none lost in the
\* cold shard of an earlier collect, none twice; so its count is the number of
\* observations behind its sum and its buckets.
SnapshotIsCut ==
    \A c \in Collectors :
        result[c] # NoResult => result[c] = Snapshot(cut[c])

\* What sample_sum returns holds every observation that had been recorded
\* when it got the lock, and no observation twice or before its time: it
\* never reads a shard that a collect is emptying.
SampleSumComplete ==
    \A r \in Readers : sample[r] # NoResult =>
        /\ \A o \in before[r] : sample[r][o] = 1
        /\ \A o \in Obs : sample[r][o] = 0 \/ (sample[r][o] = 1 /\ o \in claimed)

InFlight(s) == {w \in Writers : wpc[w] # "idle" /\ wshard[w] = s}

\* While a collector waits for the cold shard, no writer enters it: those it
\* waits for are in flight at the flip and only get fewer, however many new
\* observations are made.
ColdShardDrains ==
    [][\A c \in Collectors :
        (cpc[c] = "drain" /\ cpc'[c] = "drain") => InFlight(cold[c])' \subseteq InFlight(cold[c])]_vars

\* A thread that got collect_lock gives it back: the wait of a collector on
\* the cold shard's count always ends.
LockReleased == (lock # NoOwner) ~> (lock = NoOwner)

-----------------------------------------------------------------------------
(***************************************************************************)
(* The inductive invariant behind SnapshotIsCut and SampleSumComplete.      *)
(***************************************************************************)
Flipped(c) == cpc[c] \notin {"idle", "flip"}

Pending(o) == \E w \in Writers : wpc[w] # "idle" /\ o \in batch[w]
SumPending(o) == \E w \in Writers : wpc[w] = "add" /\ o \in batch[w]
BucketPending(o) == \E w \in Writers : BucketOf[o] \in left[w] /\ o \in batch[w]

\* The shard's atomics hold the observations of S, except those that a writer
\* has yet to add.
SumHolds(s, S) ==
    \A o \in Obs : sum[s][o] = IF o \in S /\ ~SumPending(o) THEN 1 ELSE 0
BucketHolds(s, b, S) ==
    \A o \in Obs : bucket[s][b][o] =
        IF o \in S /\ BucketOf[o] = b /\ ~BucketPending(o) THEN 1 ELSE 0
CountHolds(s, S) == count[s] = Cardinality({o \in S : ~Pending(o)})

\* One thread at most is in a section that needs the lock.
LockInv ==
    /\ \A c \in Collectors : cpc[c] # "idle" <=> lock = c
    /\ \A r \in Readers : rpc[r] # "idle" <=> lock = r

\* What a collector starts from.
CallInv ==
    \A c \in Collectors :
        /\ cpc[c] # "idle" => result[c] = NoResult
        /\ ~Flipped(c) => i[c] = 1 /\ cumulative[c][0] = Zero

\* Who is recording what.
WriterInv ==
    /\ ObsCount(shardAndCount) = Cardinality(claimed)
    /\ \A w \in Writers :
        /\ batch[w] \subseteq claimed
        /\ wpc[w] = "idle" <=> batch[w] = {}
        /\ wpc[w] # "add" => left[w] = {}
        /\ \A b \in left[w] : \E o \in batch[w] : BucketOf[o] = b
        /\ \A v \in Writers : v # w => batch[v] \cap batch[w] = {}

\* With no flipped collector everything counted is on the hot shard, and the
\* cold one is empty.
QuietShards ==
    /\ SumHolds(Hot, claimed)
    /\ SumHolds(Other(Hot), {})
    /\ CountHolds(Hot, claimed)
    /\ CountHolds(Other(Hot), {})
    /\ \A b \in Bounds : BucketHolds(Hot, b, claimed)
    /\ \A b \in Bounds : BucketHolds(Other(Hot), b, {})
    /\ \A w \in Writers : wpc[w] # "idle" => wshard[w] = Hot

QuietInv == (\A c \in Collectors : ~Flipped(c)) => QuietShards

\* In a collect, the observations of the cut move from the cold shard through
\* the collector's locals to the hot one, which has the later observations.
CollectShards(c) ==
    /\ SumHolds(cold[c], IF cpc[c] \in {"drain", "sum"} THEN cut[c] ELSE {})
    /\ SumHolds(Hot, IF cpc[c] = "unlock" THEN claimed ELSE claimed \ cut[c])
    /\ CountHolds(cold[c], IF cpc[c] = "drain" THEN cut[c] ELSE {})
    /\ CountHolds(Hot, IF cpc[c] \in {"mergesum", "unlock"} THEN claimed ELSE claimed \ cut[c])
    /\ \A b \in Bounds : BucketHolds(cold[c], b,
            IF i[c] < b \/ (i[c] = b /\ cpc[c] # "merge") THEN cut[c] ELSE {})
    /\ \A b \in Bounds : BucketHolds(Hot, b, IF b < i[c] THEN claimed ELSE claimed \ cut[c])

CollectWriters(c) ==
    \A w \in Writers : wpc[w] # "idle" =>
        \/ wshard[w] = Hot /\ batch[w] \cap cut[c] = {}
        \/ wshard[w] = cold[c] /\ batch[w] \subseteq cut[c] /\ cpc[c] = "drain"

\* What the collector has in its locals.
CollectLocals(c) ==
    /\ cold[c] = Other(Hot)
    /\ cut[c] \subseteq claimed
    /\ overall[c] = Cardinality(cut[c])
    /\ cpc[c] \in {"drain", "sum"} => i[c] = 1
    /\ cpc[c] \in {"mergesum", "unlock"} => i[c] = NB + 1
    /\ cpc[c] \notin {"drain", "sum"} => coldSum[c] = TallyOf(cut[c])
    /\ cpc[c] = "merge" => coldBucket[c] = TallyOf({o \in cut[c] : BucketOf[o] = i[c]})
    /\ \A b \in 0 .. NB : b < i[c] =>
         cumulative[c][b] = TallyOf({o \in cut[c] : BucketOf[o] <= b})

CollectInv ==
    \A c \in Collectors : Flipped(c) =>
        CollectShards(c) /\ CollectWriters(c) /\ CollectLocals(c)

\* While a reader is between its lock and its load, nobody flips the shards.
ReaderInv ==
    \A r \in Readers :
        /\ before[r] \subseteq claimed
        /\ rpc[r] # "idle" => \A w \in Writers : batch[w] \cap before[r] = {}
        /\ rpc[r] = "sum" => rshard[r] = Hot

IInv ==
    /\ LockInv /\ CallInv /\ WriterInv /\ QuietInv /\ CollectInv /\ ReaderInv
    /\ SnapshotIsCut /\ SampleSumComplete
=============================================================================
