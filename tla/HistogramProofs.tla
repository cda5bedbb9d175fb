--------------------------- MODULE HistogramProofs ---------------------------
(***************************************************************************)
(* Proofs about HistogramCore, for any number of observations, writers,     *)
(* collectors, readers and buckets.                                         *)
(***************************************************************************)
EXTENDS HistogramCore, FiniteSetTheorems, TLAPS

-----------------------------------------------------------------------------
(***************************************************************************)
(* Facts about the operators.                                               *)
(***************************************************************************)

\* flip inverts the shard and keeps the count (ShardAndCount::flip).
LEMMA FlipFacts ==
    ASSUME NEW n \in Word
    PROVE  /\ FlipWord(n) \in Word
           /\ ShardIndex(FlipWord(n)) = Other(ShardIndex(n))
           /\ ObsCount(FlipWord(n)) = ObsCount(n)
  BY CountRangeAssumption DEF Word, FlipWord, WrapAdd, ShardIndex, ObsCount, Other

\* inc_by leaves the shard untouched as long as the count fits its bits
\* (ShardAndCount::inc_by).
LEMMA IncFacts ==
    ASSUME NEW n \in Word, NEW d \in Nat, ObsCount(n) + d < CountRange
    PROVE  /\ IncWord(n, d) \in Word
           /\ ShardIndex(IncWord(n, d)) = ShardIndex(n)
           /\ ObsCount(IncWord(n, d)) = ObsCount(n) + d
  BY CountRangeAssumption DEF Word, IncWord, WrapAdd, ShardIndex, ObsCount

\* Adding any batch to the word gives a word, even when the count overflows.
LEMMA IncIsWord ==
    ASSUME NEW n \in Word, NEW d \in Word
    PROVE  IncWord(n, d) \in Word
  BY CountRangeAssumption DEF Word, IncWord, WrapAdd

LEMMA ShardFacts ==
    /\ \A n : ShardIndex(n) \in Shard
    /\ \A n \in Word : ObsCount(n) \in Nat
    /\ \A s \in Shard : Other(s) \in Shard /\ Other(s) # s /\ Other(Other(s)) = s
  BY CountRangeAssumption DEF Word, ShardIndex, ObsCount, Shard, Other

\* Every batch and every history set is finite and has a count.
LEMMA ObsFacts ==
    ASSUME NEW S, S \subseteq Obs
    PROVE  /\ IsFiniteSet(S)
           /\ Cardinality(S) \in Nat
           /\ Cardinality(S) < CountRange
           /\ Cardinality(S) \in Word
  <1>1. /\ IsFiniteSet(S) /\ Cardinality(S) <= Cardinality(Obs)
        /\ Cardinality(S) \in Nat /\ Cardinality(Obs) \in Nat
    BY DataAssumption, FS_Subset, FS_CardinalityType
  <1>2. QED
    BY <1>1, HistogramAssumption, CountRangeAssumption DEF Word

LEMMA TallyFacts ==
    /\ Zero \in Tally
    /\ \A S : TallyOf(S) \in Tally
    /\ \A f, g \in Tally : Plus(f, g) \in Tally
  BY DEF Zero, Tally, TallyOf, Plus

-----------------------------------------------------------------------------
(***************************************************************************)
(* Type correctness.                                                        *)
(***************************************************************************)
LEMMA InitTypeOK == Init => TypeOK
  BY CountRangeAssumption, DataAssumption, TallyFacts
     DEF Init, TypeOK, Word, Shard, Bounds

LEMMA ClaimTypeOK ==
    ASSUME TypeOK, NEW w \in Writers, NEW B \in SUBSET Obs, Claim(w, B)
    PROVE  TypeOK'
  <1>1. shardAndCount' \in Word
    BY ObsFacts, IncIsWord DEF Claim, TypeOK
  <1>2. QED
    BY <1>1, ShardFacts DEF Claim, TypeOK, Hot, shards, cvars, rvars

LEMMA WriterStepTypeOK ==
    ASSUME TypeOK, NEW w \in Writers, WriterStep(w)
    PROVE  TypeOK'
  <1>1. CASE AddToBucket(w)
    BY <1>1, TallyFacts DEF AddToBucket, TypeOK, cvars, rvars
  <1>2. CASE AddToSum(w)
    BY <1>2, TallyFacts DEF AddToSum, TypeOK, cvars, rvars
  <1>3. CASE AddToCount(w)
    <2>1. Cardinality(batch[w]) \in Nat
      BY ObsFacts DEF TypeOK
    <2>2. QED
      BY <1>3, <2>1 DEF AddToCount, TypeOK, Shard, cvars, rvars
  <1>4. QED
    BY <1>1, <1>2, <1>3 DEF WriterStep

LEMMA LockCollectTypeOK ==
    ASSUME TypeOK, NEW c \in Collectors, LockCollect(c)
    PROVE  TypeOK'
  BY DEF LockCollect, TypeOK, shards, wvars, rvars

LEMMA CollectorStepTypeOK ==
    ASSUME TypeOK, NEW c \in Collectors, CollectorStep(c)
    PROVE  TypeOK'
  <1>1. CASE Flip(c)
    BY <1>1, ShardFacts, FlipFacts DEF Flip, TypeOK, Hot, shards, wvars, rvars
  <1>2. CASE Drain(c)
    BY <1>2 DEF Drain, TypeOK, wvars, rvars
  <1>3. CASE SwapSum(c)
    BY <1>3, TallyFacts DEF SwapSum, TypeOK, wvars, rvars
  <1>4. CASE SwapBucket(c)
    BY <1>4, TallyFacts, DataAssumption DEF SwapBucket, TypeOK, Bounds, wvars, rvars
  <1>5. CASE MergeBucket(c)
    <2>1. i[c] \in Bounds /\ i[c] - 1 \in 0 .. NB /\ i[c] + 1 \in 1 .. NB + 1 /\ i[c] \in 0 .. NB
      BY <1>5, DataAssumption DEF MergeBucket, TypeOK, Bounds
    <2>2. Plus(cumulative[c][i[c] - 1], coldBucket[c]) \in Tally
      <3>1. cumulative[c][i[c] - 1] \in Tally /\ coldBucket[c] \in Tally
        BY <2>1 DEF TypeOK
      <3>2. QED
        BY <3>1, TallyFacts
    <2>3. cumulative' \in [Collectors -> [0 .. NB -> Tally]]
      BY <1>5, <2>1, <2>2 DEF MergeBucket, TypeOK
    <2>4. bucket' \in [Shard -> [Bounds -> Tally]]
      <3>1. Other(cold[c]) \in Shard
        BY ShardFacts DEF TypeOK
      <3>2. Plus(bucket[Other(cold[c])][i[c]], coldBucket[c]) \in Tally
        BY <2>1, <3>1, TallyFacts DEF TypeOK
      <3>3. QED
        BY <1>5, <2>1, <3>1, <3>2 DEF MergeBucket, TypeOK
    <2>5. i' \in [Collectors -> 1 .. NB + 1]
      BY <1>5, <2>1 DEF MergeBucket, TypeOK
    <2>6. coldBucket' \in [Collectors -> Tally]
      BY <1>5, TallyFacts DEF MergeBucket, TypeOK
    <2>7. \A d \in Collectors : cpc'[d] = "merge" => i'[d] \in Bounds
      BY <1>5 DEF MergeBucket, TypeOK
    <2>8. QED
      BY <1>5, <2>3, <2>4, <2>5, <2>6, <2>7 DEF MergeBucket, TypeOK, wvars, rvars
  <1>6. CASE MergeCount(c)
    <2>1. /\ Other(cold[c]) \in Shard
          /\ count[Other(cold[c])] + overall[c] \in Nat
      BY ShardFacts DEF TypeOK
    <2>2. count' \in [Shard -> Nat]
      BY <1>6, <2>1 DEF MergeCount, TypeOK
    <2>3. QED
      BY <1>6, <2>2 DEF MergeCount, TypeOK, wvars, rvars
  <1>7. CASE MergeSum(c)
    BY <1>7, TallyFacts DEF MergeSum, TypeOK, wvars, rvars
  <1>8. CASE UnlockCollect(c)
    <2>1. [b \in Bounds |-> cumulative[c][b]] \in [Bounds -> Tally]
      BY DataAssumption DEF TypeOK, Bounds
    <2>2. result' \in [Collectors -> {NoResult} \cup
                    [count : Nat, sum : Tally, cumulative : [Bounds -> Tally]]]
      BY <1>8, <2>1 DEF UnlockCollect, TypeOK
    <2>3. 1 \in 1 .. NB + 1
      BY DataAssumption
    <2>4. QED
      BY <1>8, <2>2, <2>3, TallyFacts
         DEF UnlockCollect, TypeOK, Shard, shards, wvars, rvars
  <1>9. QED
    BY <1>1, <1>2, <1>3, <1>4, <1>5, <1>6, <1>7, <1>8 DEF CollectorStep

LEMMA ReaderTypeOK ==
    ASSUME TypeOK, NEW r \in Readers, LockRead(r) \/ ReaderStep(r)
    PROVE  TypeOK'
  <1>1. CASE LockRead(r)
    BY <1>1 DEF LockRead, TypeOK, Recorded, shards, wvars, cvars
  <1>2. CASE ReadShard(r)
    BY <1>2, ShardFacts DEF ReadShard, TypeOK, Hot, shards, wvars, cvars
  <1>3. CASE ReadSum(r)
    BY <1>3 DEF ReadSum, TypeOK, Shard, shards, wvars, cvars
  <1>4. QED
    BY <1>1, <1>2, <1>3 DEF ReaderStep

\* The variables keep their types: in particular the packed word never leaves
\* its 64 bits and the bucket loop never leaves the bounds.
THEOREM TypeCorrect == Spec => []TypeOK
  <1>1. TypeOK /\ [Next]_vars => TypeOK'
    <2> SUFFICES ASSUME TypeOK, [Next]_vars PROVE TypeOK'
      OBVIOUS
    <2>1. ASSUME NEW w \in Writers, NEW o \in Obs, Observe(w, o) PROVE TypeOK'
      BY <2>1, ClaimTypeOK DEF Observe
    <2>2. ASSUME NEW w \in Writers, NEW B \in SUBSET Obs, Flush(w, B) PROVE TypeOK'
      BY <2>2, ClaimTypeOK DEF Flush
    <2>3. CASE UNCHANGED vars
      BY <2>3 DEF vars, TypeOK, shards, wvars, cvars, rvars
    <2>4. QED
      BY <2>1, <2>2, <2>3, WriterStepTypeOK, LockCollectTypeOK,
         CollectorStepTypeOK, ReaderTypeOK DEF Next
  <1>2. QED
    BY <1>1, InitTypeOK, PTL DEF Spec

-----------------------------------------------------------------------------
(***************************************************************************)
(* The inductive invariant IInv.                                            *)
(***************************************************************************)
LEMMA OwnersDiffer == NoOwner \notin Collectors \cup Readers /\ Collectors \cap Readers = {}
  BY HistogramAssumption

LEMMA CardinalityUnion ==
    ASSUME NEW S, NEW T, S \subseteq Obs, T \subseteq Obs, S \cap T = {}
    PROVE  Cardinality(S \cup T) = Cardinality(S) + Cardinality(T)
  <1>1. IsFiniteSet(S) /\ IsFiniteSet(T) /\ Cardinality(S) \in Nat /\ Cardinality(T) \in Nat
    BY ObsFacts
  <1>2. Cardinality(S \cap T) = 0
    BY FS_EmptySet
  <1>3. Cardinality(S \cup T) = Cardinality(S) + Cardinality(T) - Cardinality(S \cap T)
    BY <1>1, FS_Union
  <1>4. QED
    BY <1>1, <1>2, <1>3

-----------------------------------------------------------------------------
(***************************************************************************)
(* shard_and_count.inc_by by a writer.                                      *)
(***************************************************************************)
LEMMA ClaimPending ==
    ASSUME TypeOK, WriterInv, NEW w \in Writers, NEW B \in SUBSET Obs, Claim(w, B)
    PROVE  /\ Hot' = Hot
           /\ ObsCount(shardAndCount)' = Cardinality(claimed)'
           /\ \A o \in Obs : SumPending(o)' <=> SumPending(o) \/ o \in B
           /\ \A o \in Obs : Pending(o)' <=> Pending(o) \/ o \in B
           /\ \A o \in Obs : BucketPending(o)' <=>
                BucketPending(o) \/ (o \in B /\ BucketOf[o] \in Bounds)
  <1>1. Cardinality(claimed \cup B) = Cardinality(claimed) + Cardinality(B)
    BY CardinalityUnion DEF Claim, TypeOK
  <1>2. ObsCount(shardAndCount) + Cardinality(B) < CountRange
    BY <1>1, ObsFacts DEF TypeOK, WriterInv
  <1>3. /\ ShardIndex(shardAndCount') = ShardIndex(shardAndCount)
        /\ ObsCount(shardAndCount') = Cardinality(claimed')
    BY <1>1, <1>2, IncFacts, ObsFacts DEF TypeOK, WriterInv, Claim
  <1>4. \A o \in Obs : SumPending(o)' <=> SumPending(o) \/ o \in B
    BY DEF SumPending, Claim, TypeOK, WriterInv
  <1>5. \A o \in Obs : Pending(o)' <=> Pending(o) \/ o \in B
    BY DEF Pending, Claim, TypeOK, WriterInv
  <1>6. ASSUME NEW o \in Obs
        PROVE  BucketPending(o)' <=>
                 BucketPending(o) \/ (o \in B /\ BucketOf[o] \in Bounds)
    <2>1. /\ batch[w] = {}
          /\ batch'[w] = B
          /\ left'[w] = {BucketOf[x] : x \in B} \cap Bounds
          /\ \A v \in Writers : v # w => batch'[v] = batch[v] /\ left'[v] = left[v]
      BY DEF Claim, TypeOK, WriterInv
    <2>2. o \in B => (BucketOf[o] \in left'[w] <=> BucketOf[o] \in Bounds)
      BY <2>1
    <2>3. QED
      BY <2>1, <2>2 DEF BucketPending
  <1>7. QED
    BY <1>3, <1>4, <1>5, <1>6 DEF Hot

LEMMA ClaimWriterInv ==
    ASSUME TypeOK, WriterInv, NEW w \in Writers, NEW B \in SUBSET Obs, Claim(w, B)
    PROVE  WriterInv'
  <1>1. ObsCount(shardAndCount)' = Cardinality(claimed)'
    BY ClaimPending
  <1>2. ASSUME NEW v \in Writers
        PROVE  /\ batch'[v] \subseteq claimed'
               /\ wpc'[v] = "idle" <=> batch'[v] = {}
               /\ wpc'[v] # "add" => left'[v] = {}
               /\ \A b \in left'[v] : \E o \in batch'[v] : BucketOf[o] = b
               /\ \A u \in Writers : u # v => batch'[u] \cap batch'[v] = {}
    <2>1. CASE v = w
      BY <2>1 DEF WriterInv, Claim, TypeOK
    <2>2. CASE v # w
      BY <2>2 DEF WriterInv, Claim, TypeOK
    <2>3. QED
      BY <2>1, <2>2
  <1>3. QED
    BY <1>1, <1>2 DEF WriterInv

LEMMA ClaimQuietInv ==
    ASSUME TypeOK, WriterInv, QuietInv, NEW w \in Writers, NEW B \in SUBSET Obs, Claim(w, B)
    PROVE  QuietInv'
  <1> SUFFICES ASSUME \A c \in Collectors : ~Flipped(c)'
               PROVE  QuietShards'
    BY DEF QuietInv
  <1>1. QuietShards
    BY DEF QuietInv, Flipped, Claim, cvars
  <1>2. claimed \subseteq Obs /\ B \cap claimed = {} /\ claimed' = claimed \cup B
    BY DEF TypeOK, Claim
  <1>3. SumHolds(Hot, claimed)' /\ SumHolds(Other(Hot), {})'
    BY <1>1, <1>2, ClaimPending DEF QuietShards, SumHolds, Claim, shards
  <1>4. ASSUME NEW b \in Bounds
        PROVE  BucketHolds(Hot, b, claimed)' /\ BucketHolds(Other(Hot), b, {})'
    <2>1. BucketHolds(Hot, b, claimed) /\ BucketHolds(Other(Hot), b, {})
      BY <1>1 DEF QuietShards
    <2>2. QED
      BY <2>1, <1>2, ClaimPending DEF BucketHolds, Claim, shards
  <1>5. CountHolds(Hot, claimed)' /\ CountHolds(Other(Hot), {})'
    <2>1. {o \in claimed' : ~Pending(o)'} = {o \in claimed : ~Pending(o)}
      BY <1>2, ClaimPending
    <2>2. QED
      BY <2>1, <1>1, <1>2, ClaimPending DEF QuietShards, CountHolds, Claim, shards
  <1>6. (\A v \in Writers : wpc[v] # "idle" => wshard[v] = Hot)'
    BY <1>1, ClaimPending DEF QuietShards, Claim, TypeOK
  <1>7. QED
    BY <1>3, <1>4, <1>5, <1>6 DEF QuietShards

LEMMA ClaimCollectInv ==
    ASSUME TypeOK, WriterInv, CollectInv, NEW w \in Writers, NEW B \in SUBSET Obs, Claim(w, B)
    PROVE  CollectInv'
  <1> SUFFICES ASSUME NEW c \in Collectors, Flipped(c)'
               PROVE  CollectShards(c)' /\ CollectWriters(c)' /\ CollectLocals(c)'
    BY DEF CollectInv
  <1>1. CollectShards(c) /\ CollectWriters(c) /\ CollectLocals(c)
    BY DEF CollectInv, Flipped, Claim, cvars
  <1>2. /\ claimed \subseteq Obs /\ B \cap claimed = {} /\ claimed' = claimed \cup B
        /\ cut[c] \subseteq claimed
    BY <1>1 DEF TypeOK, Claim, CollectLocals
  <1>3. CollectShards(c)'
    <2>1. /\ SumHolds(cold[c], IF cpc[c] \in {"drain", "sum"} THEN cut[c] ELSE {})'
          /\ SumHolds(Hot, IF cpc[c] = "unlock" THEN claimed ELSE claimed \ cut[c])'
      BY <1>1, <1>2, ClaimPending DEF CollectShards, SumHolds, Claim, shards, cvars
    <2>2. CountHolds(cold[c], IF cpc[c] = "drain" THEN cut[c] ELSE {})'
      <3>1. {o \in cut[c] : ~Pending(o)'} = {o \in cut[c] : ~Pending(o)}
        BY <1>2, ClaimPending
      <3>2. QED
        BY <3>1, <1>1 DEF CollectShards, CountHolds, Claim, shards, cvars
    <2>3. CountHolds(Hot, IF cpc[c] \in {"mergesum", "unlock"} THEN claimed ELSE claimed \ cut[c])'
      <3>1. /\ {o \in claimed' : ~Pending(o)'} = {o \in claimed : ~Pending(o)}
            /\ {o \in claimed' \ cut[c] : ~Pending(o)'} = {o \in claimed \ cut[c] : ~Pending(o)}
        BY <1>2, ClaimPending
      <3>2. QED
        BY <3>1, <1>1, ClaimPending DEF CollectShards, CountHolds, Claim, shards, cvars
    <2>4. ASSUME NEW b \in Bounds
          PROVE  /\ BucketHolds(cold[c], b,
                        IF i[c] < b \/ (i[c] = b /\ cpc[c] # "merge") THEN cut[c] ELSE {})'
                 /\ BucketHolds(Hot, b, IF b < i[c] THEN claimed ELSE claimed \ cut[c])'
      <3>1. /\ BucketHolds(cold[c], b,
                    IF i[c] < b \/ (i[c] = b /\ cpc[c] # "merge") THEN cut[c] ELSE {})
            /\ BucketHolds(Hot, b, IF b < i[c] THEN claimed ELSE claimed \ cut[c])
        BY <1>1 DEF CollectShards
      <3>2. QED
        BY <3>1, <1>2, ClaimPending DEF BucketHolds, Claim, shards, cvars
    <2>5. QED
      BY <2>1, <2>2, <2>3, <2>4 DEF CollectShards
  <1>4. CollectWriters(c)'
    BY <1>1, <1>2, ClaimPending DEF CollectWriters, Claim, TypeOK, cvars
  <1>5. CollectLocals(c)'
    BY <1>1, <1>2, ClaimPending DEF CollectLocals, Claim, cvars
  <1>6. QED
    BY <1>3, <1>4, <1>5

LEMMA ClaimOthers ==
    ASSUME TypeOK, IInv, NEW w \in Writers, NEW B \in SUBSET Obs, Claim(w, B)
    PROVE  LockInv' /\ CallInv' /\ ReaderInv' /\ SnapshotIsCut' /\ SampleSumComplete'
  <1>1. LockInv' /\ CallInv'
    BY DEF IInv, LockInv, CallInv, Flipped, Claim, cvars, rvars
  <1>2. ReaderInv'
    BY ClaimPending DEF IInv, ReaderInv, Claim, TypeOK, rvars
  <1>3. SnapshotIsCut'
    BY DEF IInv, SnapshotIsCut, Claim, cvars
  <1>4. SampleSumComplete'
    BY DEF IInv, SampleSumComplete, Claim, rvars
  <1>5. QED
    BY <1>1, <1>2, <1>3, <1>4

LEMMA ClaimIInv ==
    ASSUME TypeOK, IInv, NEW w \in Writers, NEW B \in SUBSET Obs, Claim(w, B)
    PROVE  IInv'
  BY ClaimOthers, ClaimWriterInv, ClaimQuietInv, ClaimCollectInv DEF IInv

-----------------------------------------------------------------------------
(***************************************************************************)
(* shard.buckets[i].inc_by by a writer.                                     *)
(***************************************************************************)
LEMMA AddToBucketEffect ==
    ASSUME TypeOK, WriterInv, NEW w \in Writers, AddToBucket(w)
    PROVE  /\ \A o \in Obs : SumPending(o)' <=> SumPending(o)
           /\ \A o \in Obs : Pending(o)' <=> Pending(o)
           /\ \A o \in Obs : BucketPending(o)' => BucketPending(o)
           /\ \A o \in Obs : (BucketPending(o) /\ ~BucketPending(o)') => o \in batch[w]
           /\ \A s \in Shard, d \in Bounds, o \in Obs :
                bucket'[s][d][o] = bucket[s][d][o] +
                    IF s = wshard[w] /\ BucketOf[o] = d /\ BucketPending(o) /\ ~BucketPending(o)'
                    THEN 1 ELSE 0
           /\ WriterInv'
  <1>1. PICK b \in left[w] :
          /\ bucket' = [bucket EXCEPT ![wshard[w]][b] =
                          Plus(@, TallyOf({o \in batch[w] : BucketOf[o] = b}))]
          /\ left' = [left EXCEPT ![w] = @ \ {b}]
    BY DEF AddToBucket
  <1>2. ASSUME NEW o \in Obs
        PROVE  BucketPending(o)' <=> BucketPending(o) /\ ~(o \in batch[w] /\ BucketOf[o] = b)
    <2>1. /\ batch' = batch
          /\ left'[w] = left[w] \ {b}
          /\ \A v \in Writers : v # w => left'[v] = left[v] /\ batch[v] \cap batch[w] = {}
      BY <1>1 DEF AddToBucket, TypeOK, WriterInv
    <2>2. QED
      BY <2>1 DEF BucketPending
  <1>3. ASSUME NEW o \in Obs, o \in batch[w], BucketOf[o] = b
        PROVE  BucketPending(o)
    BY <1>1, <1>3 DEF BucketPending
  <1>4. ASSUME NEW s \in Shard, NEW d \in Bounds, NEW o \in Obs
        PROVE  bucket'[s][d][o] = bucket[s][d][o] +
                    IF s = wshard[w] /\ BucketOf[o] = d /\ BucketPending(o) /\ ~BucketPending(o)'
                    THEN 1 ELSE 0
    <2>1. bucket[s][d][o] \in Nat /\ b \in Bounds
      BY <1>1, <1>4 DEF TypeOK, Tally
    <2>2. CASE s = wshard[w] /\ d = b
      <3>1. bucket'[s][d] = Plus(bucket[s][d], TallyOf({x \in batch[w] : BucketOf[x] = b}))
        BY <1>1, <1>4, <2>2 DEF TypeOK
      <3>2. bucket'[s][d][o] = bucket[s][d][o] + IF o \in batch[w] /\ BucketOf[o] = b THEN 1 ELSE 0
        BY <3>1, <1>4 DEF Plus, TallyOf
      <3>3. QED
        BY <3>2, <1>2, <1>3, <2>2
    <2>3. CASE s # wshard[w] \/ d # b
      <3>1. bucket'[s][d] = bucket[s][d]
        BY <1>1, <1>4, <2>3 DEF TypeOK
      <3>2. QED
        BY <3>1, <2>1, <1>2, <2>3
    <2>4. QED
      BY <2>2, <2>3
  <1>5. /\ \A o \in Obs : SumPending(o)' <=> SumPending(o)
        /\ \A o \in Obs : Pending(o)' <=> Pending(o)
    BY DEF SumPending, Pending, AddToBucket
  <1>6. WriterInv'
    BY <1>1 DEF WriterInv, AddToBucket, TypeOK
  <1>7. QED
    BY <1>2, <1>4, <1>5, <1>6

LEMMA AddToBucketHolds ==
    ASSUME TypeOK, WriterInv, NEW w \in Writers, AddToBucket(w),
           NEW s \in Shard, NEW b \in Bounds, NEW S, BucketHolds(s, b, S),
           IF s = wshard[w] THEN batch[w] \subseteq S ELSE batch[w] \cap S = {}
    PROVE  \A o \in Obs : bucket'[s][b][o] =
               IF o \in S /\ BucketOf[o] = b /\ ~BucketPending(o)' THEN 1 ELSE 0
  <1> SUFFICES ASSUME NEW o \in Obs
               PROVE  bucket'[s][b][o] =
                        IF o \in S /\ BucketOf[o] = b /\ ~BucketPending(o)' THEN 1 ELSE 0
    OBVIOUS
  <1>1. /\ BucketPending(o)' => BucketPending(o)
        /\ BucketPending(o) /\ ~BucketPending(o)' => o \in batch[w]
        /\ bucket'[s][b][o] = bucket[s][b][o] +
                IF s = wshard[w] /\ BucketOf[o] = b /\ BucketPending(o) /\ ~BucketPending(o)'
                THEN 1 ELSE 0
    BY AddToBucketEffect
  <1>2. bucket[s][b][o] = IF o \in S /\ BucketOf[o] = b /\ ~BucketPending(o) THEN 1 ELSE 0
    BY DEF BucketHolds
  <1>3. QED
    BY <1>1, <1>2

LEMMA AddToBucketIInv ==
    ASSUME TypeOK, IInv, NEW w \in Writers, AddToBucket(w)
    PROVE  IInv'
  <1>1. Hot' = Hot /\ Hot \in Shard /\ Other(Hot) \in Shard /\ Other(Hot) # Hot
    BY ShardFacts DEF Hot, AddToBucket
  <1>2. batch[w] \subseteq claimed /\ claimed \subseteq Obs
    BY DEF IInv, WriterInv, TypeOK
  <1>3. WriterInv'
    BY AddToBucketEffect DEF IInv
  <1>4. QuietInv'
    <2> SUFFICES ASSUME \A c \in Collectors : ~Flipped(c)'
                 PROVE  QuietShards'
      BY DEF QuietInv
    <2>1. QuietShards
      BY DEF IInv, QuietInv, Flipped, AddToBucket, cvars
    <2>2. wshard[w] = Hot
      BY <2>1 DEF QuietShards, AddToBucket
    <2>3. SumHolds(Hot, claimed)' /\ SumHolds(Other(Hot), {})'
      BY <1>1, <2>1, AddToBucketEffect DEF IInv, QuietShards, SumHolds, AddToBucket
    <2>4. ASSUME NEW b \in Bounds
          PROVE  BucketHolds(Hot, b, claimed)' /\ BucketHolds(Other(Hot), b, {})'
      <3>1. BucketHolds(Hot, b, claimed) /\ BucketHolds(Other(Hot), b, {})
        BY <2>1 DEF QuietShards
      <3>2. QED
        <4>1. /\ \A o \in Obs : bucket'[Hot][b][o] =
                    IF o \in claimed /\ BucketOf[o] = b /\ ~BucketPending(o)' THEN 1 ELSE 0
              /\ \A o \in Obs : bucket'[Other(Hot)][b][o] =
                    IF o \in {} /\ BucketOf[o] = b /\ ~BucketPending(o)' THEN 1 ELSE 0
          BY <3>1, <1>1, <1>2, <2>2, AddToBucketHolds DEF IInv
        <4>2. QED
          BY <4>1, <1>1 DEF BucketHolds, AddToBucket
    <2>5. CountHolds(Hot, claimed)' /\ CountHolds(Other(Hot), {})'
      <3>1. {o \in claimed : ~Pending(o)'} = {o \in claimed : ~Pending(o)}
        BY <1>2, AddToBucketEffect DEF IInv
      <3>2. QED
        BY <3>1, <1>1, <2>1 DEF QuietShards, CountHolds, AddToBucket
    <2>6. QED
      BY <2>1, <2>3, <2>4, <2>5, <1>1 DEF QuietShards, AddToBucket
  <1>5. CollectInv'
    <2> SUFFICES ASSUME NEW c \in Collectors, Flipped(c)'
                 PROVE  CollectShards(c)' /\ CollectWriters(c)' /\ CollectLocals(c)'
      BY DEF CollectInv
    <2>1. CollectShards(c) /\ CollectWriters(c) /\ CollectLocals(c)
      BY DEF IInv, CollectInv, Flipped, AddToBucket, cvars
    <2>2. /\ cold[c] = Other(Hot) /\ cut[c] \subseteq claimed
          /\ \/ wshard[w] = Hot /\ batch[w] \cap cut[c] = {}
             \/ wshard[w] = cold[c] /\ batch[w] \subseteq cut[c] /\ cpc[c] = "drain" /\ i[c] = 1
      BY <2>1 DEF CollectLocals, CollectWriters, AddToBucket
    <2>3. /\ SumHolds(cold[c], IF cpc[c] \in {"drain", "sum"} THEN cut[c] ELSE {})'
          /\ SumHolds(Hot, IF cpc[c] = "unlock" THEN claimed ELSE claimed \ cut[c])'
      BY <1>1, <1>2, <2>1, <2>2, AddToBucketEffect
      DEF IInv, CollectShards, SumHolds, AddToBucket, cvars
    <2>4. /\ CountHolds(cold[c], IF cpc[c] = "drain" THEN cut[c] ELSE {})'
          /\ CountHolds(Hot, IF cpc[c] \in {"mergesum", "unlock"} THEN claimed ELSE claimed \ cut[c])'
      <3>1. /\ {o \in claimed : ~Pending(o)'} = {o \in claimed : ~Pending(o)}
            /\ {o \in claimed \ cut[c] : ~Pending(o)'} = {o \in claimed \ cut[c] : ~Pending(o)}
            /\ {o \in cut[c] : ~Pending(o)'} = {o \in cut[c] : ~Pending(o)}
        BY <1>2, <2>2, AddToBucketEffect DEF IInv
      <3>2. QED
        BY <3>1, <1>1, <2>1 DEF CollectShards, CountHolds, AddToBucket, cvars
    <2>5. ASSUME NEW b \in Bounds
          PROVE  /\ BucketHolds(cold[c], b,
                        IF i[c] < b \/ (i[c] = b /\ cpc[c] # "merge") THEN cut[c] ELSE {})'
                 /\ BucketHolds(Hot, b, IF b < i[c] THEN claimed ELSE claimed \ cut[c])'
      <3>1. /\ BucketHolds(cold[c], b,
                    IF i[c] < b \/ (i[c] = b /\ cpc[c] # "merge") THEN cut[c] ELSE {})
            /\ BucketHolds(Hot, b, IF b < i[c] THEN claimed ELSE claimed \ cut[c])
        BY <2>1 DEF CollectShards
      <3> DEFINE coldSet == IF i[c] < b \/ (i[c] = b /\ cpc[c] # "merge") THEN cut[c] ELSE {}
                 hotSet == IF b < i[c] THEN claimed ELSE claimed \ cut[c]
      <3>2. /\ IF cold[c] = wshard[w] THEN batch[w] \subseteq coldSet ELSE batch[w] \cap coldSet = {}
            /\ IF Hot = wshard[w] THEN batch[w] \subseteq hotSet ELSE batch[w] \cap hotSet = {}
        BY <1>1, <1>2, <2>2 DEF Bounds
      <3>3. /\ \A o \in Obs : bucket'[cold[c]][b][o] =
                  IF o \in coldSet /\ BucketOf[o] = b /\ ~BucketPending(o)' THEN 1 ELSE 0
            /\ \A o \in Obs : bucket'[Hot][b][o] =
                  IF o \in hotSet /\ BucketOf[o] = b /\ ~BucketPending(o)' THEN 1 ELSE 0
        <4> HIDE DEF coldSet, hotSet
        <4>1. BucketHolds(cold[c], b, coldSet) /\ BucketHolds(Hot, b, hotSet)
          BY <3>1 DEF coldSet, hotSet
        <4>2. QED
          BY <4>1, <3>2, <1>1, <2>2, AddToBucketHolds DEF IInv
      <3>4. QED
        BY <3>3, <1>1 DEF BucketHolds, AddToBucket, cvars
    <2>6. CollectWriters(c)'
      BY <1>1, <2>1 DEF CollectWriters, AddToBucket, cvars
    <2>7. CollectLocals(c)'
      BY <1>1, <2>1 DEF CollectLocals, AddToBucket, cvars
    <2>8. QED
      BY <2>3, <2>4, <2>5, <2>6, <2>7 DEF CollectShards
  <1>6. LockInv' /\ CallInv' /\ SnapshotIsCut' /\ SampleSumComplete'
    BY DEF IInv, LockInv, CallInv, Flipped, SnapshotIsCut, SampleSumComplete, AddToBucket, cvars, rvars
  <1>7. ReaderInv'
    BY <1>1 DEF IInv, ReaderInv, AddToBucket, rvars
  <1>8. QED
    BY <1>3, <1>4, <1>5, <1>6, <1>7 DEF IInv

-----------------------------------------------------------------------------
(***************************************************************************)
(* shard.sum.inc_by by a writer.                                            *)
(***************************************************************************)
LEMMA AddToSumEffect ==
    ASSUME TypeOK, WriterInv, NEW w \in Writers, AddToSum(w)
    PROVE  /\ \A o \in Obs : BucketPending(o)' <=> BucketPending(o)
           /\ \A o \in Obs : Pending(o)' <=> Pending(o)
           /\ \A o \in Obs : SumPending(o)' <=> SumPending(o) /\ o \notin batch[w]
           /\ \A o \in batch[w] : SumPending(o)
           /\ \A s \in Shard, o \in Obs : sum'[s][o] = sum[s][o] +
                IF s = wshard[w] /\ o \in batch[w] THEN 1 ELSE 0
           /\ WriterInv'
  <1>1. /\ batch' = batch /\ wpc[w] = "add" /\ wpc'[w] = "count"
        /\ \A v \in Writers : v # w => wpc'[v] = wpc[v] /\ batch[v] \cap batch[w] = {}
    BY DEF AddToSum, TypeOK, WriterInv
  <1>2. ASSUME NEW s \in Shard, NEW o \in Obs
        PROVE  sum'[s][o] = sum[s][o] + IF s = wshard[w] /\ o \in batch[w] THEN 1 ELSE 0
    <2>1. sum[s][o] \in Nat
      BY <1>2 DEF TypeOK, Tally
    <2>2. CASE s = wshard[w]
      <3>1. sum'[s] = Plus(sum[s], TallyOf(batch[w]))
        BY <2>2, <1>2 DEF AddToSum, TypeOK
      <3>2. QED
        BY <3>1, <2>2, <1>2 DEF Plus, TallyOf
    <2>3. CASE s # wshard[w]
      <3>1. sum'[s] = sum[s]
        BY <2>3, <1>2 DEF AddToSum, TypeOK
      <3>2. QED
        BY <3>1, <2>1, <2>3
    <2>4. QED
      BY <2>2, <2>3
  <1>3. \A o \in Obs : SumPending(o)' <=> SumPending(o) /\ o \notin batch[w]
    BY <1>1 DEF SumPending
  <1>4. \A o \in batch[w] : SumPending(o)
    BY <1>1 DEF SumPending
  <1>5. /\ \A o \in Obs : BucketPending(o)' <=> BucketPending(o)
        /\ \A o \in Obs : Pending(o)' <=> Pending(o)
    BY <1>1 DEF BucketPending, Pending, AddToSum
  <1>6. WriterInv'
    BY <1>1 DEF WriterInv, AddToSum, TypeOK
  <1>7. QED
    BY <1>2, <1>3, <1>4, <1>5, <1>6

LEMMA AddToSumHolds ==
    ASSUME TypeOK, WriterInv, NEW w \in Writers, AddToSum(w),
           NEW s \in Shard, NEW S, SumHolds(s, S),
           IF s = wshard[w] THEN batch[w] \subseteq S ELSE batch[w] \cap S = {}
    PROVE  \A o \in Obs : sum'[s][o] = IF o \in S /\ ~SumPending(o)' THEN 1 ELSE 0
  <1> SUFFICES ASSUME NEW o \in Obs
               PROVE  sum'[s][o] = IF o \in S /\ ~SumPending(o)' THEN 1 ELSE 0
    OBVIOUS
  <1>1. /\ SumPending(o)' <=> SumPending(o) /\ o \notin batch[w]
        /\ o \in batch[w] => SumPending(o)
        /\ sum'[s][o] = sum[s][o] + IF s = wshard[w] /\ o \in batch[w] THEN 1 ELSE 0
    BY AddToSumEffect
  <1>2. sum[s][o] = IF o \in S /\ ~SumPending(o) THEN 1 ELSE 0
    BY DEF SumHolds
  <1>3. QED
    BY <1>1, <1>2

LEMMA AddToSumIInv ==
    ASSUME TypeOK, IInv, NEW w \in Writers, AddToSum(w)
    PROVE  IInv'
  <1>1. Hot' = Hot /\ Hot \in Shard /\ Other(Hot) \in Shard /\ Other(Hot) # Hot
    BY ShardFacts DEF Hot, AddToSum
  <1>2. batch[w] \subseteq claimed /\ claimed \subseteq Obs
    BY DEF IInv, WriterInv, TypeOK
  <1>3. WriterInv'
    BY AddToSumEffect DEF IInv
  <1>4. QuietInv'
    <2> SUFFICES ASSUME \A c \in Collectors : ~Flipped(c)'
                 PROVE  QuietShards'
      BY DEF QuietInv
    <2>1. QuietShards
      BY DEF IInv, QuietInv, Flipped, AddToSum, cvars
    <2>2. wshard[w] = Hot
      BY <2>1 DEF QuietShards, AddToSum
    <2>3. SumHolds(Hot, claimed)' /\ SumHolds(Other(Hot), {})'
      <3>1. SumHolds(Hot, claimed) /\ SumHolds(Other(Hot), {})
        BY <2>1 DEF QuietShards
      <3>2. /\ \A o \in Obs : sum'[Hot][o] = IF o \in claimed /\ ~SumPending(o)' THEN 1 ELSE 0
            /\ \A o \in Obs : sum'[Other(Hot)][o] = IF o \in {} /\ ~SumPending(o)' THEN 1 ELSE 0
        BY <3>1, <1>1, <1>2, <2>2, AddToSumHolds DEF IInv
      <3>3. QED
        BY <3>2, <1>1 DEF SumHolds, AddToSum
    <2>4. ASSUME NEW b \in Bounds
          PROVE  BucketHolds(Hot, b, claimed)' /\ BucketHolds(Other(Hot), b, {})'
      <3>1. BucketHolds(Hot, b, claimed) /\ BucketHolds(Other(Hot), b, {})
        BY <2>1 DEF QuietShards
      <3>2. QED
        BY <3>1, <1>1, AddToSumEffect DEF IInv, BucketHolds, AddToSum
    <2>5. CountHolds(Hot, claimed)' /\ CountHolds(Other(Hot), {})'
      <3>1. {o \in claimed : ~Pending(o)'} = {o \in claimed : ~Pending(o)}
        BY <1>2, AddToSumEffect DEF IInv
      <3>2. QED
        BY <3>1, <1>1, <2>1 DEF QuietShards, CountHolds, AddToSum
    <2>6. (\A v \in Writers : wpc[v] # "idle" => wshard[v] = Hot)'
      BY <2>1, <1>1 DEF QuietShards, AddToSum, TypeOK
    <2>7. QED
      BY <2>3, <2>4, <2>5, <2>6 DEF QuietShards
  <1>5. CollectInv'
    <2> SUFFICES ASSUME NEW c \in Collectors, Flipped(c)'
                 PROVE  CollectShards(c)' /\ CollectWriters(c)' /\ CollectLocals(c)'
      BY DEF CollectInv
    <2>1. CollectShards(c) /\ CollectWriters(c) /\ CollectLocals(c)
      BY DEF IInv, CollectInv, Flipped, AddToSum, cvars
    <2>2. /\ cold[c] = Other(Hot) /\ cut[c] \subseteq claimed
          /\ \/ wshard[w] = Hot /\ batch[w] \cap cut[c] = {}
             \/ wshard[w] = cold[c] /\ batch[w] \subseteq cut[c] /\ cpc[c] = "drain"
      BY <2>1 DEF CollectLocals, CollectWriters, AddToSum
    <2>3. /\ SumHolds(cold[c], IF cpc[c] \in {"drain", "sum"} THEN cut[c] ELSE {})'
          /\ SumHolds(Hot, IF cpc[c] = "unlock" THEN claimed ELSE claimed \ cut[c])'
      <3> DEFINE coldSet == IF cpc[c] \in {"drain", "sum"} THEN cut[c] ELSE {}
                 hotSet == IF cpc[c] = "unlock" THEN claimed ELSE claimed \ cut[c]
      <3>1. SumHolds(cold[c], coldSet) /\ SumHolds(Hot, hotSet)
        BY <2>1 DEF CollectShards
      <3>2. /\ IF cold[c] = wshard[w] THEN batch[w] \subseteq coldSet ELSE batch[w] \cap coldSet = {}
            /\ IF Hot = wshard[w] THEN batch[w] \subseteq hotSet ELSE batch[w] \cap hotSet = {}
        BY <1>1, <1>2, <2>2
      <3>3. /\ \A o \in Obs : sum'[cold[c]][o] = IF o \in coldSet /\ ~SumPending(o)' THEN 1 ELSE 0
            /\ \A o \in Obs : sum'[Hot][o] = IF o \in hotSet /\ ~SumPending(o)' THEN 1 ELSE 0
        <4> HIDE DEF coldSet, hotSet
        <4>1. QED
          BY <3>1, <3>2, <1>1, <2>2, AddToSumHolds DEF IInv
      <3>4. QED
        BY <3>3, <1>1 DEF SumHolds, AddToSum, cvars
    <2>4. /\ CountHolds(cold[c], IF cpc[c] = "drain" THEN cut[c] ELSE {})'
          /\ CountHolds(Hot, IF cpc[c] \in {"mergesum", "unlock"} THEN claimed ELSE claimed \ cut[c])'
      <3>1. /\ {o \in claimed : ~Pending(o)'} = {o \in claimed : ~Pending(o)}
            /\ {o \in claimed \ cut[c] : ~Pending(o)'} = {o \in claimed \ cut[c] : ~Pending(o)}
            /\ {o \in cut[c] : ~Pending(o)'} = {o \in cut[c] : ~Pending(o)}
        BY <1>2, <2>2, AddToSumEffect DEF IInv
      <3>2. QED
        BY <3>1, <1>1, <2>1 DEF CollectShards, CountHolds, AddToSum, cvars
    <2>5. ASSUME NEW b \in Bounds
          PROVE  /\ BucketHolds(cold[c], b,
                        IF i[c] < b \/ (i[c] = b /\ cpc[c] # "merge") THEN cut[c] ELSE {})'
                 /\ BucketHolds(Hot, b, IF b < i[c] THEN claimed ELSE claimed \ cut[c])'
      <3>1. /\ BucketHolds(cold[c], b,
                    IF i[c] < b \/ (i[c] = b /\ cpc[c] # "merge") THEN cut[c] ELSE {})
            /\ BucketHolds(Hot, b, IF b < i[c] THEN claimed ELSE claimed \ cut[c])
        BY <2>1 DEF CollectShards
      <3>2. QED
        BY <3>1, <1>1, AddToSumEffect DEF IInv, BucketHolds, AddToSum, cvars
    <2>6. CollectWriters(c)'
      BY <1>1, <2>1 DEF CollectWriters, AddToSum, TypeOK, cvars
    <2>7. CollectLocals(c)'
      BY <1>1, <2>1 DEF CollectLocals, AddToSum, cvars
    <2>8. QED
      BY <2>3, <2>4, <2>5, <2>6, <2>7 DEF CollectShards
  <1>6. LockInv' /\ CallInv' /\ SnapshotIsCut' /\ SampleSumComplete'
    BY DEF IInv, LockInv, CallInv, Flipped, SnapshotIsCut, SampleSumComplete, AddToSum, cvars, rvars
  <1>7. ReaderInv'
    BY <1>1 DEF IInv, ReaderInv, AddToSum, rvars
  <1>8. QED
    BY <1>3, <1>4, <1>5, <1>6, <1>7 DEF IInv

-----------------------------------------------------------------------------
(***************************************************************************)
(* shard.count.inc_by by a writer.                                          *)
(***************************************************************************)
LEMMA AddToCountEffect ==
    ASSUME TypeOK, WriterInv, NEW w \in Writers, AddToCount(w)
    PROVE  /\ \A o \in Obs : BucketPending(o)' <=> BucketPending(o)
           /\ \A o \in Obs : SumPending(o)' <=> SumPending(o)
           /\ \A o \in Obs : Pending(o)' <=> Pending(o) /\ o \notin batch[w]
           /\ \A o \in batch[w] : Pending(o)
           /\ \A s \in Shard : count'[s] = count[s] +
                IF s = wshard[w] THEN Cardinality(batch[w]) ELSE 0
           /\ WriterInv'
  <1>1. /\ wpc[w] = "count" /\ left[w] = {} /\ wpc'[w] = "idle" /\ batch'[w] = {} /\ left' = left
        /\ \A v \in Writers : v # w =>
             wpc'[v] = wpc[v] /\ batch'[v] = batch[v] /\ batch[v] \cap batch[w] = {}
    <2>1. left[w] = {} /\ \A v \in Writers : v # w => batch[v] \cap batch[w] = {}
      BY DEF AddToCount, WriterInv
    <2>2. QED
      BY <2>1 DEF AddToCount, TypeOK
  <1>2. \A s \in Shard : count'[s] = count[s] +
                IF s = wshard[w] THEN Cardinality(batch[w]) ELSE 0
    BY ObsFacts DEF AddToCount, TypeOK
  <1>3. \A o \in Obs : SumPending(o)' <=> SumPending(o)
    BY <1>1 DEF SumPending
  <1>4. /\ \A o \in Obs : Pending(o)' <=> Pending(o) /\ o \notin batch[w]
        /\ \A o \in batch[w] : Pending(o)
    BY <1>1 DEF Pending
  <1>5. \A o \in Obs : BucketPending(o)' <=> BucketPending(o)
    BY <1>1 DEF BucketPending
  <1>6. WriterInv'
    BY <1>1 DEF WriterInv, AddToCount, TypeOK
  <1>7. QED
    BY <1>2, <1>3, <1>4, <1>5, <1>6

LEMMA AddToCountHolds ==
    ASSUME TypeOK, WriterInv, NEW w \in Writers, AddToCount(w),
           NEW s \in Shard, NEW S \in SUBSET Obs, CountHolds(s, S),
           IF s = wshard[w] THEN batch[w] \subseteq S ELSE batch[w] \cap S = {}
    PROVE  count'[s] = Cardinality({o \in S : ~Pending(o)'})
  <1>1. /\ \A o \in S : Pending(o)' <=> Pending(o) /\ o \notin batch[w]
        /\ \A o \in batch[w] : Pending(o)
        /\ count'[s] = count[s] + IF s = wshard[w] THEN Cardinality(batch[w]) ELSE 0
    BY AddToCountEffect
  <1>2. count[s] = Cardinality({o \in S : ~Pending(o)}) /\ count[s] \in Nat
    BY DEF CountHolds, TypeOK
  <1>3. CASE s = wshard[w]
    <2>1. {o \in S : ~Pending(o)'} = {o \in S : ~Pending(o)} \cup batch[w]
      BY <1>1, <1>3
    <2>2. {o \in S : ~Pending(o)} \cap batch[w] = {}
      BY <1>1
    <2>3. {o \in S : ~Pending(o)} \subseteq Obs /\ batch[w] \subseteq Obs
      BY <1>3
    <2>4. QED
      BY <2>1, <2>2, <2>3, <1>1, <1>2, <1>3, CardinalityUnion
  <1>4. CASE s # wshard[w]
    <2>1. {o \in S : ~Pending(o)'} = {o \in S : ~Pending(o)}
      BY <1>1, <1>4
    <2>2. count'[s] = count[s]
      BY <1>1, <1>2, <1>4
    <2>3. QED
      BY <2>1, <2>2, <1>2, Zenon
  <1>5. QED
    BY <1>3, <1>4

LEMMA AddToCountIInv ==
    ASSUME TypeOK, IInv, NEW w \in Writers, AddToCount(w)
    PROVE  IInv'
  <1>1. Hot' = Hot /\ Hot \in Shard /\ Other(Hot) \in Shard /\ Other(Hot) # Hot
    BY ShardFacts DEF Hot, AddToCount
  <1>2. batch[w] \subseteq claimed /\ claimed \subseteq Obs
    BY DEF IInv, WriterInv, TypeOK
  <1>3. WriterInv'
    BY AddToCountEffect DEF IInv
  <1>4. QuietInv'
    <2> SUFFICES ASSUME \A c \in Collectors : ~Flipped(c)'
                 PROVE  QuietShards'
      BY DEF QuietInv
    <2>1. QuietShards
      BY DEF IInv, QuietInv, Flipped, AddToCount, cvars
    <2>2. wshard[w] = Hot
      BY <2>1 DEF QuietShards, AddToCount
    <2>3. SumHolds(Hot, claimed)' /\ SumHolds(Other(Hot), {})'
      BY <1>1, <2>1, AddToCountEffect DEF IInv, QuietShards, SumHolds, AddToCount
    <2>4. ASSUME NEW b \in Bounds
          PROVE  BucketHolds(Hot, b, claimed)' /\ BucketHolds(Other(Hot), b, {})'
      <3>1. BucketHolds(Hot, b, claimed) /\ BucketHolds(Other(Hot), b, {})
        BY <2>1 DEF QuietShards
      <3>2. QED
        BY <3>1, <1>1, AddToCountEffect DEF IInv, BucketHolds, AddToCount
    <2>5. CountHolds(Hot, claimed)' /\ CountHolds(Other(Hot), {})'
      <3>1. /\ count'[Hot] = Cardinality({o \in claimed : ~Pending(o)'})
            /\ count'[Other(Hot)] = Cardinality({o \in {} : ~Pending(o)'})
        BY <1>1, <1>2, <2>1, <2>2, AddToCountHolds DEF IInv, QuietShards
      <3>2. QED
        BY <3>1, <1>1 DEF CountHolds, AddToCount
    <2>6. (\A v \in Writers : wpc[v] # "idle" => wshard[v] = Hot)'
      BY <2>1, <1>1 DEF QuietShards, AddToCount, TypeOK
    <2>7. QED
      BY <2>3, <2>4, <2>5, <2>6 DEF QuietShards
  <1>5. CollectInv'
    <2> SUFFICES ASSUME NEW c \in Collectors, Flipped(c)'
                 PROVE  CollectShards(c)' /\ CollectWriters(c)' /\ CollectLocals(c)'
      BY DEF CollectInv
    <2>1. CollectShards(c) /\ CollectWriters(c) /\ CollectLocals(c)
      BY DEF IInv, CollectInv, Flipped, AddToCount, cvars
    <2>2. /\ cold[c] = Other(Hot) /\ cut[c] \subseteq claimed
          /\ \/ wshard[w] = Hot /\ batch[w] \cap cut[c] = {}
             \/ wshard[w] = cold[c] /\ batch[w] \subseteq cut[c] /\ cpc[c] = "drain"
      BY <2>1 DEF CollectLocals, CollectWriters, AddToCount
    <2>3. /\ SumHolds(cold[c], IF cpc[c] \in {"drain", "sum"} THEN cut[c] ELSE {})'
          /\ SumHolds(Hot, IF cpc[c] = "unlock" THEN claimed ELSE claimed \ cut[c])'
      BY <1>1, <1>2, <2>1, <2>2, AddToCountEffect
      DEF IInv, CollectShards, SumHolds, AddToCount, cvars
    <2>4. /\ CountHolds(cold[c], IF cpc[c] = "drain" THEN cut[c] ELSE {})'
          /\ CountHolds(Hot, IF cpc[c] \in {"mergesum", "unlock"} THEN claimed ELSE claimed \ cut[c])'
      <3> DEFINE coldSet == IF cpc[c] = "drain" THEN cut[c] ELSE {}
                 hotSet == IF cpc[c] \in {"mergesum", "unlock"} THEN claimed ELSE claimed \ cut[c]
      <3>1. CountHolds(cold[c], coldSet) /\ CountHolds(Hot, hotSet)
        BY <2>1 DEF CollectShards
      <3>2. /\ IF cold[c] = wshard[w] THEN batch[w] \subseteq coldSet ELSE batch[w] \cap coldSet = {}
            /\ IF Hot = wshard[w] THEN batch[w] \subseteq hotSet ELSE batch[w] \cap hotSet = {}
            /\ coldSet \in SUBSET Obs /\ hotSet \in SUBSET Obs
        BY <1>1, <1>2, <2>2
      <3>3. /\ count'[cold[c]] = Cardinality({o \in coldSet : ~Pending(o)'})
            /\ count'[Hot] = Cardinality({o \in hotSet : ~Pending(o)'})
        <4> HIDE DEF coldSet, hotSet
        <4>1. QED
          BY <3>1, <3>2, <1>1, <2>2, AddToCountHolds DEF IInv
      <3>4. QED
        BY <3>3, <1>1 DEF CountHolds, AddToCount, cvars
    <2>5. ASSUME NEW b \in Bounds
          PROVE  /\ BucketHolds(cold[c], b,
                        IF i[c] < b \/ (i[c] = b /\ cpc[c] # "merge") THEN cut[c] ELSE {})'
                 /\ BucketHolds(Hot, b, IF b < i[c] THEN claimed ELSE claimed \ cut[c])'
      <3>1. /\ BucketHolds(cold[c], b,
                    IF i[c] < b \/ (i[c] = b /\ cpc[c] # "merge") THEN cut[c] ELSE {})
            /\ BucketHolds(Hot, b, IF b < i[c] THEN claimed ELSE claimed \ cut[c])
        BY <2>1 DEF CollectShards
      <3>2. QED
        BY <3>1, <1>1, AddToCountEffect DEF IInv, BucketHolds, AddToCount, cvars
    <2>6. CollectWriters(c)'
      BY <1>1, <2>1 DEF CollectWriters, AddToCount, TypeOK, cvars
    <2>7. CollectLocals(c)'
      BY <1>1, <2>1 DEF CollectLocals, AddToCount, cvars
    <2>8. QED
      BY <2>3, <2>4, <2>5, <2>6, <2>7 DEF CollectShards
  <1>6. LockInv' /\ CallInv' /\ SnapshotIsCut' /\ SampleSumComplete'
    BY DEF IInv, LockInv, CallInv, Flipped, SnapshotIsCut, SampleSumComplete, AddToCount, cvars, rvars
  <1>7. ReaderInv'
    BY <1>1 DEF IInv, ReaderInv, AddToCount, TypeOK, rvars
  <1>8. QED
    BY <1>3, <1>4, <1>5, <1>6, <1>7 DEF IInv

-----------------------------------------------------------------------------
(***************************************************************************)
(* The collector's steps.  They leave the writers alone, and only the       *)
(* holder of collect_lock takes one.                                        *)
(***************************************************************************)

\* What a step that is not a writer's leaves as it was.
LEMMA PendingUnchanged ==
    ASSUME UNCHANGED wvars
    PROVE  /\ \A o \in Obs : SumPending(o)' <=> SumPending(o)
           /\ \A o \in Obs : Pending(o)' <=> Pending(o)
           /\ \A o \in Obs : BucketPending(o)' <=> BucketPending(o)
  BY DEF wvars, SumPending, Pending, BucketPending

LEMMA WriterInvUnchanged ==
    ASSUME TypeOK, WriterInv, UNCHANGED <<wvars, claimed>>,
           ObsCount(shardAndCount)' = ObsCount(shardAndCount)
    PROVE  WriterInv'
  BY DEF wvars, WriterInv

LEMMA LockCollectIInv ==
    ASSUME TypeOK, IInv, NEW c \in Collectors, LockCollect(c)
    PROVE  IInv'
  <1>1. /\ UNCHANGED <<shardAndCount, shards, wvars, claimed, rvars>>
        /\ UNCHANGED <<cold, overall, coldSum, i, coldBucket, cumulative, cut>>
        /\ lock = NoOwner /\ lock' = c /\ cpc[c] = "idle" /\ cpc'[c] = "flip"
        /\ result'[c] = NoResult
        /\ \A d \in Collectors : d # c => cpc'[d] = cpc[d] /\ result'[d] = result[d]
    BY DEF LockCollect, TypeOK
  <1>2. LockInv'
    BY <1>1, OwnersDiffer DEF IInv, LockInv, rvars
  <1>3. \A d \in Collectors : Flipped(d)' <=> Flipped(d)
    BY <1>1 DEF Flipped
  <1>4. CallInv'
    BY <1>1, <1>3 DEF IInv, CallInv
  <1>5. WriterInv'
    BY <1>1, WriterInvUnchanged DEF IInv, LockCollect
  <1>6. QuietInv'
    <2> SUFFICES ASSUME \A d \in Collectors : ~Flipped(d)'
                 PROVE  QuietShards'
      BY DEF QuietInv
    <2>1. QuietShards
      BY <1>3 DEF IInv, QuietInv
    <2>2. QED
      BY <2>1, <1>1 DEF QuietShards, SumHolds, CountHolds, BucketHolds,
         SumPending, Pending, BucketPending, Hot, shards, wvars
  <1>7. CollectInv'
    <2> SUFFICES ASSUME NEW d \in Collectors, Flipped(d)'
                 PROVE  CollectShards(d)' /\ CollectWriters(d)' /\ CollectLocals(d)'
      BY DEF CollectInv
    <2>1. CollectShards(d) /\ CollectWriters(d) /\ CollectLocals(d) /\ cpc'[d] = cpc[d]
      BY <1>1, <1>3 DEF IInv, CollectInv, Flipped
    <2>2. CollectShards(d)'
      BY <2>1, <1>1 DEF CollectShards, SumHolds, CountHolds, BucketHolds,
         SumPending, Pending, BucketPending, Hot, shards, wvars
    <2>3. CollectWriters(d)' /\ CollectLocals(d)'
      BY <2>1, <1>1 DEF CollectWriters, CollectLocals, Hot, wvars
    <2>4. QED
      BY <2>2, <2>3
  <1>8. ReaderInv' /\ SampleSumComplete'
    BY <1>1 DEF IInv, ReaderInv, SampleSumComplete, Hot, wvars, rvars
  <1>9. SnapshotIsCut'
    BY <1>1 DEF IInv, SnapshotIsCut
  <1>10. QED
    BY <1>2, <1>4, <1>5, <1>6, <1>7, <1>8, <1>9 DEF IInv

LEMMA OnlyHolder ==
    ASSUME LockInv, NEW c \in Collectors, cpc[c] # "idle"
    PROVE  /\ lock = c
           /\ \A d \in Collectors : d # c => cpc[d] = "idle"
           /\ \A r \in Readers : rpc[r] = "idle"
  BY OwnersDiffer DEF LockInv

LEMMA FlipIInv ==
    ASSUME TypeOK, IInv, NEW c \in Collectors, Flip(c)
    PROVE  IInv'
  <1>1. /\ UNCHANGED <<shards, lock, wvars, coldSum, i, coldBucket, cumulative, result, rvars, claimed>>
        /\ cpc[c] = "flip" /\ cpc'[c] = "drain"
        /\ cold'[c] = Hot /\ overall'[c] = ObsCount(shardAndCount) /\ cut'[c] = claimed
        /\ \A d \in Collectors : d # c => cpc'[d] = "idle" /\ cpc[d] = "idle" /\ cut'[d] = cut[d]
        /\ \A r \in Readers : rpc[r] = "idle"
    BY OnlyHolder DEF Flip, TypeOK, IInv
  <1>2. /\ Hot' = Other(Hot) /\ Hot = Other(Hot') /\ ObsCount(shardAndCount)' = ObsCount(shardAndCount)
    BY FlipFacts, ShardFacts DEF Flip, TypeOK, Hot
  <1>3. LockInv'
    BY <1>1 DEF IInv, LockInv, rvars
  <1>4. CallInv'
    BY <1>1 DEF IInv, CallInv, Flipped
  <1>5. WriterInv'
    BY <1>1, <1>2, WriterInvUnchanged DEF IInv
  <1>6. QuietInv'
    BY <1>1 DEF QuietInv, Flipped
  <1>7. QuietShards
    BY <1>1 DEF IInv, QuietInv, Flipped
  <1>8. CollectInv'
    <2> SUFFICES CollectShards(c)' /\ CollectWriters(c)' /\ CollectLocals(c)'
      BY <1>1 DEF CollectInv, Flipped
    <2>1. i[c] = 1 /\ cumulative[c][0] = Zero
      BY <1>1 DEF IInv, CallInv, Flipped
    <2>2. /\ SumHolds(cold[c], IF cpc[c] \in {"drain", "sum"} THEN cut[c] ELSE {})'
          /\ SumHolds(Hot, IF cpc[c] = "unlock" THEN claimed ELSE claimed \ cut[c])'
      BY <1>1, <1>2, <1>7, PendingUnchanged DEF QuietShards, SumHolds, shards
    <2>3. /\ CountHolds(cold[c], IF cpc[c] = "drain" THEN cut[c] ELSE {})'
          /\ CountHolds(Hot, IF cpc[c] \in {"mergesum", "unlock"} THEN claimed ELSE claimed \ cut[c])'
      <3>1. /\ {o \in claimed : ~Pending(o)'} = {o \in claimed : ~Pending(o)}
            /\ {o \in claimed \ claimed : ~Pending(o)'} = {o \in {} : ~Pending(o)}
        BY <1>1, PendingUnchanged DEF TypeOK
      <3>2. QED
        BY <3>1, <1>1, <1>2, <1>7 DEF QuietShards, CountHolds, shards
    <2>4. ASSUME NEW b \in Bounds
          PROVE  /\ BucketHolds(cold[c], b,
                        IF i[c] < b \/ (i[c] = b /\ cpc[c] # "merge") THEN cut[c] ELSE {})'
                 /\ BucketHolds(Hot, b, IF b < i[c] THEN claimed ELSE claimed \ cut[c])'
      <3>1. BucketHolds(Hot, b, claimed) /\ BucketHolds(Other(Hot), b, {})
        BY <1>7 DEF QuietShards
      <3>2. (i[c] < b \/ i[c] = b) /\ ~(b < i[c])
        BY <2>1 DEF Bounds
      <3>3. QED
        BY <3>1, <3>2, <1>1, <1>2, PendingUnchanged DEF BucketHolds, shards
    <2>5. CollectWriters(c)'
      BY <1>1, <1>2, <1>7 DEF IInv, WriterInv, QuietShards, CollectWriters, wvars
    <2>6. CollectLocals(c)'
      <3>1. ASSUME NEW b \in 0 .. NB, b < i[c]
            PROVE  cumulative[c][b] = TallyOf({o \in claimed : BucketOf[o] <= b})
        <4>1. b = 0
          BY <3>1, <2>1
        <4>2. {o \in claimed : BucketOf[o] <= b} = {}
          BY <4>1, DataAssumption DEF TypeOK
        <4>3. QED
          BY <4>1, <4>2, <2>1 DEF TallyOf, Zero
      <3>2. QED
        BY <3>1, <1>1, <1>2, <2>1 DEF IInv, WriterInv, CollectLocals
    <2>7. QED
      BY <2>2, <2>3, <2>4, <2>5, <2>6 DEF CollectShards
  <1>9. ReaderInv' /\ SampleSumComplete'
    BY <1>1 DEF IInv, ReaderInv, SampleSumComplete, wvars, rvars
  <1>10. SnapshotIsCut'
    BY <1>1 DEF IInv, CallInv, SnapshotIsCut
  <1>11. QED
    BY <1>3, <1>4, <1>5, <1>6, <1>8, <1>9, <1>10 DEF IInv

\* What the steps between the flip and the unlock have in common.
LEMMA CollectFrame ==
    ASSUME TypeOK, IInv, NEW c \in Collectors, Flipped(c), Flipped(c)',
           UNCHANGED <<shardAndCount, lock, wvars, cold, overall, result, cut, rvars, claimed>>,
           \A d \in Collectors : d # c =>
             cpc'[d] = cpc[d] /\ i'[d] = i[d] /\ cumulative'[d] = cumulative[d],
           CollectShards(c)', CollectWriters(c)', CollectLocals(c)'
    PROVE  IInv'
  <1>1. /\ lock = c
        /\ \A d \in Collectors : d # c => cpc'[d] = "idle" /\ cpc[d] = "idle"
        /\ \A r \in Readers : rpc[r] = "idle"
    BY OnlyHolder DEF IInv, Flipped
  <1>2. LockInv'
    BY <1>1 DEF IInv, LockInv, Flipped, rvars
  <1>3. CallInv'
    BY <1>1 DEF IInv, CallInv, Flipped
  <1>4. WriterInv'
    BY WriterInvUnchanged DEF IInv
  <1>5. QuietInv'
    BY DEF QuietInv
  <1>6. CollectInv'
    BY <1>1 DEF CollectInv, Flipped
  <1>7. ReaderInv' /\ SampleSumComplete'
    BY <1>1 DEF IInv, ReaderInv, SampleSumComplete, Hot, wvars, rvars
  <1>8. SnapshotIsCut'
    BY DEF IInv, SnapshotIsCut
  <1>9. QED
    BY <1>2, <1>3, <1>4, <1>5, <1>6, <1>7, <1>8 DEF IInv

\* When the cold shard's count has reached the count at the flip, no writer is
\* left on the cold shard.
LEMMA DrainedFacts ==
    ASSUME TypeOK, IInv, NEW c \in Collectors, Drain(c)
    PROVE  \A w \in Writers : wpc[w] # "idle" => wshard[w] = Hot /\ batch[w] \cap cut[c] = {}
  <1>1. CollectShards(c) /\ CollectWriters(c) /\ CollectLocals(c)
    BY DEF IInv, CollectInv, Flipped, Drain
  <1>2. Cardinality({o \in cut[c] : ~Pending(o)}) = Cardinality(cut[c])
    BY <1>1 DEF CollectShards, CollectLocals, CountHolds, Drain, Drained
  <1>3. {o \in cut[c] : ~Pending(o)} = cut[c]
    <2>1. IsFiniteSet(cut[c])
      BY ObsFacts DEF TypeOK
    <2>2. {o \in cut[c] : ~Pending(o)} \in SUBSET cut[c]
      OBVIOUS
    <2>3. QED
      BY <1>2, <2>1, <2>2, FS_Subset
  <1>4. \A w \in Writers : wpc[w] # "idle" => batch[w] \cap cut[c] = {}
    BY <1>3 DEF Pending
  <1>5. QED
    BY <1>1, <1>4 DEF IInv, WriterInv, CollectWriters

LEMMA DrainIInv ==
    ASSUME TypeOK, IInv, NEW c \in Collectors, Drain(c)
    PROVE  IInv'
  <1>1. /\ UNCHANGED <<shardAndCount, sum, bucket, lock, wvars, cold, overall, coldSum, i, coldBucket, cumulative, result, cut, rvars, claimed>>
        /\ cpc[c] = "drain" /\ cpc'[c] = "sum" /\ Hot' = Hot
        /\ \A d \in Collectors : d # c => cpc'[d] = cpc[d]
    BY DEF Drain, TypeOK, Hot
  <1>2. CollectShards(c) /\ CollectWriters(c) /\ CollectLocals(c)
    BY DEF IInv, CollectInv, Flipped, Drain
  <1>3. /\ Hot \in Shard /\ cold[c] \in Shard /\ cold[c] # Hot
        /\ count'[cold[c]] = 0 /\ count'[Hot] = count[Hot]
    BY <1>2, ShardFacts DEF CollectLocals, Hot, Drain, TypeOK
  <1>4. CollectShards(c)'
    <2>1. /\ SumHolds(cold[c], IF cpc[c] \in {"drain", "sum"} THEN cut[c] ELSE {})'
          /\ SumHolds(Hot, IF cpc[c] = "unlock" THEN claimed ELSE claimed \ cut[c])'
      BY <1>1, <1>2, PendingUnchanged DEF CollectShards, SumHolds
    <2>2. /\ CountHolds(cold[c], IF cpc[c] = "drain" THEN cut[c] ELSE {})'
          /\ CountHolds(Hot, IF cpc[c] \in {"mergesum", "unlock"} THEN claimed ELSE claimed \ cut[c])'
      <3>1. /\ {o \in {} : ~Pending(o)'} = {}
            /\ {o \in claimed \ cut[c] : ~Pending(o)'} = {o \in claimed \ cut[c] : ~Pending(o)}
        BY <1>1, PendingUnchanged DEF TypeOK
      <3>2. QED
        BY <3>1, <1>1, <1>2, <1>3, FS_EmptySet DEF CollectShards, CountHolds
    <2>3. ASSUME NEW b \in Bounds
          PROVE  /\ BucketHolds(cold[c], b,
                        IF i[c] < b \/ (i[c] = b /\ cpc[c] # "merge") THEN cut[c] ELSE {})'
                 /\ BucketHolds(Hot, b, IF b < i[c] THEN claimed ELSE claimed \ cut[c])'
      <3>1. /\ BucketHolds(cold[c], b,
                    IF i[c] < b \/ (i[c] = b /\ cpc[c] # "merge") THEN cut[c] ELSE {})
            /\ BucketHolds(Hot, b, IF b < i[c] THEN claimed ELSE claimed \ cut[c])
        BY <1>2 DEF CollectShards
      <3>2. QED
        BY <3>1, <1>1, PendingUnchanged DEF BucketHolds
    <2>4. QED
      BY <2>1, <2>2, <2>3 DEF CollectShards
  <1>5. CollectWriters(c)'
    BY <1>1, DrainedFacts DEF CollectWriters, wvars
  <1>6. CollectLocals(c)'
    BY <1>1, <1>2 DEF CollectLocals
  <1>7. QED
    BY <1>1, <1>4, <1>5, <1>6, CollectFrame DEF Flipped

\* Once the cold shard has drained, nothing of the cut is on its way.
LEMMA CutIsSettled ==
    ASSUME TypeOK, IInv, NEW c \in Collectors, Flipped(c), cpc[c] # "drain"
    PROVE  \A o \in cut[c] : ~SumPending(o) /\ ~Pending(o) /\ ~BucketPending(o)
  <1>1. \A w \in Writers : wpc[w] # "idle" => batch[w] \cap cut[c] = {}
    BY DEF IInv, CollectInv, CollectWriters
  <1>2. \A w \in Writers : batch[w] \cap cut[c] = {}
    BY <1>1 DEF IInv, WriterInv
  <1>3. QED
    BY <1>2 DEF SumPending, Pending, BucketPending

LEMMA SwapSumIInv ==
    ASSUME TypeOK, IInv, NEW c \in Collectors, SwapSum(c)
    PROVE  IInv'
  <1>1. /\ UNCHANGED <<shardAndCount, count, bucket, lock, wvars, cold, overall, i, coldBucket, cumulative, result, cut, rvars, claimed>>
        /\ cpc[c] = "sum" /\ cpc'[c] = "swap" /\ Hot' = Hot
        /\ coldSum'[c] = sum[cold[c]]
        /\ \A d \in Collectors : d # c => cpc'[d] = cpc[d]
    BY DEF SwapSum, TypeOK, Hot
  <1>2. CollectShards(c) /\ CollectWriters(c) /\ CollectLocals(c)
    BY DEF IInv, CollectInv, Flipped, SwapSum
  <1>3. /\ Hot \in Shard /\ cold[c] \in Shard /\ cold[c] # Hot
        /\ sum'[cold[c]] = Zero /\ sum'[Hot] = sum[Hot]
    BY <1>2, ShardFacts DEF CollectLocals, Hot, SwapSum, TypeOK
  <1>4. coldSum'[c] = TallyOf(cut[c])
    <2>1. \A o \in Obs : sum[cold[c]][o] = IF o \in cut[c] THEN 1 ELSE 0
      BY <1>1, <1>2, CutIsSettled DEF CollectShards, SumHolds, Flipped
    <2>2. sum[cold[c]] = [o \in Obs |-> sum[cold[c]][o]]
      BY <1>3 DEF TypeOK, Tally
    <2>3. QED
      BY <1>1, <2>1, <2>2 DEF TallyOf
  <1>5. CollectShards(c)'
    <2>1. /\ SumHolds(cold[c], IF cpc[c] \in {"drain", "sum"} THEN cut[c] ELSE {})'
          /\ SumHolds(Hot, IF cpc[c] = "unlock" THEN claimed ELSE claimed \ cut[c])'
      BY <1>1, <1>2, <1>3, PendingUnchanged DEF CollectShards, SumHolds, Zero
    <2>2. /\ CountHolds(cold[c], IF cpc[c] = "drain" THEN cut[c] ELSE {})'
          /\ CountHolds(Hot, IF cpc[c] \in {"mergesum", "unlock"} THEN claimed ELSE claimed \ cut[c])'
      <3>1. /\ {o \in {} : ~Pending(o)'} = {o \in {} : ~Pending(o)}
            /\ {o \in claimed : ~Pending(o)'} = {o \in claimed : ~Pending(o)}
            /\ {o \in claimed \ cut[c] : ~Pending(o)'} = {o \in claimed \ cut[c] : ~Pending(o)}
        BY <1>1, PendingUnchanged DEF TypeOK
      <3>2. QED
        BY <3>1, <1>1, <1>2 DEF CollectShards, CountHolds
    <2>3. ASSUME NEW b \in Bounds
          PROVE  /\ BucketHolds(cold[c], b,
                        IF i[c] < b \/ (i[c] = b /\ cpc[c] # "merge") THEN cut[c] ELSE {})'
                 /\ BucketHolds(Hot, b, IF b < i[c] THEN claimed ELSE claimed \ cut[c])'
      <3>1. /\ BucketHolds(cold[c], b,
                    IF i[c] < b \/ (i[c] = b /\ cpc[c] # "merge") THEN cut[c] ELSE {})
            /\ BucketHolds(Hot, b, IF b < i[c] THEN claimed ELSE claimed \ cut[c])
        BY <1>2 DEF CollectShards
      <3>2. QED
        BY <3>1, <1>1, PendingUnchanged DEF BucketHolds
    <2>4. QED
      BY <2>1, <2>2, <2>3 DEF CollectShards
  <1>6. CollectWriters(c)'
    BY <1>1, <1>2 DEF CollectWriters, wvars
  <1>7. CollectLocals(c)'
    BY <1>1, <1>2, <1>4 DEF CollectLocals
  <1>8. QED
    BY <1>1, <1>5, <1>6, <1>7, CollectFrame DEF Flipped

LEMMA SwapBucketIInv ==
    ASSUME TypeOK, IInv, NEW c \in Collectors, SwapBucket(c)
    PROVE  IInv'
  <1>1. /\ UNCHANGED <<shardAndCount, count, sum, lock, wvars, cold, overall, coldSum, i, cumulative, result, cut, rvars, claimed>>
        /\ cpc[c] = "swap" /\ cpc'[c] = "merge" /\ Hot' = Hot
        /\ i[c] \in Bounds
        /\ coldBucket'[c] = bucket[cold[c]][i[c]]
        /\ \A d \in Collectors : d # c => cpc'[d] = cpc[d]
    BY DataAssumption DEF SwapBucket, TypeOK, Hot, Bounds
  <1>2. CollectShards(c) /\ CollectWriters(c) /\ CollectLocals(c)
    BY DEF IInv, CollectInv, Flipped, SwapBucket
  <1>3. /\ Hot \in Shard /\ cold[c] \in Shard /\ cold[c] # Hot
        /\ bucket'[Hot] = bucket[Hot]
        /\ \A b \in Bounds : bucket'[cold[c]][b] = IF b = i[c] THEN Zero ELSE bucket[cold[c]][b]
    BY <1>2, ShardFacts DEF CollectLocals, Hot, SwapBucket, TypeOK
  <1>4. coldBucket'[c] = TallyOf({o \in cut[c] : BucketOf[o] = i[c]})
    <2>1. BucketHolds(cold[c], i[c], cut[c])
      BY <1>1, <1>2 DEF CollectShards
    <2>2. \A o \in Obs : bucket[cold[c]][i[c]][o] =
            IF o \in {x \in cut[c] : BucketOf[x] = i[c]} THEN 1 ELSE 0
      BY <1>1, <2>1, CutIsSettled DEF BucketHolds, Flipped
    <2>3. bucket[cold[c]][i[c]] = [o \in Obs |-> bucket[cold[c]][i[c]][o]]
      BY <1>1, <1>3 DEF TypeOK, Tally
    <2>4. QED
      BY <1>1, <2>2, <2>3 DEF TallyOf
  <1>5. CollectShards(c)'
    <2>1. /\ SumHolds(cold[c], IF cpc[c] \in {"drain", "sum"} THEN cut[c] ELSE {})'
          /\ SumHolds(Hot, IF cpc[c] = "unlock" THEN claimed ELSE claimed \ cut[c])'
      BY <1>1, <1>2, PendingUnchanged DEF CollectShards, SumHolds
    <2>2. /\ CountHolds(cold[c], IF cpc[c] = "drain" THEN cut[c] ELSE {})'
          /\ CountHolds(Hot, IF cpc[c] \in {"mergesum", "unlock"} THEN claimed ELSE claimed \ cut[c])'
      <3>1. /\ {o \in {} : ~Pending(o)'} = {o \in {} : ~Pending(o)}
            /\ {o \in claimed : ~Pending(o)'} = {o \in claimed : ~Pending(o)}
            /\ {o \in claimed \ cut[c] : ~Pending(o)'} = {o \in claimed \ cut[c] : ~Pending(o)}
        BY <1>1, PendingUnchanged DEF TypeOK
      <3>2. QED
        BY <3>1, <1>1, <1>2 DEF CollectShards, CountHolds
    <2>3. ASSUME NEW b \in Bounds
          PROVE  /\ BucketHolds(cold[c], b,
                        IF i[c] < b \/ (i[c] = b /\ cpc[c] # "merge") THEN cut[c] ELSE {})'
                 /\ BucketHolds(Hot, b, IF b < i[c] THEN claimed ELSE claimed \ cut[c])'
      <3>1. /\ BucketHolds(cold[c], b,
                    IF i[c] < b \/ (i[c] = b /\ cpc[c] # "merge") THEN cut[c] ELSE {})
            /\ BucketHolds(Hot, b, IF b < i[c] THEN claimed ELSE claimed \ cut[c])
        BY <1>2 DEF CollectShards
      <3>2. i[c] \in Int /\ b \in Int
        BY <1>1 DEF Bounds
      <3>3. CASE b = i[c]
        BY <3>1, <3>2, <3>3, <1>1, <1>3, PendingUnchanged DEF BucketHolds, Zero
      <3>4. CASE b # i[c]
        BY <3>1, <3>2, <3>4, <1>1, <1>3, PendingUnchanged DEF BucketHolds
      <3>5. QED
        BY <3>3, <3>4
    <2>4. QED
      BY <2>1, <2>2, <2>3 DEF CollectShards
  <1>6. CollectWriters(c)'
    BY <1>1, <1>2 DEF CollectWriters, wvars
  <1>7. CollectLocals(c)'
    BY <1>1, <1>2, <1>4 DEF CollectLocals
  <1>8. QED
    BY <1>1, <1>5, <1>6, <1>7, CollectFrame DEF Flipped

LEMMA MergeBucketIInv ==
    ASSUME TypeOK, IInv, NEW c \in Collectors, MergeBucket(c)
    PROVE  IInv'
  <1>1. /\ UNCHANGED <<shardAndCount, count, sum, lock, wvars, cold, overall, coldSum, result, cut, rvars, claimed>>
        /\ cpc[c] = "merge" /\ cpc'[c] = "swap" /\ Hot' = Hot
        /\ i[c] \in Bounds /\ i'[c] = i[c] + 1
        /\ \A d \in Collectors : d # c =>
             cpc'[d] = cpc[d] /\ i'[d] = i[d] /\ cumulative'[d] = cumulative[d]
    BY DEF MergeBucket, TypeOK, Hot
  <1>2. CollectShards(c) /\ CollectWriters(c) /\ CollectLocals(c)
    BY DEF IInv, CollectInv, Flipped, MergeBucket
  <1>3. /\ Hot \in Shard /\ cold[c] \in Shard /\ cold[c] # Hot
        /\ bucket'[cold[c]] = bucket[cold[c]]
        /\ \A b \in Bounds : bucket'[Hot][b] =
             IF b = i[c] THEN Plus(bucket[Hot][b], coldBucket[c]) ELSE bucket[Hot][b]
    BY <1>2, ShardFacts DEF CollectLocals, Hot, MergeBucket, TypeOK
  <1>4. coldBucket[c] = TallyOf({o \in cut[c] : BucketOf[o] = i[c]})
    BY <1>1, <1>2 DEF CollectLocals
  <1>5. CollectShards(c)'
    <2>1. /\ SumHolds(cold[c], IF cpc[c] \in {"drain", "sum"} THEN cut[c] ELSE {})'
          /\ SumHolds(Hot, IF cpc[c] = "unlock" THEN claimed ELSE claimed \ cut[c])'
      BY <1>1, <1>2, PendingUnchanged DEF CollectShards, SumHolds
    <2>2. /\ CountHolds(cold[c], IF cpc[c] = "drain" THEN cut[c] ELSE {})'
          /\ CountHolds(Hot, IF cpc[c] \in {"mergesum", "unlock"} THEN claimed ELSE claimed \ cut[c])'
      <3>1. /\ {o \in {} : ~Pending(o)'} = {o \in {} : ~Pending(o)}
            /\ {o \in claimed : ~Pending(o)'} = {o \in claimed : ~Pending(o)}
            /\ {o \in claimed \ cut[c] : ~Pending(o)'} = {o \in claimed \ cut[c] : ~Pending(o)}
        BY <1>1, PendingUnchanged DEF TypeOK
      <3>2. QED
        BY <3>1, <1>1, <1>2 DEF CollectShards, CountHolds
    <2>3. ASSUME NEW b \in Bounds
          PROVE  /\ BucketHolds(cold[c], b,
                        IF i[c] < b \/ (i[c] = b /\ cpc[c] # "merge") THEN cut[c] ELSE {})'
                 /\ BucketHolds(Hot, b, IF b < i[c] THEN claimed ELSE claimed \ cut[c])'
      <3>1. /\ BucketHolds(cold[c], b,
                    IF i[c] < b \/ (i[c] = b /\ cpc[c] # "merge") THEN cut[c] ELSE {})
            /\ BucketHolds(Hot, b, IF b < i[c] THEN claimed ELSE claimed \ cut[c])
        BY <1>2 DEF CollectShards
      <3>2. i[c] \in Int /\ b \in Int
        BY <1>1 DEF Bounds
      <3>3. CASE b = i[c]
        <4>1. BucketHolds(Hot, b, claimed \ cut[c]) /\ BucketHolds(cold[c], b, {})
          BY <3>1, <3>2, <3>3, <1>1
        <4>2. ASSUME NEW o \in Obs
              PROVE  bucket'[Hot][b][o] =
                        IF o \in claimed /\ BucketOf[o] = b /\ ~BucketPending(o) THEN 1 ELSE 0
          <5>1. bucket'[Hot][b][o] = bucket[Hot][b][o] + IF o \in cut[c] /\ BucketOf[o] = b THEN 1 ELSE 0
            <6>1. bucket'[Hot][b] = Plus(bucket[Hot][b], coldBucket[c])
              BY <3>3, <1>3
            <6>2. coldBucket[c][o] = IF o \in cut[c] /\ BucketOf[o] = b THEN 1 ELSE 0
              BY <3>3, <1>4 DEF TallyOf
            <6>3. QED
              BY <6>1, <6>2 DEF Plus
          <5>2. bucket[Hot][b][o] =
                    IF o \in claimed \ cut[c] /\ BucketOf[o] = b /\ ~BucketPending(o) THEN 1 ELSE 0
            BY <4>1 DEF BucketHolds
          <5>3. o \in cut[c] => o \in claimed /\ ~BucketPending(o)
            BY <1>1, <1>2, CutIsSettled DEF CollectLocals, Flipped
          <5>4. QED
            BY <5>1, <5>2, <5>3
        <4>3. ~(i'[c] < b \/ i'[c] = b) /\ b < i'[c]
          BY <3>2, <3>3, <1>1
        <4>4. QED
          BY <4>1, <4>2, <4>3, <1>1, <1>3, PendingUnchanged DEF BucketHolds
      <3>4. CASE b # i[c]
        <4>1. (i'[c] < b \/ i'[c] = b) <=> i[c] < b
          BY <3>2, <3>4, <1>1
        <4>2. b < i'[c] <=> b < i[c]
          BY <3>2, <3>4, <1>1
        <4>3. QED
          BY <4>1, <4>2, <3>1, <3>4, <1>1, <1>3, PendingUnchanged DEF BucketHolds
      <3>5. QED
        BY <3>3, <3>4
    <2>4. QED
      BY <2>1, <2>2, <2>3 DEF CollectShards
  <1>6. CollectWriters(c)'
    BY <1>1, <1>2 DEF CollectWriters, wvars
  <1>7. CollectLocals(c)'
    <2>1. ASSUME NEW b \in 0 .. NB, b < i'[c]
          PROVE  cumulative'[c][b] = TallyOf({o \in cut[c] : BucketOf[o] <= b})
      <3>1. i[c] \in Int /\ b \in Int /\ i[c] - 1 \in 0 .. NB /\ i[c] - 1 < i[c]
        BY <1>1, DataAssumption DEF Bounds
      <3>2. CASE b = i[c]
        <4>1. cumulative'[c][b] = Plus(cumulative[c][i[c] - 1], coldBucket[c])
          BY <2>1, <3>2 DEF MergeBucket, TypeOK
        <4>2. cumulative[c][i[c] - 1] = TallyOf({o \in cut[c] : BucketOf[o] <= i[c] - 1})
          BY <3>1, <1>2 DEF CollectLocals
        <4>3. ASSUME NEW o \in Obs
              PROVE  (IF o \in {x \in cut[c] : BucketOf[x] <= i[c] - 1} THEN 1 ELSE 0) +
                     (IF o \in {x \in cut[c] : BucketOf[x] = i[c]} THEN 1 ELSE 0) =
                     (IF o \in {x \in cut[c] : BucketOf[x] <= b} THEN 1 ELSE 0)
          <5>1. BucketOf[o] \in Int
            BY DataAssumption
          <5>2. QED
            BY <5>1, <3>1, <3>2
        <4>4. QED
          BY <4>1, <4>2, <4>3, <1>4 DEF Plus, TallyOf
      <3>3. CASE b # i[c]
        <4>1. b < i[c]
          BY <2>1, <3>1, <3>3, <1>1
        <4>2. cumulative'[c][b] = cumulative[c][b]
          BY <3>3 DEF MergeBucket, TypeOK
        <4>3. QED
          BY <4>1, <4>2, <1>2 DEF CollectLocals
      <3>4. QED
        BY <3>2, <3>3
    <2>2. QED
      BY <2>1, <1>1, <1>2 DEF CollectLocals
  <1>8. QED
    BY <1>1, <1>5, <1>6, <1>7, CollectFrame DEF Flipped

LEMMA MergeCountIInv ==
    ASSUME TypeOK, IInv, NEW c \in Collectors, MergeCount(c)
    PROVE  IInv'
  <1>1. /\ UNCHANGED <<shardAndCount, sum, bucket, lock, wvars, cold, overall, coldSum, i, coldBucket, cumulative, result, cut, rvars, claimed>>
        /\ cpc[c] = "swap" /\ cpc'[c] = "mergesum" /\ Hot' = Hot /\ i[c] = NB + 1
        /\ \A d \in Collectors : d # c => cpc'[d] = cpc[d]
    BY DataAssumption DEF MergeCount, TypeOK, Hot
  <1>2. CollectShards(c) /\ CollectWriters(c) /\ CollectLocals(c)
    BY DEF IInv, CollectInv, Flipped, MergeCount
  <1>3. /\ Hot \in Shard /\ cold[c] \in Shard /\ cold[c] # Hot
        /\ count'[cold[c]] = count[cold[c]] /\ count'[Hot] = count[Hot] + overall[c]
    BY <1>2, ShardFacts DEF CollectLocals, Hot, MergeCount, TypeOK
  <1>4. CollectShards(c)'
    <2>1. /\ SumHolds(cold[c], IF cpc[c] \in {"drain", "sum"} THEN cut[c] ELSE {})'
          /\ SumHolds(Hot, IF cpc[c] = "unlock" THEN claimed ELSE claimed \ cut[c])'
      BY <1>1, <1>2, PendingUnchanged DEF CollectShards, SumHolds
    <2>2. /\ CountHolds(cold[c], IF cpc[c] = "drain" THEN cut[c] ELSE {})'
          /\ CountHolds(Hot, IF cpc[c] \in {"mergesum", "unlock"} THEN claimed ELSE claimed \ cut[c])'
      <3>1. count[cold[c]] = Cardinality({o \in {} : ~Pending(o)})
        BY <1>1, <1>2 DEF CollectShards, CountHolds
      <3>2. count[Hot] = Cardinality({o \in claimed \ cut[c] : ~Pending(o)})
        BY <1>1, <1>2 DEF CollectShards, CountHolds
      <3>3. {o \in claimed : ~Pending(o)} = {o \in claimed \ cut[c] : ~Pending(o)} \cup cut[c]
        BY <1>1, <1>2, CutIsSettled DEF CollectLocals, Flipped
      <3>4. Cardinality({o \in claimed : ~Pending(o)}) = count[Hot] + Cardinality(cut[c])
        <4>1. /\ {o \in claimed \ cut[c] : ~Pending(o)} \cap cut[c] = {}
              /\ {o \in claimed \ cut[c] : ~Pending(o)} \subseteq Obs
              /\ cut[c] \subseteq Obs
          BY DEF TypeOK
        <4>2. QED
          BY <3>2, <3>3, <4>1, CardinalityUnion
      <3>5. /\ {o \in {} : ~Pending(o)'} = {o \in {} : ~Pending(o)}
            /\ {o \in claimed : ~Pending(o)'} = {o \in claimed : ~Pending(o)}
        BY <1>1, PendingUnchanged DEF TypeOK
      <3>6. overall[c] = Cardinality(cut[c])
        BY <1>2 DEF CollectLocals
      <3>7. QED
        BY <3>1, <3>4, <3>5, <3>6, <1>1, <1>3 DEF CountHolds
    <2>3. ASSUME NEW b \in Bounds
          PROVE  /\ BucketHolds(cold[c], b,
                        IF i[c] < b \/ (i[c] = b /\ cpc[c] # "merge") THEN cut[c] ELSE {})'
                 /\ BucketHolds(Hot, b, IF b < i[c] THEN claimed ELSE claimed \ cut[c])'
      <3>1. /\ BucketHolds(cold[c], b,
                    IF i[c] < b \/ (i[c] = b /\ cpc[c] # "merge") THEN cut[c] ELSE {})
            /\ BucketHolds(Hot, b, IF b < i[c] THEN claimed ELSE claimed \ cut[c])
        BY <1>2 DEF CollectShards
      <3>2. QED
        BY <3>1, <1>1, PendingUnchanged DEF BucketHolds
    <2>4. QED
      BY <2>1, <2>2, <2>3 DEF CollectShards
  <1>5. CollectWriters(c)'
    BY <1>1, <1>2 DEF CollectWriters, wvars
  <1>6. CollectLocals(c)'
    BY <1>1, <1>2 DEF CollectLocals
  <1>7. QED
    BY <1>1, <1>4, <1>5, <1>6, CollectFrame DEF Flipped

LEMMA MergeSumIInv ==
    ASSUME TypeOK, IInv, NEW c \in Collectors, MergeSum(c)
    PROVE  IInv'
  <1>1. /\ UNCHANGED <<shardAndCount, count, bucket, lock, wvars, cold, overall, coldSum, i, coldBucket, cumulative, result, cut, rvars, claimed>>
        /\ cpc[c] = "mergesum" /\ cpc'[c] = "unlock" /\ Hot' = Hot
        /\ \A d \in Collectors : d # c => cpc'[d] = cpc[d]
    BY DEF MergeSum, TypeOK, Hot
  <1>2. CollectShards(c) /\ CollectWriters(c) /\ CollectLocals(c)
    BY DEF IInv, CollectInv, Flipped, MergeSum
  <1>3. /\ Hot \in Shard /\ cold[c] \in Shard /\ cold[c] # Hot
        /\ sum'[cold[c]] = sum[cold[c]] /\ sum'[Hot] = Plus(sum[Hot], coldSum[c])
    BY <1>2, ShardFacts DEF CollectLocals, Hot, MergeSum, TypeOK
  <1>4. CollectShards(c)'
    <2>1. /\ SumHolds(cold[c], IF cpc[c] \in {"drain", "sum"} THEN cut[c] ELSE {})'
          /\ SumHolds(Hot, IF cpc[c] = "unlock" THEN claimed ELSE claimed \ cut[c])'
      <3>1. SumHolds(cold[c], {}) /\ SumHolds(Hot, claimed \ cut[c])
        BY <1>1, <1>2 DEF CollectShards
      <3>2. ASSUME NEW o \in Obs
            PROVE  sum'[Hot][o] = IF o \in claimed /\ ~SumPending(o) THEN 1 ELSE 0
        <4>1. coldSum[c][o] = IF o \in cut[c] THEN 1 ELSE 0
          BY <1>1, <1>2 DEF CollectLocals, TallyOf
        <4>2. sum'[Hot][o] = sum[Hot][o] + coldSum[c][o]
          BY <1>3 DEF Plus
        <4>3. sum[Hot][o] = IF o \in claimed \ cut[c] /\ ~SumPending(o) THEN 1 ELSE 0
          BY <3>1 DEF SumHolds
        <4>4. o \in cut[c] => o \in claimed /\ ~SumPending(o)
          BY <1>1, <1>2, CutIsSettled DEF CollectLocals, Flipped
        <4>5. QED
          BY <4>1, <4>2, <4>3, <4>4
      <3>3. QED
        BY <3>1, <3>2, <1>1, <1>3, PendingUnchanged DEF SumHolds
    <2>2. /\ CountHolds(cold[c], IF cpc[c] = "drain" THEN cut[c] ELSE {})'
          /\ CountHolds(Hot, IF cpc[c] \in {"mergesum", "unlock"} THEN claimed ELSE claimed \ cut[c])'
      <3>1. /\ {o \in {} : ~Pending(o)'} = {o \in {} : ~Pending(o)}
            /\ {o \in claimed : ~Pending(o)'} = {o \in claimed : ~Pending(o)}
            /\ {o \in claimed \ cut[c] : ~Pending(o)'} = {o \in claimed \ cut[c] : ~Pending(o)}
        BY <1>1, PendingUnchanged DEF TypeOK
      <3>2. QED
        BY <3>1, <1>1, <1>2 DEF CollectShards, CountHolds
    <2>3. ASSUME NEW b \in Bounds
          PROVE  /\ BucketHolds(cold[c], b,
                        IF i[c] < b \/ (i[c] = b /\ cpc[c] # "merge") THEN cut[c] ELSE {})'
                 /\ BucketHolds(Hot, b, IF b < i[c] THEN claimed ELSE claimed \ cut[c])'
      <3>1. /\ BucketHolds(cold[c], b,
                    IF i[c] < b \/ (i[c] = b /\ cpc[c] # "merge") THEN cut[c] ELSE {})
            /\ BucketHolds(Hot, b, IF b < i[c] THEN claimed ELSE claimed \ cut[c])
        BY <1>2 DEF CollectShards
      <3>2. QED
        BY <3>1, <1>1, PendingUnchanged DEF BucketHolds
    <2>4. QED
      BY <2>1, <2>2, <2>3 DEF CollectShards
  <1>5. CollectWriters(c)'
    BY <1>1, <1>2 DEF CollectWriters, wvars
  <1>6. CollectLocals(c)'
    BY <1>1, <1>2 DEF CollectLocals
  <1>7. QED
    BY <1>1, <1>4, <1>5, <1>6, CollectFrame DEF Flipped

\* What proto returns, from its locals at the unlock.
LEMMA UnlockReturnsSnapshot ==
    ASSUME TypeOK, IInv, NEW c \in Collectors, UnlockCollect(c)
    PROVE  result'[c] = Snapshot(cut[c])
  <1>1. cpc[c] = "unlock" /\ CollectLocals(c)
    BY DEF IInv, CollectInv, Flipped, UnlockCollect
  <1>2. ASSUME NEW b \in Bounds
        PROVE  cumulative[c][b] = TallyOf({o \in cut[c] : BucketOf[o] <= b})
    <2>1. i[c] = NB + 1 /\ b \in 0 .. NB /\ b < i[c]
      BY <1>1, DataAssumption DEF CollectLocals, Bounds
    <2>2. QED
      BY <2>1, <1>1 DEF CollectLocals
  <1>3. overall[c] = Cardinality(cut[c]) /\ coldSum[c] = TallyOf(cut[c])
    BY <1>1 DEF CollectLocals
  <1>4. result'[c] = [count |-> overall[c], sum |-> coldSum[c],
                      cumulative |-> [b \in Bounds |-> cumulative[c][b]]]
    BY DEF UnlockCollect, TypeOK
  <1>5. QED
    BY <1>2, <1>3, <1>4 DEF Snapshot

LEMMA UnlockCollectIInv ==
    ASSUME TypeOK, IInv, NEW c \in Collectors, UnlockCollect(c)
    PROVE  IInv'
  <1>1. /\ UNCHANGED <<shardAndCount, shards, wvars, coldBucket, cut, rvars, claimed>>
        /\ cpc[c] = "unlock" /\ cpc'[c] = "idle" /\ Hot' = Hot /\ lock' = NoOwner
        /\ i'[c] = 1 /\ cumulative'[c][0] = Zero
        /\ \A d \in Collectors : d # c =>
             cpc'[d] = "idle" /\ cpc[d] = "idle" /\ i'[d] = i[d]
             /\ cumulative'[d] = cumulative[d] /\ result'[d] = result[d]
        /\ \A r \in Readers : rpc[r] = "idle"
    <2>1. cpc[c] = "unlock" /\ LockInv
      BY DEF UnlockCollect, IInv
    <2>2. /\ \A d \in Collectors : d # c => cpc[d] = "idle"
          /\ \A r \in Readers : rpc[r] = "idle"
      BY <2>1, OnlyHolder
    <2>3. QED
      BY <2>1, <2>2, DataAssumption DEF UnlockCollect, TypeOK, Hot
  <1>2. CollectShards(c) /\ CollectWriters(c) /\ CollectLocals(c)
    BY DEF IInv, CollectInv, Flipped, UnlockCollect
  <1>3. LockInv'
    BY <1>1, OwnersDiffer DEF LockInv, rvars
  <1>4. CallInv'
    BY <1>1 DEF IInv, CallInv, Flipped
  <1>5. WriterInv'
    BY <1>1, WriterInvUnchanged DEF IInv
  <1>6. CollectInv'
    BY <1>1 DEF CollectInv, Flipped
  <1>7. QuietInv'
    <2>1. cold[c] = Other(Hot) /\ i[c] = NB + 1
      BY <1>1, <1>2 DEF CollectLocals
    <2>2. SumHolds(Hot, claimed)' /\ SumHolds(Other(Hot), {})'
      BY <1>1, <1>2, <2>1, PendingUnchanged DEF CollectShards, SumHolds, shards
    <2>3. CountHolds(Hot, claimed)' /\ CountHolds(Other(Hot), {})'
      <3>1. /\ {o \in {} : ~Pending(o)'} = {o \in {} : ~Pending(o)}
            /\ {o \in claimed : ~Pending(o)'} = {o \in claimed : ~Pending(o)}
        BY <1>1, PendingUnchanged DEF TypeOK
      <3>2. QED
        BY <3>1, <1>1, <1>2, <2>1 DEF CollectShards, CountHolds, shards
    <2>4. ASSUME NEW b \in Bounds
          PROVE  BucketHolds(Hot, b, claimed)' /\ BucketHolds(Other(Hot), b, {})'
      <3>1. /\ BucketHolds(cold[c], b,
                    IF i[c] < b \/ (i[c] = b /\ cpc[c] # "merge") THEN cut[c] ELSE {})
            /\ BucketHolds(Hot, b, IF b < i[c] THEN claimed ELSE claimed \ cut[c])
        BY <1>2 DEF CollectShards
      <3>2. b < i[c] /\ ~(i[c] < b \/ i[c] = b)
        BY <2>1, DataAssumption DEF Bounds
      <3>3. BucketHolds(Hot, b, claimed) /\ BucketHolds(Other(Hot), b, {})
        BY <3>1, <3>2, <2>1
      <3>4. QED
        BY <3>3, <1>1, PendingUnchanged DEF BucketHolds, shards
    <2>5. (\A w \in Writers : wpc[w] # "idle" => wshard[w] = Hot)'
      BY <1>1, <1>2 DEF CollectWriters, wvars
    <2>6. QED
      BY <2>2, <2>3, <2>4, <2>5 DEF QuietInv, QuietShards
  <1>8. ReaderInv' /\ SampleSumComplete'
    BY <1>1 DEF IInv, ReaderInv, SampleSumComplete, wvars, rvars
  <1>9. SnapshotIsCut'
    BY <1>1, UnlockReturnsSnapshot DEF IInv, SnapshotIsCut
  <1>10. QED
    BY <1>3, <1>4, <1>5, <1>6, <1>7, <1>8, <1>9 DEF IInv

-----------------------------------------------------------------------------
(***************************************************************************)
(* sample_sum.                                                              *)
(***************************************************************************)

\* What a step of a reader keeps.
LEMMA ReaderFrame ==
    ASSUME TypeOK, IInv, UNCHANGED <<shardAndCount, shards, wvars, cvars, claimed>>
    PROVE  CallInv' /\ WriterInv' /\ QuietInv' /\ CollectInv' /\ SnapshotIsCut'
  <1>1. /\ CallInv' /\ SnapshotIsCut'
    BY DEF IInv, CallInv, Flipped, SnapshotIsCut, cvars
  <1>2. WriterInv'
    BY WriterInvUnchanged DEF IInv
  <1>3. QuietInv'
    BY DEF IInv, QuietInv, Flipped, QuietShards, SumHolds, CountHolds, BucketHolds,
       SumPending, Pending, BucketPending, Hot, shards, wvars, cvars
  <1>4. CollectInv'
    <2> SUFFICES ASSUME NEW c \in Collectors, Flipped(c)'
                 PROVE  CollectShards(c)' /\ CollectWriters(c)' /\ CollectLocals(c)'
      BY DEF CollectInv
    <2>1. CollectShards(c) /\ CollectWriters(c) /\ CollectLocals(c)
      BY DEF IInv, CollectInv, Flipped, cvars
    <2>2. CollectShards(c)'
      BY <2>1 DEF CollectShards, SumHolds, CountHolds, BucketHolds,
         SumPending, Pending, BucketPending, Hot, shards, wvars, cvars
    <2>3. CollectWriters(c)' /\ CollectLocals(c)'
      BY <2>1 DEF CollectWriters, CollectLocals, Hot, wvars, cvars
    <2>4. QED
      BY <2>2, <2>3
  <1>5. QED
    BY <1>1, <1>2, <1>3, <1>4

LEMMA ReaderIInv ==
    ASSUME TypeOK, IInv, NEW r \in Readers, LockRead(r) \/ ReaderStep(r)
    PROVE  IInv'
  <1>1. CASE LockRead(r)
    <2>1. CallInv' /\ WriterInv' /\ QuietInv' /\ CollectInv' /\ SnapshotIsCut'
      BY <1>1, ReaderFrame DEF LockRead
    <2>2. LockInv'
      BY <1>1, OwnersDiffer DEF LockRead, MayRead, IInv, LockInv, TypeOK, cvars
    <2>3. ReaderInv'
      BY <1>1 DEF LockRead, IInv, ReaderInv, Recorded, TypeOK, Hot, wvars
    <2>4. SampleSumComplete'
      BY <1>1 DEF LockRead, IInv, SampleSumComplete, TypeOK
    <2>5. QED
      BY <2>1, <2>2, <2>3, <2>4 DEF IInv
  <1>2. CASE ReadShard(r)
    <2>1. CallInv' /\ WriterInv' /\ QuietInv' /\ CollectInv' /\ SnapshotIsCut'
      BY <1>2, ReaderFrame DEF ReadShard
    <2>2. LockInv'
      BY <1>2 DEF ReadShard, IInv, LockInv, TypeOK, cvars
    <2>3. ReaderInv' /\ SampleSumComplete'
      BY <1>2 DEF ReadShard, IInv, ReaderInv, SampleSumComplete, TypeOK, Hot, wvars
    <2>4. QED
      BY <2>1, <2>2, <2>3 DEF IInv
  <1>3. CASE ReadSum(r)
    <2>1. CallInv' /\ WriterInv' /\ QuietInv' /\ CollectInv' /\ SnapshotIsCut'
      BY <1>3, ReaderFrame DEF ReadSum
    <2>2. /\ lock = r
          /\ \A c \in Collectors : cpc[c] = "idle"
          /\ \A q \in Readers : q # r => rpc[q] = "idle"
      BY <1>3, OwnersDiffer DEF ReadSum, IInv, LockInv
    <2>3. LockInv'
      BY <1>3, <2>2, OwnersDiffer DEF ReadSum, LockInv, TypeOK, cvars
    <2>4. ReaderInv'
      BY <1>3, <2>2 DEF ReadSum, IInv, ReaderInv, TypeOK, wvars
    <2>5. \A o \in Obs : sample'[r][o] = IF o \in claimed /\ ~SumPending(o) THEN 1 ELSE 0
      BY <1>3, <2>2 DEF ReadSum, IInv, ReaderInv, QuietInv, QuietShards, SumHolds, Flipped, TypeOK
    <2>6. \A o \in before[r] : o \in claimed /\ ~SumPending(o)
      BY <1>3 DEF ReadSum, IInv, ReaderInv, SumPending
    <2>7. SampleSumComplete'
      BY <1>3, <2>5, <2>6 DEF ReadSum, IInv, SampleSumComplete, TypeOK
    <2>8. QED
      BY <2>1, <2>3, <2>4, <2>7 DEF IInv
  <1>4. QED
    BY <1>1, <1>2, <1>3 DEF ReaderStep

-----------------------------------------------------------------------------
LEMMA InitIInv == Init => IInv
  <1> SUFFICES ASSUME Init PROVE IInv
    OBVIOUS
  <1>1. LockInv /\ CallInv /\ CollectInv /\ ReaderInv /\ SnapshotIsCut /\ SampleSumComplete
    <2>1. LockInv
      BY OwnersDiffer DEF Init, LockInv
    <2>2. CallInv
      BY DataAssumption DEF Init, CallInv, Flipped
    <2>3. QED
      BY <2>1, <2>2 DEF Init, CollectInv, Flipped, ReaderInv, SnapshotIsCut, SampleSumComplete
  <1>2. WriterInv
    BY FS_EmptySet, CountRangeAssumption DEF Init, WriterInv, ObsCount
  <1>3. QuietInv
    <2>1. {o \in {} : ~Pending(o)} = {}
      OBVIOUS
    <2>2. Hot \in Shard /\ Other(Hot) \in Shard
      BY ShardFacts DEF Hot
    <2>3. \A s \in Shard : SumHolds(s, {}) /\ CountHolds(s, {})
      BY <2>1, FS_EmptySet DEF Init, SumHolds, CountHolds, Zero
    <2>4. \A s \in Shard : \A b \in Bounds : BucketHolds(s, b, {})
      BY DEF Init, BucketHolds, Zero
    <2>5. QED
      BY <2>2, <2>3, <2>4 DEF Init, QuietInv, QuietShards
  <1>4. QED
    BY <1>1, <1>2, <1>3 DEF IInv

\* The inductive invariant: what each shard, each local of a collect in
\* progress and the packed word hold at every step.
THEOREM Invariance == Spec => []IInv
  <1>1. TypeOK /\ IInv /\ [Next]_vars => IInv'
    <2> SUFFICES ASSUME TypeOK, IInv, [Next]_vars PROVE IInv'
      OBVIOUS
    <2>1. ASSUME NEW w \in Writers, NEW o \in Obs, Observe(w, o) PROVE IInv'
      BY <2>1, ClaimIInv DEF Observe
    <2>2. ASSUME NEW w \in Writers, NEW B \in SUBSET Obs, Flush(w, B) PROVE IInv'
      BY <2>2, ClaimIInv DEF Flush
    <2>3. ASSUME NEW w \in Writers, WriterStep(w) PROVE IInv'
      BY <2>3, AddToBucketIInv, AddToSumIInv, AddToCountIInv DEF WriterStep
    <2>4. ASSUME NEW c \in Collectors, CollectorStep(c) PROVE IInv'
      BY <2>4, FlipIInv, DrainIInv, SwapSumIInv, SwapBucketIInv, MergeBucketIInv,
         MergeCountIInv, MergeSumIInv, UnlockCollectIInv DEF CollectorStep
    <2>5. CASE UNCHANGED vars
      <3>1. /\ CallInv' /\ WriterInv' /\ QuietInv' /\ CollectInv' /\ SnapshotIsCut'
        BY <2>5, ReaderFrame DEF vars
      <3>2. LockInv' /\ ReaderInv' /\ SampleSumComplete'
        BY <2>5 DEF vars, IInv, LockInv, ReaderInv, SampleSumComplete, Hot, wvars, cvars, rvars
      <3>3. QED
        BY <3>1, <3>2 DEF IInv
    <2>6. QED
      BY <2>1, <2>2, <2>3, <2>4, <2>5, LockCollectIInv, ReaderIInv DEF Next
  <1>2. QED
    BY <1>1, InitIInv, TypeCorrect, PTL DEF Spec

\* proto returns the snapshot of exactly the observations counted when it
\* flipped the shards: none half recorded, none lost, none twice.
THEOREM SnapshotCorrect == Spec => []SnapshotIsCut
  <1>1. IInv => SnapshotIsCut
    BY DEF IInv
  <1>2. QED
    BY <1>1, Invariance, PTL

\* What sample_sum returns is complete and counts nothing twice.
THEOREM SampleSumCorrect == Spec => []SampleSumComplete
  <1>1. IInv => SampleSumComplete
    BY DEF IInv
  <1>2. QED
    BY <1>1, Invariance, PTL

-----------------------------------------------------------------------------
(***************************************************************************)
(* HistogramCore implements HistogramSpec: every step of a writer, of a     *)
(* collector or of a reader is a step of the abstract histogram or none.    *)
(***************************************************************************)

\* The abstract histogram counts with the same operator.
LEMMA SameSnapshot == \A S : Abstract!Snapshot(S) = Snapshot(S)
  <1>1. \A S : Abstract!Cardinality(S) = Cardinality(S)
    BY Zenon DEF Cardinality, Abstract!Cardinality, IsFiniteSet, Abstract!IsFiniteSet
  <1>2. QED
    BY <1>1, Zenon DEF Snapshot, Abstract!Snapshot, TallyOf, Abstract!TallyOf, Bounds, Abstract!Bounds

\* The initial histogram is the abstract one with nothing observed.
LEMMA InitRefines == Init => Abstract!SpecInit
  BY DEF Init, Abstract!SpecInit, Taken

LEMMA ClaimRefines ==
    ASSUME TypeOK, IInv, NEW w \in Writers, NEW B \in SUBSET Obs, Claim(w, B)
    PROVE  Abstract!Record(B)
  <1>1. Taken' = Taken
    BY DEF Claim, Taken, cvars
  <1>2. QED
    BY <1>1 DEF Claim, cvars, Abstract!Record

LEMMA LockCollectRefines ==
    ASSUME TypeOK, IInv, NEW c \in Collectors, LockCollect(c)
    PROVE  Abstract!Begin(c)
  <1>1. Taken' = [Taken EXCEPT ![c] = NoResult]
    BY DEF LockCollect, Taken, TypeOK
  <1>2. QED
    BY <1>1 DEF LockCollect, Abstract!Begin

LEMMA FlipRefines ==
    ASSUME TypeOK, IInv, NEW c \in Collectors, Flip(c)
    PROVE  Abstract!Take(c)
  <1>1. Taken[c] = NoResult
    BY DEF Flip, Taken
  <1>2. Taken' = [Taken EXCEPT ![c] = claimed]
    BY DEF Flip, Taken, TypeOK
  <1>3. QED
    BY <1>1, <1>2 DEF Flip, Abstract!Take

LEMMA UnlockCollectRefines ==
    ASSUME TypeOK, IInv, IInv', NEW c \in Collectors, UnlockCollect(c)
    PROVE  Abstract!Return(c)
  <1>1. /\ cpc[c] = "unlock" /\ cpc' = [cpc EXCEPT ![c] = "idle"]
        /\ cut' = cut /\ claimed' = claimed
        /\ \A d \in Collectors : d # c => result'[d] = result[d]
    BY DEF UnlockCollect, TypeOK
  <1>2. result[c] = NoResult /\ Taken[c] = cut[c] /\ Taken[c] # NoResult
    BY <1>1, HistogramAssumption DEF IInv, CallInv, Taken, TypeOK
  <1>3. result'[c] = Abstract!Snapshot(cut[c])
    BY UnlockReturnsSnapshot, SameSnapshot
  <1>4. result'[c] # NoResult
    BY UnlockReturnsSnapshot, HistogramAssumption DEF TypeOK
  <1>5. Taken' = Taken
    BY <1>1, <1>2, <1>4 DEF Taken, TypeOK
  <1>6. result' = [result EXCEPT ![c] = Abstract!Snapshot(Taken[c])]
    <2>1. result' = [result EXCEPT ![c] = result'[c]]
      BY DEF UnlockCollect, TypeOK
    <2>2. QED
      BY <2>1, <1>2, <1>3
  <1>7. QED
    BY <1>1, <1>2, <1>5, <1>6 DEF Abstract!Return

LEMMA StutterRefines ==
    ASSUME TypeOK, UNCHANGED <<claimed, cut, result>>,
           \A c \in Collectors : /\ cpc'[c] = "flip" <=> cpc[c] = "flip"
                                 /\ cpc'[c] = "idle" <=> cpc[c] = "idle"
    PROVE  UNCHANGED <<claimed, Taken, result>>
  BY DEF Taken

\* proto, observe, flush and sample_sum together implement the abstract
\* histogram, in which an observation is recorded and a snapshot is taken at
\* one instant.
THEOREM Refinement == Spec => ImplementsAbstract
  <1>1. TypeOK /\ IInv /\ IInv' /\ [Next]_vars => [Abstract!SpecNext]_(Abstract!specVars)
    <2> SUFFICES ASSUME TypeOK, IInv, IInv', [Next]_vars
                 PROVE  Abstract!SpecNext \/ UNCHANGED <<claimed, Taken, result>>
      BY DEF Abstract!specVars
    <2>1. ASSUME NEW w \in Writers, NEW B \in SUBSET Obs, Claim(w, B)
          PROVE  Abstract!SpecNext
      BY <2>1, ClaimRefines DEF Abstract!SpecNext
    <2>2. ASSUME NEW w \in Writers, WriterStep(w)
          PROVE  UNCHANGED <<claimed, Taken, result>>
      BY <2>2, StutterRefines DEF WriterStep, AddToBucket, AddToSum, AddToCount, cvars
    <2>3. ASSUME NEW c \in Collectors, LockCollect(c) PROVE Abstract!SpecNext
      BY <2>3, LockCollectRefines DEF Abstract!SpecNext
    <2>4. ASSUME NEW c \in Collectors, CollectorStep(c)
          PROVE  Abstract!SpecNext \/ UNCHANGED <<claimed, Taken, result>>
      <3>1. CASE Flip(c)
        BY <3>1, FlipRefines DEF Abstract!SpecNext
      <3>2. CASE UnlockCollect(c)
        BY <3>2, UnlockCollectRefines DEF Abstract!SpecNext
      <3>3. CASE Drain(c)
        BY <3>3, StutterRefines DEF Drain, TypeOK
      <3>4. CASE SwapSum(c)
        BY <3>4, StutterRefines DEF SwapSum, TypeOK
      <3>5. CASE SwapBucket(c)
        BY <3>5, StutterRefines DEF SwapBucket, TypeOK
      <3>6. CASE MergeBucket(c)
        BY <3>6, StutterRefines DEF MergeBucket, TypeOK
      <3>7. CASE MergeCount(c)
        BY <3>7, StutterRefines DEF MergeCount, TypeOK
      <3>8. CASE MergeSum(c)
        BY <3>8, StutterRefines DEF MergeSum, TypeOK
      <3>9. QED
        BY <2>4, <3>1, <3>2, <3>3, <3>4, <3>5, <3>6, <3>7, <3>8 DEF CollectorStep
    <2>5. ASSUME NEW r \in Readers, LockRead(r) \/ ReaderStep(r)
          PROVE  UNCHANGED <<claimed, Taken, result>>
      BY <2>5, StutterRefines DEF LockRead, ReaderStep, ReadShard, ReadSum, cvars
    <2>6. CASE UNCHANGED vars
      BY <2>6, StutterRefines DEF vars, cvars
    <2>7. QED
      BY <2>1, <2>2, <2>3, <2>4, <2>5, <2>6 DEF Next, Observe, Flush
  <1>2. QED
    BY <1>1, InitRefines, TypeCorrect, Invariance, PTL DEF Spec, ImplementsAbstract, Abstract!AbstractSpec

\* A waiting collector only ever waits for the writers that were in flight
\* when it flipped: no later call joins them.
THEOREM DrainIsBounded == Spec => ColdShardDrains
  <1>1. TypeOK /\ IInv /\ [Next]_vars =>
          [\A c \in Collectors : (cpc[c] = "drain" /\ cpc'[c] = "drain")
              => InFlight(cold[c])' \subseteq InFlight(cold[c])]_vars
    <2> SUFFICES ASSUME TypeOK, IInv, Next, NEW c \in Collectors,
                        cpc[c] = "drain", cpc'[c] = "drain"
                 PROVE  InFlight(cold[c])' \subseteq InFlight(cold[c])
      OBVIOUS
    <2>1. cold[c] # Hot
      BY ShardFacts DEF IInv, CollectInv, CollectLocals, Flipped, Hot
    <2>2. ASSUME NEW w \in Writers, NEW B \in SUBSET Obs, Claim(w, B)
          PROVE  InFlight(cold[c])' \subseteq InFlight(cold[c])
      BY <2>1, <2>2 DEF Claim, InFlight, TypeOK, cvars
    <2>3. ASSUME NEW w \in Writers, WriterStep(w)
          PROVE  InFlight(cold[c])' \subseteq InFlight(cold[c])
      BY <2>3 DEF WriterStep, AddToBucket, AddToSum, AddToCount, InFlight, TypeOK, cvars
    <2>4. ASSUME NEW d \in Collectors, LockCollect(d) \/ CollectorStep(d)
          PROVE  InFlight(cold[c])' \subseteq InFlight(cold[c])
      <3>1. UNCHANGED <<wpc, wshard>>
        BY <2>4 DEF LockCollect, CollectorStep, Flip, Drain, SwapSum, SwapBucket,
           MergeBucket, MergeCount, MergeSum, UnlockCollect, wvars
      <3>2. d = c \/ cpc[d] = "idle"
        BY OnlyHolder DEF IInv
      <3>3. cold'[c] = cold[c]
        BY <2>4, <3>2 DEF LockCollect, CollectorStep, Flip, Drain, SwapSum, SwapBucket,
           MergeBucket, MergeCount, MergeSum, UnlockCollect, TypeOK
      <3>4. QED
        BY <3>1, <3>3 DEF InFlight
    <2>5. ASSUME NEW r \in Readers, LockRead(r) \/ ReaderStep(r)
          PROVE  InFlight(cold[c])' \subseteq InFlight(cold[c])
      BY <2>5 DEF LockRead, ReaderStep, ReadShard, ReadSum, InFlight, wvars, cvars
    <2>6. QED
      BY <2>2, <2>3, <2>4, <2>5 DEF Next, Observe, Flush
  <1>2. QED
    BY <1>1, TypeCorrect, Invariance, PTL DEF Spec, ColdShardDrains

=============================================================================
