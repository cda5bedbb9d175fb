---------------------------- MODULE HistogramData ----------------------------
(***************************************************************************)
(* The data of a histogram (histogram.rs), abstracted to what a collect can *)
(* get wrong.  A member of Obs is one observation: it is observed once and  *)
(* falls in bucket BucketOf[o], the first upper bound it is not above, or   *)
(* NB + 1 when it is above them all.  An f64 sum or a u64 bucket counter is *)
(* a tally: how often each observation has been added to it.                *)
(***************************************************************************)
EXTENDS Naturals, FiniteSets

CONSTANTS Obs, NB, BucketOf

ASSUME DataAssumption ==
    /\ IsFiniteSet(Obs)
    /\ NB \in Nat
    /\ BucketOf \in [Obs -> 1 .. NB + 1]

Bounds == 1 .. NB

Tally == [Obs -> Nat]
Zero == [o \in Obs |-> 0]
TallyOf(S) == [o \in Obs |-> IF o \in S THEN 1 ELSE 0]

\* Mutant: a store in place of the addition.
PlusStores(f, g) == g

\* inc_by on a sum or a bucket counter.
Plus(f, g) == [o \in Obs |-> f[o] + g[o]]

\* What a proto::Histogram of the observations of S holds: sample_count,
\* sample_sum and the cumulative_count of every bucket.
Snapshot(S) == [count |-> Cardinality(S),
                sum |-> TallyOf(S),
                cumulative |-> [b \in Bounds |-> TallyOf({o \in S : BucketOf[o] <= b})]]

=============================================================================
