------------------------------ MODULE AutoFlush ------------------------------
(***************************************************************************)
(* The auto-flushed metrics: each thread has a root of local metrics        *)
(* (static-metric's generated ...Inner struct, in a LocalKey), AFLocal-     *)
(* Counter and AFLocalHistogram of auto_flush.rs add to them, and try_flush *)
(* of metrics.rs flushes the whole root when its interval has passed on the *)
(* lagging clock of timer.rs.                                               *)
(***************************************************************************)
EXTENDS Naturals, FiniteSets, Functions

CONSTANTS
    Threads,
    Counters,   \* the local counters of a root
    Histograms, \* the local histograms of a root
    Interval,   \* flush_millis
    Lag,        \* how far the updater lets RECENT lag behind the clock
    MaxClock,   \* bound: how far the clock runs
    MaxIncs     \* bound: how many increments are made

Metrics == Counters \cup Histograms

ASSUME AutoFlushAssumption ==
    /\ IsFiniteSet(Threads)
    /\ Metrics \subseteq Nat
    /\ Counters \cap Histograms = {}
    /\ Interval \in Nat /\ Lag \in Nat \ {0} /\ MaxClock \in Nat /\ MaxIncs \in Nat

VARIABLES
    clock,      \* the real clock of TimerSpec
    recent,     \* what recent_millis returns
    shared,     \* the metrics that the locals flush to
    local,      \* local[t][m]: what is in the thread's local metrics
    lastFlush,  \* last_flush of the thread's root
    pc,         \* where the thread is in inc, observe, flush or its exit
    tick,       \* now of try_flush
    left,       \* the metrics that a flush or an exit has still to visit
    made,       \* history: made[m]: the increments of all threads
    discarded,  \* history: what a reset or the exit of a thread threw away
    oldest,     \* history: when the oldest increment not yet flushed was made
    flushedAt   \* history: when the thread's last automatic flush was decided

Clock == INSTANCE TimerSpec

timer == <<clock, recent>>
thread == <<lastFlush, pc, tick, left, flushedAt>>
vars == <<timer, shared, local, thread, made, discarded, oldest>>

Init ==
    /\ Clock!TimerInit
    /\ shared = [m \in Metrics |-> 0]
    /\ local = [t \in Threads |-> [m \in Metrics |-> 0]]
    /\ lastFlush = [t \in Threads |-> 0]
    /\ pc = [t \in Threads |-> "new"]
    /\ tick = [t \in Threads |-> 0]
    /\ left = [t \in Threads |-> {}]
    /\ made = [m \in Metrics |-> 0]
    /\ discarded = [m \in Metrics |-> 0]
    /\ oldest = [t \in Threads |-> 0]
    /\ flushedAt = [t \in Threads |-> 0]

Empty(t) == \A m \in Metrics : local[t][m] = 0

\* Time passes; the updater wakes up in time to keep the lag.
Pass ==
    /\ clock < MaxClock
    /\ clock < recent + Lag
    /\ Clock!Pass
    /\ UNCHANGED <<shared, local, thread, made, discarded, oldest>>

\* The updater, or a thread that calls now_millis, advances RECENT.
CatchUp ==
    /\ Clock!CatchUp
    /\ UNCHANGED <<shared, local, thread, made, discarded, oldest>>

\* The thread's first use of its LocalKey builds the root: last_flush is what
\* now_millis returns.
BuildRoot(t) ==
    /\ pc[t] = "new"
    /\ Clock!CatchUp
    /\ lastFlush' = [lastFlush EXCEPT ![t] = recent']
    /\ pc' = [pc EXCEPT ![t] = "idle"]
    /\ UNCHANGED <<shared, local, tick, left, flushedAt, made, discarded, oldest>>

\* inc of AFLocalCounter or observe of AFLocalHistogram: add to the local
\* metric, and go on to may_flush.
Inc(t, m) ==
    /\ pc[t] = "idle"
    /\ SumFunction(made) < MaxIncs
    /\ local' = [local EXCEPT ![t][m] = @ + 1]
    /\ made' = [made EXCEPT ![m] = @ + 1]
    /\ oldest' = [oldest EXCEPT ![t] = IF Empty(t) THEN clock ELSE @]
    /\ pc' = [pc EXCEPT ![t] = "check"]
    /\ UNCHANGED <<timer, shared, lastFlush, tick, left, flushedAt, discarded>>

TooEarly(t) == recent < lastFlush[t] + Interval

\* Mutant: last_flush is set whether or not the root is flushed.
SkipFlushAndSet(t) ==
    /\ pc[t] = "check"
    /\ TooEarly(t)
    /\ lastFlush' = [lastFlush EXCEPT ![t] = recent]
    /\ pc' = [pc EXCEPT ![t] = "idle"]
    /\ UNCHANGED <<timer, shared, local, tick, left, flushedAt, made, discarded, oldest>>

\* try_flush returns early.
SkipFlush(t) ==
    /\ pc[t] = "check"
    /\ TooEarly(t)
    /\ pc' = [pc EXCEPT ![t] = "idle"]
    /\ UNCHANGED <<timer, shared, local, lastFlush, tick, left, flushedAt, made, discarded, oldest>>

\* try_flush flushes the root.
BeginFlush(t) ==
    /\ pc[t] = "check"
    /\ ~TooEarly(t)
    /\ tick' = [tick EXCEPT ![t] = recent]
    /\ flushedAt' = [flushedAt EXCEPT ![t] = clock]
    /\ left' = [left EXCEPT ![t] = Metrics]
    /\ pc' = [pc EXCEPT ![t] = "auto"]
    /\ UNCHANGED <<timer, shared, local, lastFlush, made, discarded, oldest>>

\* AFLocalCounter::flush, and flush of the outer struct: flush the root, and
\* leave last_flush alone.
BeginManualFlush(t) ==
    /\ pc[t] = "idle"
    /\ left' = [left EXCEPT ![t] = Metrics]
    /\ pc' = [pc EXCEPT ![t] = "manual"]
    /\ UNCHANGED <<timer, shared, local, lastFlush, tick, flushedAt, made, discarded, oldest>>

\* Mutant: what is flushed stays in the local metric.
MoveCopies(t, m) ==
    /\ shared' = [shared EXCEPT ![m] = @ + local[t][m]]
    /\ UNCHANGED local

\* flush of one local metric: add to the shared one, and set to zero.
Move(t, m) ==
    /\ shared' = [shared EXCEPT ![m] = @ + local[t][m]]
    /\ local' = [local EXCEPT ![t][m] = 0]

\* The generated flush visits the fields of the root in their order.
FlushNext(t) ==
    /\ pc[t] \in {"auto", "manual"}
    /\ \E m \in left[t] :
        /\ \A n \in left[t] : m <= n
        /\ Move(t, m)
        /\ left' = [left EXCEPT ![t] = @ \ {m}]
    /\ UNCHANGED <<timer, lastFlush, pc, tick, flushedAt, made, discarded, oldest>>

\* Mutant: try_flush forgets last_flush.set.
EndFlushForgets(t) ==
    /\ pc[t] \in {"auto", "manual"}
    /\ left[t] = {}
    /\ tick' = [tick EXCEPT ![t] = 0]
    /\ pc' = [pc EXCEPT ![t] = "idle"]
    /\ UNCHANGED <<timer, shared, local, lastFlush, left, flushedAt, made, discarded, oldest>>

EndFlush(t) ==
    /\ pc[t] \in {"auto", "manual"}
    /\ left[t] = {}
    /\ lastFlush' = IF pc[t] = "auto" THEN [lastFlush EXCEPT ![t] = tick[t]] ELSE lastFlush
    /\ tick' = [tick EXCEPT ![t] = 0]
    /\ pc' = [pc EXCEPT ![t] = "idle"]
    /\ UNCHANGED <<timer, shared, local, left, flushedAt, made, discarded, oldest>>

\* AFLocalHistogram::flush: only the histogram it was called on.
FlushHistogram(t, m) ==
    /\ pc[t] = "idle"
    /\ Move(t, m)
    /\ UNCHANGED <<timer, thread, made, discarded, oldest>>

Discard(t, m) ==
    /\ local' = [local EXCEPT ![t][m] = 0]
    /\ discarded' = [discarded EXCEPT ![m] = @ + local[t][m]]

\* reset of AFLocalCounter, clear of AFLocalHistogram.
Reset(t, m) ==
    /\ pc[t] = "idle"
    /\ Discard(t, m)
    /\ UNCHANGED <<timer, shared, thread, made, oldest>>

\* The thread ends and drops its root.
BeginExit(t) ==
    /\ pc[t] = "idle"
    /\ left' = [left EXCEPT ![t] = Metrics]
    /\ pc' = [pc EXCEPT ![t] = "exit"]
    /\ UNCHANGED <<timer, shared, local, lastFlush, tick, flushedAt, made, discarded, oldest>>

\* A local histogram flushes when it is dropped; a local counter does not.
DropNext(t) ==
    /\ pc[t] = "exit"
    /\ \E m \in left[t] :
        /\ \A n \in left[t] : m <= n
        /\ \/ m \in Histograms /\ Move(t, m) /\ UNCHANGED discarded
           \/ m \in Counters /\ Discard(t, m) /\ UNCHANGED shared
        /\ left' = [left EXCEPT ![t] = @ \ {m}]
    /\ UNCHANGED <<timer, lastFlush, pc, tick, flushedAt, made, oldest>>

Next ==
    \/ Pass
    \/ CatchUp
    \/ \E t \in Threads :
        \/ BuildRoot(t)
        \/ \E m \in Metrics : Inc(t, m) \/ Reset(t, m)
        \/ SkipFlush(t) \/ BeginFlush(t) \/ BeginManualFlush(t)
        \/ FlushNext(t) \/ EndFlush(t)
        \/ \E m \in Histograms : FlushHistogram(t, m)
        \/ BeginExit(t) \/ DropNext(t)

Spec == Init /\ [][Next]_vars

-----------------------------------------------------------------------------
\* The shapes of the clock, of the metrics and of the threads' roots.
TypeOK ==
    /\ clock \in Nat /\ recent \in Nat
    /\ shared \in [Metrics -> Nat]
    /\ local \in [Threads -> [Metrics -> Nat]]
    /\ lastFlush \in [Threads -> Nat]
    /\ pc \in [Threads -> {"new", "idle", "check", "auto", "manual", "exit"}]
    /\ tick \in [Threads -> Nat]
    /\ left \in [Threads -> SUBSET Metrics]
    /\ made \in [Metrics -> Nat]
    /\ discarded \in [Metrics -> Nat]
    /\ oldest \in [Threads -> Nat]
    /\ flushedAt \in [Threads -> Nat]

\* What the threads hold of m in their local metrics.
HeldLocally(m) == SumFunction([t \in Threads |-> local[t][m]])

\* Every increment is, at every moment, in exactly one place: in the local
\* metric of its thread, in the shared metric, or among those that a reset or
\* the exit of a thread has thrown away.
Conserved ==
    \A m \in Metrics :
        made[m] = shared[m] + discarded[m] + HeldLocally(m)

\* When inc returns without flushing, nothing in the root is older than the
\* interval and the lag of the clock: a thread that keeps incrementing keeps
\* its data no longer than that, whatever was flushed by hand in between.
StalenessBounded ==
    [][\A t \in Threads :
        (pc[t] = "check" /\ pc'[t] = "idle") => clock < oldest[t] + Interval + Lag]_vars

\* Two automatic flushes of a root are an interval apart, less the lag of the
\* clock at the first one.
FlushesApart ==
    [][\A t \in Threads :
        (pc[t] = "check" /\ pc'[t] = "auto" /\ flushedAt[t] > 0)
            => flushedAt[t] + Interval <= clock + Lag]_vars

-----------------------------------------------------------------------------
(***************************************************************************)
(* The inductive invariant behind the two.                                  *)
(***************************************************************************)

\* The clock lags by no more than Lag, and no root is ahead of it.
ClockInv ==
    /\ recent <= clock /\ clock <= recent + Lag
    /\ \A t \in Threads : lastFlush[t] <= recent /\ tick[t] <= recent

\* What a root holds was added since its last automatic flush; one that is under
\* way leaves nothing behind.
OldestInv ==
    \A t \in Threads :
        /\ pc[t] = "new" => Empty(t)
        /\ pc[t] = "check" => ~Empty(t)
        /\ pc[t] = "auto" => \A m \in Metrics \ left[t] : local[t][m] = 0
        /\ (pc[t] # "auto" /\ ~Empty(t)) => lastFlush[t] <= oldest[t]

\* What last_flush is, or is about to be set to, is not far behind the clock at
\* which the flush was decided.
DecidedInv ==
    \A t \in Threads :
        flushedAt[t] <= (IF pc[t] = "auto" THEN tick[t] ELSE lastFlush[t]) + Lag

FlushInv == ClockInv /\ OldestInv /\ DecidedInv

=============================================================================
