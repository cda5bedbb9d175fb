--------------------------- MODULE AutoFlushProofs ---------------------------
(***************************************************************************)
(* The auto-flushed metrics for any number of threads and metrics, and any   *)
(* interval and lag: no increment is lost or counted twice, and what a       *)
(* thread holds is never older than the interval and the lag.                *)
(***************************************************************************)
EXTENDS AutoFlush, SumLemmas

LEMMA KindsOfMetrics == Counters \subseteq Metrics /\ Histograms \subseteq Metrics
BY DEF Metrics

LEMMA InitTypeOK == Init => TypeOK
BY DEF Init, TypeOK, Clock!TimerInit

\* The steps of the clock.
LEMMA ClockTypeOK ==
    ASSUME TypeOK, Clock!Pass \/ Clock!CatchUp
    PROVE  clock' \in Nat /\ recent' \in Nat
BY DEF TypeOK, Clock!Pass, Clock!CatchUp

LEMMA MoveTypeOK ==
    ASSUME TypeOK, NEW t \in Threads, NEW m \in Metrics, Move(t, m)
    PROVE  shared' \in [Metrics -> Nat] /\ local' \in [Threads -> [Metrics -> Nat]]
BY DEF TypeOK, Move

LEMMA DiscardTypeOK ==
    ASSUME TypeOK, NEW t \in Threads, NEW m \in Metrics, Discard(t, m)
    PROVE  discarded' \in [Metrics -> Nat] /\ local' \in [Threads -> [Metrics -> Nat]]
BY DEF TypeOK, Discard

\* The clock, the metrics and the roots keep their shapes.
THEOREM TypeCorrect == Spec => []TypeOK
<1>1. TypeOK /\ [Next]_vars => TypeOK'
  <2> SUFFICES ASSUME TypeOK, [Next]_vars PROVE TypeOK'
    OBVIOUS
  <2>1. CASE Pass \/ CatchUp
    BY <2>1, ClockTypeOK DEF Pass, CatchUp, TypeOK, thread
  <2>2. ASSUME NEW t \in Threads, BuildRoot(t) PROVE TypeOK'
    BY <2>2, ClockTypeOK DEF BuildRoot, TypeOK
  <2>3. ASSUME NEW t \in Threads, NEW m \in Metrics, Inc(t, m) PROVE TypeOK'
    BY <2>3 DEF Inc, TypeOK, timer
  <2>4. ASSUME NEW t \in Threads, NEW m \in Metrics, Reset(t, m) PROVE TypeOK'
    BY <2>4, DiscardTypeOK DEF Reset, TypeOK, timer, thread
  <2>5. ASSUME NEW t \in Threads, SkipFlush(t) \/ BeginFlush(t) PROVE TypeOK'
    <3>1. CASE SkipFlush(t)
      BY <3>1 DEF SkipFlush, TypeOK, timer
    <3>2. CASE BeginFlush(t)
      BY <3>2 DEF BeginFlush, TypeOK, timer
    <3>3. QED
      BY <2>5, <3>1, <3>2
  <2>6. ASSUME NEW t \in Threads, BeginManualFlush(t) \/ BeginExit(t) PROVE TypeOK'
    BY <2>6 DEF BeginManualFlush, BeginExit, TypeOK, timer
  <2>7. ASSUME NEW t \in Threads, FlushNext(t) PROVE TypeOK'
    BY <2>7, MoveTypeOK DEF FlushNext, TypeOK, timer
  <2>8. ASSUME NEW t \in Threads, EndFlush(t) PROVE TypeOK'
    BY <2>8 DEF EndFlush, TypeOK, timer
  <2>9. ASSUME NEW t \in Threads, NEW m \in Histograms, FlushHistogram(t, m) PROVE TypeOK'
    BY <2>9, MoveTypeOK, KindsOfMetrics DEF FlushHistogram, TypeOK, timer, thread
  <2>10. ASSUME NEW t \in Threads, DropNext(t) PROVE TypeOK'
    BY <2>10, MoveTypeOK, DiscardTypeOK DEF DropNext, TypeOK, timer
  <2>11. CASE UNCHANGED vars
    BY <2>11 DEF vars, timer, thread, TypeOK
  <2>12. QED
    BY <2>1, <2>2, <2>3, <2>4, <2>5, <2>6, <2>7, <2>8, <2>9, <2>10, <2>11 DEF Next
<1>2. QED
  BY <1>1, InitTypeOK, PTL DEF Spec

-----------------------------------------------------------------------------
(***************************************************************************)
(* Conservation.                                                            *)
(***************************************************************************)

\* The step leaves every local metric alone but the one of t for m.
OnlyAt(t, m) ==
    /\ local' \in [Threads -> [Metrics -> Nat]]
    /\ \A u \in Threads, n \in Metrics : (u # t \/ n # m) => local'[u][n] = local[u][n]

\* It changes the sum of that metric over the threads, and no other sum.
LEMMA HeldChanges ==
    ASSUME TypeOK, NEW t \in Threads, NEW m \in Metrics, OnlyAt(t, m), NEW n \in Metrics
    PROVE  HeldLocally(n)' = IF n = m THEN HeldLocally(n) - local[t][m] + local'[t][m]
                             ELSE HeldLocally(n)
<1> DEFINE f == [u \in Threads |-> local[u][n]]
           g == [u \in Threads |-> local'[u][n]]
<1>1. f \in [Threads -> Int] /\ g \in [Threads -> Int]
  BY DEF TypeOK, OnlyAt
<1>2. \A u \in Threads \ {t} : f[u] = g[u]
  BY DEF TypeOK, OnlyAt
<1>3. f[t] = local[t][n] /\ g[t] = (IF n = m THEN local'[t][m] ELSE local[t][n])
  BY DEF TypeOK, OnlyAt
<1>4. HeldLocally(n) = SumFunction(f) /\ HeldLocally(n)' = SumFunction(g)
  BY DEF HeldLocally
<1> HIDE DEF f, g
<1>5. IsFiniteSet(Threads)
  BY AutoFlushAssumption
<1>6. SumFunction(g) = SumFunction(f) - f[t] + g[t]
  BY <1>1, <1>2, <1>5, SumUpdate
<1>7. SumFunction(f) \in Int /\ f[t] \in Int
  BY <1>1, <1>5, SumIsInt
<1>8. QED
  BY <1>3, <1>4, <1>6, <1>7

LEMMA HeldIsInt == ASSUME TypeOK, NEW m \in Metrics PROVE HeldLocally(m) \in Int
<1>1. [t \in Threads |-> local[t][m]] \in [Threads -> Int]
  BY DEF TypeOK
<1>2. QED
  BY <1>1, AutoFlushAssumption, SumIsInt DEF HeldLocally

\* A flush of a local metric moves what it held to the shared one, ...
LEMMA MoveConserves ==
    ASSUME TypeOK, Conserved, NEW t \in Threads, NEW m \in Metrics, Move(t, m),
           UNCHANGED <<made, discarded>>
    PROVE  Conserved'
<1> SUFFICES ASSUME NEW n \in Metrics
             PROVE  made'[n] = shared'[n] + discarded'[n] + HeldLocally(n)'
  BY DEF Conserved
<1>0. OnlyAt(t, m) /\ local'[t][m] = 0
  BY DEF Move, OnlyAt, TypeOK
<1>1. HeldLocally(n)' = IF n = m THEN HeldLocally(n) - local[t][m] + 0 ELSE HeldLocally(n)
  BY <1>0, HeldChanges
<1>2. shared'[n] = IF n = m THEN shared[n] + local[t][m] ELSE shared[n]
  BY DEF Move, TypeOK
<1>3. made[n] = shared[n] + discarded[n] + HeldLocally(n)
  BY DEF Conserved
<1>4. HeldLocally(n) \in Int /\ shared[n] \in Nat /\ discarded[n] \in Nat /\ local[t][m] \in Nat
  BY HeldIsInt DEF TypeOK
<1>5. QED
  BY <1>1, <1>2, <1>3, <1>4

\* ... and a reset to what was thrown away.
LEMMA DiscardConserves ==
    ASSUME TypeOK, Conserved, NEW t \in Threads, NEW m \in Metrics, Discard(t, m),
           UNCHANGED <<made, shared>>
    PROVE  Conserved'
<1> SUFFICES ASSUME NEW n \in Metrics
             PROVE  made'[n] = shared'[n] + discarded'[n] + HeldLocally(n)'
  BY DEF Conserved
<1>0. OnlyAt(t, m) /\ local'[t][m] = 0
  BY DEF Discard, OnlyAt, TypeOK
<1>1. HeldLocally(n)' = IF n = m THEN HeldLocally(n) - local[t][m] + 0 ELSE HeldLocally(n)
  BY <1>0, HeldChanges
<1>2. discarded'[n] = IF n = m THEN discarded[n] + local[t][m] ELSE discarded[n]
  BY DEF Discard, TypeOK
<1>3. made[n] = shared[n] + discarded[n] + HeldLocally(n)
  BY DEF Conserved
<1>4. HeldLocally(n) \in Int /\ shared[n] \in Nat /\ discarded[n] \in Nat /\ local[t][m] \in Nat
  BY HeldIsInt DEF TypeOK
<1>5. QED
  BY <1>1, <1>2, <1>3, <1>4

LEMMA IncConserves ==
    ASSUME TypeOK, Conserved, NEW t \in Threads, NEW m \in Metrics, Inc(t, m)
    PROVE  Conserved'
<1> SUFFICES ASSUME NEW n \in Metrics
             PROVE  made'[n] = shared'[n] + discarded'[n] + HeldLocally(n)'
  BY DEF Conserved
<1>1. OnlyAt(t, m) /\ local[t][m] \in Nat /\ local'[t][m] = local[t][m] + 1
  BY DEF Inc, OnlyAt, TypeOK
<1>2. HeldLocally(n)' = IF n = m THEN HeldLocally(n) - local[t][m] + (local[t][m] + 1)
                        ELSE HeldLocally(n)
  BY <1>1, HeldChanges
<1>3. made'[n] = IF n = m THEN made[n] + 1 ELSE made[n]
  BY DEF Inc, TypeOK
<1>4. made[n] = shared[n] + discarded[n] + HeldLocally(n)
  BY DEF Conserved
<1>5. HeldLocally(n) \in Int /\ shared[n] \in Nat /\ discarded[n] \in Nat
  BY HeldIsInt DEF TypeOK
<1>6. UNCHANGED <<shared, discarded>>
  BY DEF Inc
<1>7. QED
  BY <1>1, <1>2, <1>3, <1>4, <1>5, <1>6

LEMMA OthersConserve ==
    ASSUME Conserved, UNCHANGED <<shared, local, made, discarded>>
    PROVE  Conserved'
BY DEF Conserved, HeldLocally

\* Before anything was added, every sum is zero.
LEMMA InitConserves == Init => Conserved
<1> SUFFICES ASSUME Init, NEW m \in Metrics
             PROVE  made[m] = shared[m] + discarded[m] + HeldLocally(m)
  BY DEF Conserved
<1> DEFINE f == [t \in Threads |-> local[t][m]]
<1>1. f \in [Threads -> Int] /\ \A t \in Threads : f[t] = 0
  BY DEF Init
<1>2. HeldLocally(m) = SumFunction(f)
  BY DEF HeldLocally
<1> HIDE DEF f
<1>3. SumFunction(f) = 0
  BY <1>1, AutoFlushAssumption, SumZero
<1>4. QED
  BY <1>2, <1>3 DEF Init

\* No increment is lost and none is counted twice: flushes by hand and
\* automatic ones, resets and the exits of threads may interleave in any way.
THEOREM CountsConserved == Spec => []Conserved
<1>1. TypeOK /\ Conserved /\ [Next]_vars => Conserved'
  <2> SUFFICES ASSUME TypeOK, Conserved, [Next]_vars PROVE Conserved'
    OBVIOUS
  <2>1. CASE Pass \/ CatchUp
    BY <2>1, OthersConserve DEF Pass, CatchUp
  <2>2. ASSUME NEW t \in Threads,
               \/ BuildRoot(t) \/ SkipFlush(t) \/ BeginFlush(t) \/ BeginManualFlush(t)
               \/ EndFlush(t) \/ BeginExit(t)
        PROVE  Conserved'
    BY <2>2, OthersConserve
    DEF BuildRoot, SkipFlush, BeginFlush, BeginManualFlush, EndFlush, BeginExit
  <2>3. ASSUME NEW t \in Threads, NEW m \in Metrics, Inc(t, m) PROVE Conserved'
    BY <2>3, IncConserves
  <2>4. ASSUME NEW t \in Threads, NEW m \in Metrics, Reset(t, m) PROVE Conserved'
    BY <2>4, DiscardConserves DEF Reset
  <2>5. ASSUME NEW t \in Threads, FlushNext(t) PROVE Conserved'
    <3>1. PICK m \in left[t] : Move(t, m)
      BY <2>5 DEF FlushNext
    <3>2. m \in Metrics
      BY DEF TypeOK
    <3>3. UNCHANGED <<made, discarded>>
      BY <2>5 DEF FlushNext
    <3>4. QED
      BY <3>1, <3>2, <3>3, MoveConserves
  <2>6. ASSUME NEW t \in Threads, NEW m \in Histograms, FlushHistogram(t, m) PROVE Conserved'
    BY <2>6, MoveConserves, KindsOfMetrics DEF FlushHistogram
  <2>7. ASSUME NEW t \in Threads, DropNext(t) PROVE Conserved'
    <3>1. PICK m \in left[t] : \/ Move(t, m) /\ UNCHANGED discarded
                               \/ Discard(t, m) /\ UNCHANGED shared
      BY <2>7 DEF DropNext
    <3>2. m \in Metrics
      BY DEF TypeOK
    <3>3. UNCHANGED made
      BY <2>7 DEF DropNext
    <3>4. QED
      BY <3>1, <3>2, <3>3, MoveConserves, DiscardConserves
  <2>8. CASE UNCHANGED vars
    BY <2>8, OthersConserve DEF vars
  <2>9. QED
    BY <2>1, <2>2, <2>3, <2>4, <2>5, <2>6, <2>7, <2>8 DEF Next
<1>2. QED
  BY <1>1, InitConserves, TypeCorrect, PTL DEF Spec

-----------------------------------------------------------------------------
(***************************************************************************)
(* Staleness.                                                               *)
(***************************************************************************)
LEMMA InitFlushInv == Init => FlushInv
BY AutoFlushAssumption
DEF Init, FlushInv, ClockInv, OldestInv, DecidedInv, Empty, Clock!TimerInit

\* The clock goes on, and RECENT catches up with it: neither gets past the lag.
LEMMA ClockFlushInv ==
    ASSUME TypeOK, FlushInv, Pass \/ CatchUp
    PROVE  FlushInv'
<1> USE AutoFlushAssumption DEF TypeOK
<1>1. UNCHANGED <<local, thread, oldest>>
  BY DEF Pass, CatchUp
<1>2. /\ recent <= recent' /\ recent' <= clock' /\ clock' <= recent' + Lag
      /\ clock' \in Nat /\ recent' \in Nat
  <2>1. recent <= clock /\ clock <= recent + Lag
    BY DEF FlushInv, ClockInv
  <2>2. CASE Pass
    <3>1. clock' = clock + 1 /\ recent' = recent /\ clock < recent + Lag
      BY <2>2 DEF Pass, Clock!Pass
    <3>2. QED
      BY <2>1, <3>1
  <2>3. CASE CatchUp
    <3>1. recent' \in recent .. clock /\ clock' = clock
      BY <2>3 DEF CatchUp, Clock!CatchUp
    <3> DEFINE later == recent'
    <3>2. later \in Nat /\ recent <= later /\ later <= clock
      BY <3>1
    <3>3. clock <= later + Lag
      <4> HIDE DEF later
      <4>1. QED
        BY <2>1, <3>2
    <3>4. QED
      BY <3>1, <3>2, <3>3, Zenon
  <2>4. QED
    BY <2>2, <2>3
<1>3. ClockInv'
  <2>1. \A t \in Threads : lastFlush[t] <= recent /\ tick[t] <= recent
    BY DEF FlushInv, ClockInv
  <2>2. lastFlush' = lastFlush /\ tick' = tick
    BY <1>1 DEF thread
  <2>3. \A t \in Threads : lastFlush'[t] <= recent' /\ tick'[t] <= recent'
    BY <1>2, <2>1, <2>2
  <2>4. QED
    BY <1>2, <2>3 DEF ClockInv
<1>4. OldestInv' /\ DecidedInv'
  BY <1>1 DEF FlushInv, OldestInv, DecidedInv, Empty, thread
<1>5. QED
  BY <1>3, <1>4 DEF FlushInv

\* A step of t that leaves the clock alone keeps the invariant if it keeps it for t.
Elsewhere(t) ==
    /\ UNCHANGED timer
    /\ \A u \in Threads \ {t} :
        /\ lastFlush'[u] = lastFlush[u] /\ pc'[u] = pc[u] /\ tick'[u] = tick[u]
        /\ left'[u] = left[u] /\ flushedAt'[u] = flushedAt[u]
        /\ oldest'[u] = oldest[u]
        /\ \A m \in Metrics : local'[u][m] = local[u][m]

Own(t) ==
    /\ lastFlush[t] <= recent /\ tick[t] <= recent
    /\ pc[t] = "new" => Empty(t)
    /\ pc[t] = "check" => ~Empty(t)
    /\ pc[t] = "auto" => \A m \in Metrics \ left[t] : local[t][m] = 0
    /\ (pc[t] # "auto" /\ ~Empty(t)) => lastFlush[t] <= oldest[t]
    /\ flushedAt[t] <= (IF pc[t] = "auto" THEN tick[t] ELSE lastFlush[t]) + Lag

\* The step only takes something from the local metrics of t.
OnlyFrom(t) ==
    /\ \A u \in Threads \ {t} : left'[u] = left[u]
    /\ \A u \in Threads, m \in Metrics :
        local'[u][m] = local[u][m] \/ (u = t /\ local'[u][m] = 0)

LEMMA OwnStep ==
    ASSUME FlushInv, NEW t \in Threads, Elsewhere(t), Own(t)'
    PROVE  FlushInv'
<1>1. ASSUME NEW u \in Threads PROVE Own(u)'
  <2>1. CASE u = t
    BY <2>1
  <2>2. CASE u # t
    <3>1. Own(u)
      BY DEF FlushInv, ClockInv, OldestInv, DecidedInv, Own
    <3>2. Empty(u)' <=> Empty(u)
      BY <2>2 DEF Elsewhere, Empty
    <3>3. QED
      BY <2>2, <3>1, <3>2 DEF Elsewhere, Own, timer
  <2>3. QED
    BY <2>1, <2>2
<1>2. recent' <= clock' /\ clock' <= recent' + Lag
  BY DEF FlushInv, ClockInv, Elsewhere, timer
<1>3. QED
  BY <1>1, <1>2 DEF FlushInv, ClockInv, OldestInv, DecidedInv, Own

LEMMA OwnNow == ASSUME FlushInv, NEW t \in Threads PROVE Own(t)
BY DEF FlushInv, ClockInv, OldestInv, DecidedInv, Own

\* The root is built, and last_flush is the time that now_millis returns.
LEMMA BuildRootInv ==
    ASSUME TypeOK, FlushInv, NEW t \in Threads, BuildRoot(t)
    PROVE  FlushInv'
<1> USE AutoFlushAssumption DEF TypeOK
<1>1. Own(t) /\ Empty(t) /\ UNCHANGED <<local, tick, flushedAt, oldest>>
  BY OwnNow DEF BuildRoot, Own
<1>2. /\ lastFlush' = [lastFlush EXCEPT ![t] = recent'] /\ pc' = [pc EXCEPT ![t] = "idle"]
      /\ recent' \in recent .. clock /\ clock' = clock
  BY DEF BuildRoot, Clock!CatchUp
<1>3. recent <= recent'
  BY <1>2
<1>4. ClockInv'
  <2> DEFINE later == recent'
  <2>1. later \in Nat /\ recent <= later /\ later <= clock
    BY <1>2
  <2>2. clock <= later + Lag
    <3> HIDE DEF later
    <3>1. QED
      BY <2>1 DEF FlushInv, ClockInv
  <2>3. clock' <= recent' + Lag
    BY <1>2, <2>2, Zenon
  <2>4. \A u \in Threads : lastFlush'[u] <= recent' /\ tick'[u] <= recent'
    <3>1. \A u \in Threads : lastFlush[u] <= recent /\ tick[u] <= recent
      BY DEF FlushInv, ClockInv
    <3>2. QED
      BY <1>1, <1>2, <3>1
  <2>5. QED
    BY <1>2, <2>1, <2>3, <2>4 DEF ClockInv
<1>5. OldestInv'
  <2>1. ~(pc[t] = "auto") /\ Empty(t)'
    BY <1>1 DEF BuildRoot, Empty
  <2>2. \A u \in Threads \ {t} : Empty(u)' <=> Empty(u)
    BY <1>1 DEF Empty
  <2>3. UNCHANGED left
    BY DEF BuildRoot
  <2>4. QED
    BY <1>1, <1>2, <2>1, <2>2, <2>3 DEF FlushInv, OldestInv
<1>6. DecidedInv'
  <2> SUFFICES ASSUME NEW u \in Threads
               PROVE flushedAt'[u] <= (IF pc'[u] = "auto" THEN tick'[u] ELSE lastFlush'[u]) + Lag
    BY DEF DecidedInv
  <2>1. flushedAt[u] <= (IF pc[u] = "auto" THEN tick[u] ELSE lastFlush[u]) + Lag
    BY DEF FlushInv, DecidedInv
  <2>2. CASE u # t
    BY <1>1, <1>2, <2>1, <2>2
  <2>3. CASE u = t
    <3>1. pc[t] # "auto" /\ pc'[t] = "idle" /\ lastFlush'[t] = recent'
      BY <1>2 DEF BuildRoot
    <3> DEFINE later == recent'
    <3>2. later \in Nat /\ lastFlush[t] <= later
      BY <1>2, <1>1 DEF Own
    <3>3. flushedAt[t] <= later + Lag
      <4> HIDE DEF later
      <4>1. QED
        BY <2>1, <2>3, <3>1, <3>2
    <3>4. QED
      BY <1>1, <2>3, <3>1, <3>3
  <2>4. QED
    BY <2>2, <2>3
<1>7. QED
  BY <1>4, <1>5, <1>6 DEF FlushInv

\* An increment into an empty root makes it as old as the clock.
LEMMA IncInv ==
    ASSUME TypeOK, FlushInv, NEW t \in Threads, NEW m \in Metrics, Inc(t, m)
    PROVE  FlushInv'
<1> USE AutoFlushAssumption DEF TypeOK
<1>1. Own(t) /\ recent <= clock
  BY OwnNow DEF FlushInv, ClockInv
<1>2. local'[t][m] = local[t][m] + 1
  BY DEF Inc
<1>3. ~Empty(t)'
  BY <1>2 DEF Empty
<1>4. Elsewhere(t)
  BY DEF Inc, Elsewhere
<1>5. lastFlush'[t] <= oldest'[t]
  BY <1>1 DEF Inc, Own
<1>6. pc'[t] = "check" /\ UNCHANGED <<recent, lastFlush, tick, flushedAt>>
  BY DEF Inc, timer
<1>7. pc[t] # "auto"
  BY DEF Inc
<1>8. Own(t)'
  BY <1>1, <1>3, <1>5, <1>6, <1>7 DEF Own
<1>9. QED
  BY <1>4, <1>8, OwnStep

\* A step that only takes something from t's local metrics.
LEMMA TakeInv ==
    ASSUME TypeOK, FlushInv, NEW t \in Threads, pc[t] # "check",
           OnlyFrom(t), UNCHANGED <<timer, lastFlush, pc, tick, flushedAt, oldest>>,
           pc[t] = "auto" => \A m \in Metrics \ left'[t] : local'[t][m] = 0
    PROVE  FlushInv'
<1>1. Own(t)
  BY OwnNow
<1>2. Empty(t) => Empty(t)'
  BY DEF OnlyFrom, Empty
<1>3. Own(t)'
  BY <1>1, <1>2 DEF Own, timer
<1>4. Elsewhere(t)
  BY DEF OnlyFrom, Elsewhere
<1>5. QED
  BY <1>3, <1>4, OwnStep

\* try_flush returns early, or a flush by hand or the thread's exit begins.
LEMMA LeaveInv ==
    ASSUME TypeOK, FlushInv, NEW t \in Threads,
           SkipFlush(t) \/ BeginManualFlush(t) \/ BeginExit(t)
    PROVE  FlushInv'
<1>1. Own(t)
  BY OwnNow
<1>2. /\ UNCHANGED <<timer, local, lastFlush, tick, flushedAt, oldest>>
      /\ pc[t] \in {"check", "idle"} /\ pc'[t] \in {"idle", "manual", "exit"}
  BY DEF SkipFlush, BeginManualFlush, BeginExit, TypeOK
<1>3. Own(t)'
  BY <1>1, <1>2 DEF Own, Empty, timer
<1>4. Elsewhere(t)
  BY DEF SkipFlush, BeginManualFlush, BeginExit, Elsewhere, TypeOK
<1>5. QED
  BY <1>3, <1>4, OwnStep

\* The automatic flush is decided at the lagging clock, ...
LEMMA BeginFlushInv ==
    ASSUME TypeOK, FlushInv, NEW t \in Threads, BeginFlush(t)
    PROVE  FlushInv'
<1> USE AutoFlushAssumption DEF TypeOK
<1>1. Own(t) /\ recent <= clock /\ clock <= recent + Lag
  BY OwnNow DEF FlushInv, ClockInv
<1>2. /\ tick'[t] = recent /\ flushedAt'[t] = clock /\ left'[t] = Metrics
      /\ pc'[t] = "auto" /\ UNCHANGED <<timer, local, lastFlush>>
  BY DEF BeginFlush
<1>3. Own(t)'
  BY <1>1, <1>2 DEF Own, timer
<1>4. Elsewhere(t)
  BY DEF BeginFlush, Elsewhere
<1>5. QED
  BY <1>3, <1>4, OwnStep

\* ... and last_flush is set to it when nothing is left in the root.
LEMMA EndFlushInv ==
    ASSUME TypeOK, FlushInv, NEW t \in Threads, EndFlush(t)
    PROVE  FlushInv'
<1> USE AutoFlushAssumption DEF TypeOK
<1>1. Own(t)
  BY OwnNow
<1>2. /\ lastFlush'[t] = (IF pc[t] = "auto" THEN tick[t] ELSE lastFlush[t])
      /\ tick'[t] = 0 /\ pc'[t] = "idle" /\ pc[t] # "check"
      /\ UNCHANGED <<timer, local, flushedAt, oldest>>
  BY DEF EndFlush
<1>3. pc[t] = "auto" => Empty(t)
  BY <1>1 DEF EndFlush, Own, Empty
<1>4. Empty(t)' <=> Empty(t)
  BY <1>2 DEF Empty
<1>5. Own(t)'
  BY <1>1, <1>2, <1>3, <1>4 DEF Own, timer
<1>6. Elsewhere(t)
  BY DEF EndFlush, Elsewhere
<1>7. QED
  BY <1>5, <1>6, OwnStep

\* The clock's lag bounds how far a root is behind.
LEMMA FlushInvariance == Spec => []FlushInv
<1>1. TypeOK /\ FlushInv /\ [Next]_vars => FlushInv'
  <2> SUFFICES ASSUME TypeOK, FlushInv, [Next]_vars PROVE FlushInv'
    OBVIOUS
  <2>1. CASE Pass \/ CatchUp
    BY <2>1, ClockFlushInv
  <2>2. ASSUME NEW t \in Threads, BuildRoot(t) PROVE FlushInv'
    BY <2>2, BuildRootInv
  <2>3. ASSUME NEW t \in Threads, NEW m \in Metrics, Inc(t, m) PROVE FlushInv'
    BY <2>3, IncInv
  <2>4. ASSUME NEW t \in Threads, NEW m \in Metrics, Reset(t, m) PROVE FlushInv'
    <3>1. OnlyFrom(t) /\ pc[t] = "idle"
      BY <2>4 DEF Reset, Discard, thread, OnlyFrom, TypeOK
    <3>2. UNCHANGED <<timer, lastFlush, pc, tick, flushedAt, oldest>>
      BY <2>4 DEF Reset, thread
    <3>3. QED
      BY <3>1, <3>2, TakeInv
  <2>5. ASSUME NEW t \in Threads, SkipFlush(t) \/ BeginManualFlush(t) \/ BeginExit(t)
        PROVE  FlushInv'
    BY <2>5, LeaveInv
  <2>6. ASSUME NEW t \in Threads, BeginFlush(t) PROVE FlushInv'
    BY <2>6, BeginFlushInv
  <2>7. ASSUME NEW t \in Threads, FlushNext(t) PROVE FlushInv'
    <3>1. PICK m \in left[t] : Move(t, m) /\ left' = [left EXCEPT ![t] = left[t] \ {m}]
      BY <2>7 DEF FlushNext
    <3>2. OnlyFrom(t) /\ pc[t] # "check"
      BY <2>7, <3>1 DEF FlushNext, Move, OnlyFrom, TypeOK
    <3>3. UNCHANGED <<timer, lastFlush, pc, tick, flushedAt, oldest>>
      BY <2>7 DEF FlushNext
    <3>4. pc[t] = "auto" => \A n \in Metrics \ left'[t] : local'[t][n] = 0
      <4>1. pc[t] = "auto" => \A n \in Metrics \ left[t] : local[t][n] = 0
        BY OwnNow DEF Own
      <4>2. QED
        BY <3>1, <4>1 DEF Move, TypeOK
    <3>5. QED
      BY <3>2, <3>3, <3>4, TakeInv
  <2>8. ASSUME NEW t \in Threads, EndFlush(t) PROVE FlushInv'
    BY <2>8, EndFlushInv
  <2>9. ASSUME NEW t \in Threads, NEW m \in Histograms, FlushHistogram(t, m) PROVE FlushInv'
    <3>1. OnlyFrom(t) /\ pc[t] = "idle"
      BY <2>9, KindsOfMetrics DEF FlushHistogram, Move, thread, OnlyFrom, TypeOK
    <3>2. UNCHANGED <<timer, lastFlush, pc, tick, flushedAt, oldest>>
      BY <2>9 DEF FlushHistogram, thread
    <3>3. QED
      BY <3>1, <3>2, TakeInv
  <2>10. ASSUME NEW t \in Threads, DropNext(t) PROVE FlushInv'
    <3>1. PICK m \in left[t] : /\ Move(t, m) \/ Discard(t, m)
                               /\ left' = [left EXCEPT ![t] = left[t] \ {m}]
      BY <2>10 DEF DropNext
    <3>2. local' = [local EXCEPT ![t][m] = 0]
      BY <3>1 DEF Move, Discard
    <3>3. OnlyFrom(t) /\ pc[t] = "exit"
      BY <2>10, <3>1, <3>2 DEF DropNext, OnlyFrom, TypeOK
    <3>4. UNCHANGED <<timer, lastFlush, pc, tick, flushedAt, oldest>>
      BY <2>10 DEF DropNext
    <3>5. QED
      BY <3>3, <3>4, TakeInv
  <2>11. CASE UNCHANGED vars
    BY <2>11 DEF vars, timer, thread, FlushInv, ClockInv, OldestInv, DecidedInv, Empty
  <2>12. QED
    BY <2>1, <2>2, <2>3, <2>4, <2>5, <2>6, <2>7, <2>8, <2>9, <2>10, <2>11 DEF Next
<1>2. QED
  BY <1>1, InitFlushInv, TypeCorrect, PTL DEF Spec

\* A thread leaves may_flush without a flush only by SkipFlush, and goes into
\* one only by BeginFlush.
LEMMA OutOfCheck ==
    ASSUME TypeOK, [Next]_vars, NEW t \in Threads, pc[t] = "check"
    PROVE  /\ pc'[t] = "idle" => TooEarly(t)
           /\ pc'[t] = "auto" => ~TooEarly(t)
<1> USE DEF TypeOK
<1>1. CASE Pass \/ CatchUp
  BY <1>1 DEF Pass, CatchUp, thread
<1>2. ASSUME NEW u \in Threads,
             \/ BuildRoot(u) \/ BeginManualFlush(u) \/ EndFlush(u) \/ BeginExit(u)
      PROVE  pc'[t] = "check"
  BY <1>2 DEF BuildRoot, BeginManualFlush, EndFlush, BeginExit
<1>3. ASSUME NEW u \in Threads, NEW m \in Metrics, Inc(u, m) \/ Reset(u, m)
      PROVE  pc'[t] = "check"
  BY <1>3 DEF Inc, Reset, thread
<1>4. ASSUME NEW u \in Threads, FlushNext(u) \/ DropNext(u)
      PROVE  pc'[t] = "check"
  BY <1>4 DEF FlushNext, DropNext
<1>5. ASSUME NEW u \in Threads, NEW m \in Histograms, FlushHistogram(u, m)
      PROVE  pc'[t] = "check"
  BY <1>5 DEF FlushHistogram, thread
<1>6. ASSUME NEW u \in Threads, SkipFlush(u)
      PROVE  pc'[t] = "check" \/ (pc'[t] = "idle" /\ TooEarly(t))
  BY <1>6 DEF SkipFlush
<1>7. ASSUME NEW u \in Threads, BeginFlush(u)
      PROVE  pc'[t] = "check" \/ (pc'[t] = "auto" /\ ~TooEarly(t))
  BY <1>7 DEF BeginFlush
<1>8. CASE UNCHANGED vars
  BY <1>8 DEF vars, thread
<1>9. QED
  BY <1>1, <1>2, <1>3, <1>4, <1>5, <1>6, <1>7, <1>8 DEF Next

\* An inc or observe that does not flush leaves nothing in the root that is as
\* old as the interval and the lag of the clock.
THEOREM StalenessIsBounded == Spec => StalenessBounded
<1>1. TypeOK /\ FlushInv /\ [Next]_vars =>
        [\A t \in Threads :
            (pc[t] = "check" /\ pc'[t] = "idle") => clock < oldest[t] + Interval + Lag]_vars
  <2> SUFFICES ASSUME TypeOK, FlushInv, [Next]_vars, NEW t \in Threads,
                      pc[t] = "check", pc'[t] = "idle"
               PROVE  clock < oldest[t] + Interval + Lag
    OBVIOUS
  <2>1. recent < lastFlush[t] + Interval
    BY OutOfCheck DEF TooEarly
  <2>2. clock <= recent + Lag /\ lastFlush[t] <= oldest[t]
    BY OwnNow DEF FlushInv, ClockInv, Own
  <2>3. QED
    BY <2>1, <2>2, AutoFlushAssumption DEF TypeOK
<1>2. QED
  BY <1>1, TypeCorrect, FlushInvariance, PTL DEF Spec, StalenessBounded

\* Two automatic flushes of a root are decided an interval apart, less the lag.
THEOREM FlushesAreApart == Spec => FlushesApart
<1>1. TypeOK /\ FlushInv /\ [Next]_vars =>
        [\A t \in Threads :
            (pc[t] = "check" /\ pc'[t] = "auto" /\ flushedAt[t] > 0)
                => flushedAt[t] + Interval <= clock + Lag]_vars
  <2> SUFFICES ASSUME TypeOK, FlushInv, [Next]_vars, NEW t \in Threads,
                      pc[t] = "check", pc'[t] = "auto"
               PROVE  flushedAt[t] + Interval <= clock + Lag
    OBVIOUS
  <2>1. ~(recent < lastFlush[t] + Interval)
    BY OutOfCheck DEF TooEarly
  <2>2. flushedAt[t] <= lastFlush[t] + Lag /\ recent <= clock
    BY OwnNow DEF FlushInv, ClockInv, Own
  <2>3. QED
    BY <2>1, <2>2, AutoFlushAssumption DEF TypeOK
<1>2. QED
  BY <1>1, TypeCorrect, FlushInvariance, PTL DEF Spec, FlushesApart

=============================================================================
