---------------------------- MODULE AtomicsProofs ----------------------------
(***************************************************************************)
(* What threads do without a lock: the cell of atomic64.rs and the clock of  *)
(* timer.rs, for any number of threads, every set of bit patterns with every *)
(* addition on them, and any bound on the clock.                            *)
(***************************************************************************)
EXTENDS AtomicF64, Timer, TLAPS

-----------------------------------------------------------------------------
(***************************************************************************)
(* AtomicF64 implements an atomic cell.                                     *)
(***************************************************************************)
\* The cell and the locals of its operations keep their shapes.
THEOREM CellTypeCorrect == AtomicSpec => []AtomicTypeOK
<1>1. AtomicInit => AtomicTypeOK
  BY AtomicF64Assumption DEF AtomicInit, AtomicTypeOK
<1>2. AtomicTypeOK /\ [AtomicNext]_atomicVars => AtomicTypeOK'
  <2> SUFFICES ASSUME AtomicTypeOK, [AtomicNext]_atomicVars PROVE AtomicTypeOK'
    OBVIOUS
  <2> USE DEF AtomicTypeOK
  <2>1. ASSUME NEW t \in Users, NEW d \in Values, IncBy(t, d) PROVE AtomicTypeOK'
    BY <2>1 DEF IncBy
  <2>2. ASSUME NEW t \in Users, LoadCurrent(t) PROVE AtomicTypeOK'
    BY <2>2 DEF LoadCurrent
  <2>3. ASSUME NEW t \in Users, CompareExchangeOk(t) PROVE AtomicTypeOK'
    <3>1. Add(current[t], delta[t]) \in Values
      BY AtomicF64Assumption
    <3>2. QED
      BY <2>3, <3>1, AtomicF64Assumption DEF CompareExchangeOk
  <2>4. ASSUME NEW t \in Users, CompareExchangeFails(t) PROVE AtomicTypeOK'
    BY <2>4, AtomicF64Assumption DEF CompareExchangeFails
  <2>5. ASSUME NEW t \in Users, NEW v \in Values, Set(t, v) \/ Swap(t, v) PROVE AtomicTypeOK'
    BY <2>5 DEF Set, Swap
  <2>6. ASSUME NEW t \in Users, Get(t) PROVE AtomicTypeOK'
    BY <2>6 DEF Get
  <2>7. CASE UNCHANGED atomicVars
    BY <2>7 DEF atomicVars
  <2>8. QED
    BY <2>1, <2>2, <2>3, <2>4, <2>5, <2>6, <2>7 DEF AtomicNext
<1>3. QED
  BY <1>1, <1>2, PTL DEF AtomicSpec

\* inc_by loses no update: a step of AtomicF64 is a step of the abstract cell
\* or leaves it alone.  The exchange that succeeds has compared the bits, so
\* what it adds to is what the cell holds.
THEOREM CellRefinement == AtomicSpec => ImplementsCell
<1>1. AtomicInit => Cell!SpecInit
  BY DEF AtomicInit, Cell!SpecInit, Pending
<1>2. AtomicTypeOK /\ [AtomicNext]_atomicVars => [Cell!SpecNext]_(Cell!specVars)
  <2> SUFFICES ASSUME AtomicTypeOK, [AtomicNext]_atomicVars
               PROVE [Cell!SpecNext]_(Cell!specVars)
    OBVIOUS
  <2> USE DEF AtomicTypeOK, Cell!SpecNext, Cell!specVars
  <2>0. \A x \in Values : x # None
    BY AtomicF64Assumption
  <2>1. ASSUME NEW t \in Users, NEW d \in Values, IncBy(t, d)
        PROVE Cell!Begin(t, d)
    BY <2>1, <2>0 DEF IncBy, Cell!Begin, Pending
  <2>2. ASSUME NEW t \in Users, LoadCurrent(t) PROVE UNCHANGED Cell!specVars
    <3>1. \A u \in Users : Pending'[u] = Pending[u]
      BY <2>2 DEF LoadCurrent, Pending
    <3>2. QED
      BY <2>2, <3>1 DEF LoadCurrent, Pending
  <2>3. ASSUME NEW t \in Users, CompareExchangeOk(t) PROVE Cell!Apply(t)
    <3>1. Pending[t] = delta[t] /\ Pending[t] # None /\ inner = current[t]
      BY <2>3, <2>0 DEF CompareExchangeOk, BitsMatch, Pending
    <3>2. inner' = Add(inner, Pending[t])
      BY <2>3, <3>1 DEF CompareExchangeOk
    <3>3. Pending' = [Pending EXCEPT ![t] = None]
      BY <2>3 DEF CompareExchangeOk, Pending
    <3>4. QED
      BY <2>3, <3>1, <3>2, <3>3 DEF CompareExchangeOk, Cell!Apply
  <2>4. ASSUME NEW t \in Users, CompareExchangeFails(t) PROVE UNCHANGED Cell!specVars
    <3>1. \A u \in Users : Pending'[u] = Pending[u]
      BY <2>4 DEF CompareExchangeFails, Pending
    <3>2. QED
      BY <2>4, <3>1 DEF CompareExchangeFails, Pending
  <2>5. ASSUME NEW t \in Users, NEW v \in Values, Set(t, v)
        PROVE Cell!Store(t, v)
    BY <2>5 DEF Set, Cell!Store, Pending
  <2>6. ASSUME NEW t \in Users, NEW v \in Values, Swap(t, v)
        PROVE Cell!Exchange(t, v)
    BY <2>6 DEF Swap, Cell!Exchange, Pending
  <2>7. ASSUME NEW t \in Users, Get(t) PROVE Cell!Load(t)
    BY <2>7 DEF Get, Cell!Load, Pending
  <2>8. CASE UNCHANGED atomicVars
    BY <2>8 DEF atomicVars, Pending
  <2>9. QED
    BY <2>1, <2>2, <2>3, <2>4, <2>5, <2>6, <2>7, <2>8 DEF AtomicNext
<1>3. QED
  BY <1>1, <1>2, CellTypeCorrect, PTL DEF AtomicSpec, ImplementsCell, Cell!CellSpec

-----------------------------------------------------------------------------
(***************************************************************************)
(* The clock.                                                               *)
(***************************************************************************)
\* The clocks and the locals of now_millis keep their shapes.
THEOREM TypeCorrect == Spec => []TypeOK
<1>1. Init => TypeOK
  <2>1. Init => running \in BOOLEAN
    BY Zenon DEF Init
  <2>2. QED
    BY <2>1, TimerAssumption DEF Init, TypeOK
<1>2. TypeOK /\ [Next]_vars => TypeOK'
  <2> SUFFICES ASSUME TypeOK, [Next]_vars PROVE TypeOK'
    OBVIOUS
  <2> USE TimerAssumption DEF TypeOK
  <2>1. CASE Tick
    BY <2>1 DEF Tick
  <2>2. ASSUME NEW t \in Threads, ReadClock(t) PROVE TypeOK'
    BY <2>2 DEF ReadClock
  <2>3. ASSUME NEW t \in Threads, LoadRecent(t) PROVE TypeOK'
    BY <2>3 DEF LoadRecent
  <2>4. ASSUME NEW t \in Threads, ReturnRecent(t) PROVE TypeOK'
    BY <2>4 DEF ReturnRecent, Return
  <2>5. ASSUME NEW t \in Threads, ExchangeOk(t) PROVE TypeOK'
    BY <2>5 DEF ExchangeOk, Return
  <2>6. ASSUME NEW t \in Threads, ExchangeFails(t) PROVE TypeOK'
    BY <2>6 DEF ExchangeFails
  <2>7. ASSUME NEW t \in Threads, EnsureUpdater(t) \/ SpawnUpdater(t) PROVE TypeOK'
    <3>1. running' \in BOOLEAN
      BY <2>7, Zenon DEF EnsureUpdater, SpawnUpdater
    <3>2. QED
      BY <2>7, <3>1 DEF EnsureUpdater, SpawnUpdater
  <2>8. CASE UNCHANGED vars
    BY <2>8 DEF vars
  <2>9. QED
    BY <2>1, <2>2, <2>3, <2>4, <2>5, <2>6, <2>7, <2>8
    DEF Next, NowMillis, WakeUp, Threads
<1>3. QED
  BY <1>1, <1>2, PTL DEF Spec

\* RECENT is between every answer and the clock.
LEMMA TimerInvariance == Spec => []TimerInv
<1> DEFINE Inv == TimerInv
<1>1. Init => Inv
  BY DEF Init, TimerInv, Threads
<1>2. TypeOK /\ Inv /\ [Next]_vars => Inv'
  <2> SUFFICES ASSUME TypeOK, Inv, [Next]_vars PROVE Inv'
    OBVIOUS
  <2> USE TimerAssumption DEF TypeOK, TimerInv
  <2>1. CASE Tick
    BY <2>1 DEF Tick
  <2>2. ASSUME NEW t \in Threads, ReadClock(t) PROVE Inv'
    BY <2>2 DEF ReadClock
  <2>3. ASSUME NEW t \in Threads, LoadRecent(t) PROVE Inv'
    BY <2>3 DEF LoadRecent
  <2>4. ASSUME NEW t \in Threads, ReturnRecent(t) PROVE Inv'
    BY <2>4 DEF ReturnRecent, Return, Overtaken
  <2>5. ASSUME NEW t \in Threads, ExchangeOk(t) PROVE Inv'
    BY <2>5 DEF ExchangeOk, Return, Overtaken, MayExchange
  <2>6. ASSUME NEW t \in Threads, ExchangeFails(t) PROVE Inv'
    BY <2>6 DEF ExchangeFails
  <2>7. ASSUME NEW t \in Threads, EnsureUpdater(t) \/ SpawnUpdater(t) PROVE Inv'
    BY <2>7 DEF EnsureUpdater, SpawnUpdater
  <2>8. CASE UNCHANGED vars
    BY <2>8 DEF vars
  <2>9. QED
    BY <2>1, <2>2, <2>3, <2>4, <2>5, <2>6, <2>7, <2>8
    DEF Next, NowMillis, WakeUp, Threads
<1>3. QED
  BY <1>1, <1>2, TypeCorrect, PTL DEF Spec

\* recent_millis never falls behind what a now_millis has returned.
THEOREM RecentCovers == Spec => []RecentCoversAnswers
<1>1. TimerInv => RecentCoversAnswers
  BY DEF TimerInv, RecentCoversAnswers
<1>2. QED
  BY <1>1, TimerInvariance, PTL

\* RECENT implements the lagging clock that the local metrics rely on.
THEOREM Refinement == Spec => ImplementsTimer
<1>1. Init => Recent!TimerInit
  BY DEF Init, Recent!TimerInit
<1>2. TypeOK /\ TimerInv /\ [Next]_vars => [Recent!TimerNext]_<<clock, recent>>
  <2> SUFFICES ASSUME TypeOK, TimerInv, [Next]_vars
               PROVE [Recent!TimerNext]_<<clock, recent>>
    OBVIOUS
  <2> USE DEF TypeOK, TimerInv
  <2>1. CASE Tick
    BY <2>1 DEF Tick, Recent!TimerNext, Recent!Pass
  <2>2. ASSUME NEW t \in Threads, ExchangeOk(t) PROVE Recent!CatchUp
    BY <2>2 DEF ExchangeOk, Return, Overtaken, MayExchange, Recent!CatchUp
  <2>3. ASSUME NEW t \in Threads,
               \/ ReadClock(t) \/ LoadRecent(t) \/ ReturnRecent(t) \/ ExchangeFails(t)
               \/ EnsureUpdater(t) \/ SpawnUpdater(t)
        PROVE UNCHANGED <<clock, recent>>
    BY <2>3 DEF ReadClock, LoadRecent, ReturnRecent, Return, ExchangeFails,
                EnsureUpdater, SpawnUpdater
  <2>4. CASE UNCHANGED vars
    BY <2>4 DEF vars
  <2>5. QED
    BY <2>1, <2>2, <2>3, <2>4 DEF Next, NowMillis, WakeUp, Threads, Recent!TimerNext
<1>3. QED
  BY <1>1, <1>2, TypeCorrect, TimerInvariance, PTL DEF Spec, ImplementsTimer, Recent!TimerSpecification

\* One updater at most is ever started.
THEOREM SingleUpdater == Spec => []OneUpdater
<1> DEFINE Inv == UpdaterInv /\ OneUpdater
<1>1. Init => Inv
  BY DEF Init, UpdaterInv, OneUpdater, Threads
<1>2. TypeOK /\ Inv /\ [Next]_vars => Inv'
  <2> SUFFICES ASSUME TypeOK, Inv, [Next]_vars PROVE Inv'
    OBVIOUS
  <2> USE DEF TypeOK, UpdaterInv, OneUpdater
  <2>1. CASE Tick
    BY <2>1 DEF Tick
  <2>2. ASSUME NEW t \in Threads, ReadClock(t) PROVE Inv'
    BY <2>2 DEF ReadClock
  <2>3. ASSUME NEW t \in Threads, NowMillis(t) PROVE Inv'
    BY <2>3 DEF NowMillis, LoadRecent, ReturnRecent, Return, ExchangeOk, ExchangeFails
  <2>4. ASSUME NEW t \in Threads, EnsureUpdater(t) PROVE Inv'
    BY <2>4 DEF EnsureUpdater, MayStart
  <2>5. ASSUME NEW t \in Threads, SpawnUpdater(t) PROVE Inv'
    BY <2>5 DEF SpawnUpdater
  <2>6. CASE UNCHANGED vars
    BY <2>6 DEF vars
  <2>7. QED
    BY <2>1, <2>2, <2>3, <2>4, <2>5, <2>6 DEF Next, WakeUp, Threads
<1>3. QED
  BY <1>1, <1>2, TypeCorrect, PTL DEF Spec

=============================================================================
