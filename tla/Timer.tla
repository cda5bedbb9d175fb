-------------------------------- MODULE Timer --------------------------------
(***************************************************************************)
(* timer.rs: RECENT, a coarse clock that any thread advances by calling     *)
(* now_millis and that a single updater thread advances periodically.       *)
(***************************************************************************)
EXTENDS Naturals

CONSTANTS
    Callers,    \* threads that call now_millis or ensure_updater
    Updater,    \* the background thread
    MaxClock    \* bound: how far the clock runs

ASSUME TimerAssumption == MaxClock \in Nat /\ Updater \notin Callers

Threads == Callers \cup {Updater}

VARIABLES
    clock,      \* external: Instant::now(), in milliseconds since ANCHOR
    recent,     \* RECENT
    running,    \* UPDATER_IS_RUNNING
    spawned,    \* how many updater threads have been started
    pc,         \* where each thread is; "spawn" is in ensure_updater
    now,        \* t of now_millis
    seen,       \* recent of now_millis
    best        \* history: the largest time that a now_millis has returned

vars == <<clock, recent, running, spawned, pc, now, seen, best>>

Init ==
    /\ clock = 0
    /\ recent = 0
    /\ running = FALSE
    /\ spawned = 0
    /\ pc = [t \in Threads |-> "idle"]
    /\ now = [t \in Threads |-> 0]
    /\ seen = [t \in Threads |-> 0]
    /\ best = 0

\* A millisecond passes.
Tick ==
    /\ clock < MaxClock
    /\ clock' = clock + 1
    /\ UNCHANGED <<recent, running, spawned, pc, now, seen, best>>

\* now_millis reads the clock.
ReadClock(t) ==
    /\ pc[t] = "idle"
    /\ now' = [now EXCEPT ![t] = clock]
    /\ pc' = [pc EXCEPT ![t] = "load"]
    /\ UNCHANGED <<clock, recent, running, spawned, seen, best>>

LoadRecent(t) ==
    /\ pc[t] = "load"
    /\ seen' = [seen EXCEPT ![t] = recent]
    /\ pc' = [pc EXCEPT ![t] = "loop"]
    /\ UNCHANGED <<clock, recent, running, spawned, now, best>>

Return(t, a) ==
    /\ best' = IF a > best THEN a ELSE best
    /\ now' = [now EXCEPT ![t] = 0]
    /\ seen' = [seen EXCEPT ![t] = 0]
    /\ pc' = [pc EXCEPT ![t] = "idle"]
    /\ UNCHANGED <<clock, running, spawned>>

\* Mutant: now_millis never finds itself overtaken.
OvertakenNever(t) == FALSE

\* if recent > t
Overtaken(t) == seen[t] > now[t]

ReturnRecent(t) ==
    /\ pc[t] = "loop"
    /\ Overtaken(t)
    /\ Return(t, seen[t])
    /\ UNCHANGED recent

\* Mutant: a store in place of the compare-and-exchange.
MayExchangeAlways(t) == TRUE

\* Mutant: the exchange compares RECENT with the new time.
MayExchangeNew(t) == recent = now[t]

\* What lets compare_exchange_weak succeed.
MayExchange(t) == recent = seen[t]

ExchangeOk(t) ==
    /\ pc[t] = "loop"
    /\ ~Overtaken(t)
    /\ MayExchange(t)
    /\ recent' = now[t]
    /\ Return(t, now[t])

\* The exchange fails, perhaps spuriously, and returns what it found.
ExchangeFails(t) ==
    /\ pc[t] = "loop"
    /\ ~Overtaken(t)
    /\ seen' = [seen EXCEPT ![t] = recent]
    /\ UNCHANGED <<clock, recent, running, spawned, pc, now, best>>

NowMillis(t) == LoadRecent(t) \/ ReturnRecent(t) \/ ExchangeOk(t) \/ ExchangeFails(t)

\* Mutant: ensure_updater does not look whether an updater is running.
MayStartAlways == TRUE

\* The exchange of false for true succeeds.
MayStart == ~running

\* ensure_updater wins the exchange of UPDATER_IS_RUNNING; when it loses it,
\* nothing changes.
EnsureUpdater(t) ==
    /\ pc[t] = "idle"
    /\ MayStart
    /\ running' = TRUE
    /\ pc' = [pc EXCEPT ![t] = "spawn"]
    /\ UNCHANGED <<clock, recent, spawned, now, seen, best>>

SpawnUpdater(t) ==
    /\ pc[t] = "spawn"
    /\ spawned' = spawned + 1
    /\ pc' = [pc EXCEPT ![t] = "idle"]
    /\ UNCHANGED <<clock, recent, running, now, seen, best>>

\* The updater's sleep is over, and it calls now_millis.
WakeUp ==
    /\ spawned > 0
    /\ ReadClock(Updater)

Next ==
    \/ Tick
    \/ \E t \in Callers : ReadClock(t) \/ EnsureUpdater(t) \/ SpawnUpdater(t)
    \/ WakeUp
    \/ \E t \in Threads : NowMillis(t)

Spec == Init /\ [][Next]_vars

(***************************************************************************)
(* The updater is scheduled, a started thread starts, and a weak exchange   *)
(* that could go through again and again does not fail for ever.            *)
(***************************************************************************)
FairSpec ==
    /\ Spec
    /\ WF_vars(WakeUp)
    /\ \A t \in Callers : WF_vars(SpawnUpdater(t))
    /\ WF_vars(NowMillis(Updater))
    /\ SF_vars(ExchangeOk(Updater))

-----------------------------------------------------------------------------
\* The shapes of the clocks and of the locals of now_millis.
TypeOK ==
    /\ clock \in 0 .. MaxClock
    /\ recent \in 0 .. MaxClock
    /\ running \in BOOLEAN
    /\ spawned \in Nat
    /\ pc \in [Threads -> {"idle", "load", "loop", "spawn"}]
    /\ now \in [Threads -> 0 .. MaxClock]
    /\ seen \in [Threads -> 0 .. MaxClock]
    /\ best \in 0 .. MaxClock

Recent == INSTANCE TimerSpec

\* RECENT never runs backwards and is never ahead of the clock, although the
\* threads that advance it read the clock before they read RECENT.
ImplementsTimer == Recent!TimerSpecification

\* recent_millis never returns less than what a now_millis, of any thread, has
\* already returned: the thread that is about to exchange an older time for
\* RECENT finds itself overtaken.
RecentCoversAnswers == best <= recent

\* However many threads call ensure_updater, one updater is started.
OneUpdater == spawned <= 1

\* Once an updater is started, RECENT reaches every time that has passed: the
\* local metrics' clock lags but does not stop.
RecentCatchesUp ==
    \A v \in 1 .. MaxClock : (spawned > 0 /\ clock >= v) ~> (recent >= v)

-----------------------------------------------------------------------------
\* The inductive invariants: one behind ImplementsTimer and RecentCoversAnswers, one
\* behind OneUpdater.
TimerInv ==
    /\ recent <= clock
    /\ best <= recent
    /\ \A t \in Threads :
        /\ now[t] <= clock
        /\ seen[t] <= recent

UpdaterInv ==
    /\ ~running => spawned = 0 /\ \A t \in Threads : pc[t] # "spawn"
    /\ spawned > 0 => \A t \in Threads : pc[t] # "spawn"
    /\ \A t \in Threads, u \in Threads : pc[t] = "spawn" /\ pc[u] = "spawn" => t = u

=============================================================================
