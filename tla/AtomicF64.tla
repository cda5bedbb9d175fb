------------------------------ MODULE AtomicF64 ------------------------------
(***************************************************************************)
(* AtomicF64 of atomic64.rs, the cell behind Counter, Gauge and the sums of *)
(* a histogram.  The processor has no atomic addition of floats: inc_by     *)
(* loads the bits, adds to the number they stand for, and tries to exchange *)
(* the bits for the new ones until no other thread has been in between.     *)
(* The bits are compared, never the numbers, so nothing here depends on how *)
(* Add rounds or on what it does to a NaN.                                  *)
(***************************************************************************)
CONSTANTS
    Users,      \* the threads that use the cell
    Values,     \* its bit patterns
    Add(_, _), Zero, None

ASSUME AtomicF64Assumption ==
    /\ Zero \in Values
    /\ \A x \in Values, y \in Values : Add(x, y) \in Values
    /\ \A x \in Values : x # None

VARIABLES
    inner,      \* the bits
    step,       \* where the inc_by of each thread is
    delta,      \* its argument
    current,    \* what it loaded
    returned    \* what the thread's last get or swap returned

atomicVars == <<inner, step, delta, current, returned>>

\* AtomicF64::new(0.0)
AtomicInit ==
    /\ inner = Zero
    /\ step = [t \in Users |-> "idle"]
    /\ delta = [t \in Users |-> Zero]
    /\ current = [t \in Users |-> Zero]
    /\ returned = [t \in Users |-> None]

\* inc_by(d) is called; dec_by(d) calls it with -d.
IncBy(t, d) ==
    /\ step[t] = "idle"
    /\ delta' = [delta EXCEPT ![t] = d]
    /\ step' = [step EXCEPT ![t] = "load"]
    /\ UNCHANGED <<inner, current, returned>>

LoadCurrent(t) ==
    /\ step[t] = "load"
    /\ current' = [current EXCEPT ![t] = inner]
    /\ step' = [step EXCEPT ![t] = "cas"]
    /\ UNCHANGED <<inner, delta, returned>>

\* Mutant: a store in place of the compare-and-exchange.
BitsMatchAlways(t) == TRUE

\* What lets compare_exchange_weak succeed.
BitsMatch(t) == inner = current[t]

CompareExchangeOk(t) ==
    /\ step[t] = "cas"
    /\ BitsMatch(t)
    /\ inner' = Add(current[t], delta[t])
    /\ step' = [step EXCEPT ![t] = "idle"]
    /\ delta' = [delta EXCEPT ![t] = Zero]
    /\ current' = [current EXCEPT ![t] = Zero]
    /\ UNCHANGED returned

\* It may fail, also when the bits are equal: go round the loop.
CompareExchangeFails(t) ==
    /\ step[t] = "cas"
    /\ current' = [current EXCEPT ![t] = Zero]
    /\ step' = [step EXCEPT ![t] = "load"]
    /\ UNCHANGED <<inner, delta, returned>>

Set(t, v) ==
    /\ step[t] = "idle"
    /\ inner' = v
    /\ UNCHANGED <<step, delta, current, returned>>

Get(t) ==
    /\ step[t] = "idle"
    /\ returned' = [returned EXCEPT ![t] = inner]
    /\ UNCHANGED <<inner, step, delta, current>>

Swap(t, v) ==
    /\ step[t] = "idle"
    /\ returned' = [returned EXCEPT ![t] = inner]
    /\ inner' = v
    /\ UNCHANGED <<step, delta, current>>

AtomicNext ==
    \E t \in Users :
        \/ \E d \in Values : IncBy(t, d)
        \/ LoadCurrent(t)
        \/ CompareExchangeOk(t)
        \/ CompareExchangeFails(t)
        \/ \E v \in Values : Set(t, v) \/ Swap(t, v)
        \/ Get(t)

AtomicSpec == AtomicInit /\ [][AtomicNext]_atomicVars

\* The shapes of the cell's bits and of the locals of inc_by.
AtomicTypeOK ==
    /\ inner \in Values
    /\ step \in [Users -> {"idle", "load", "cas"}]
    /\ delta \in [Users -> Values]
    /\ current \in [Users -> Values]
    /\ returned \in [Users -> Values \cup {None}]

\* inc_by has still to take effect until its exchange succeeds.
Pending == [t \in Users |-> IF step[t] = "idle" THEN None ELSE delta[t]]

Cell == INSTANCE AtomicCellSpec
            WITH Threads <- Users, value <- inner, pending <- Pending

\* inc_by loses no update, its own or another's, however the loads, exchanges,
\* stores and swaps of the threads interleave, and also when the bits change
\* and change back in between.
ImplementsCell == Cell!CellSpec

=============================================================================
