------------------------------ MODULE LocalVec ------------------------------
(***************************************************************************)
(* GenericLocalCounterVec of counter.rs and LocalHistogramVec of             *)
(* histogram.rs: each thread keeps local metrics, by the hash of their label *)
(* values, in front of the children of a shared vector.  A local metric      *)
(* keeps the child it was made for, which others may remove in the meantime. *)
(* A timer of a histogram records once, into the shared child or into a copy  *)
(* of the local histogram that the timer owns.                              *)
(*                                                                          *)
(* The shared vector is the abstract one, which MetricVec implements.        *)
(***************************************************************************)
EXTENDS Integers, FiniteSets, Functions

CONSTANTS
    Threads,     \* threads with a local vector
    Hash,        \* hashes of label values
    Metric,      \* bound: the children that can be created
    MaxAdded,    \* bound: the increments
    MaxTimers,   \* bound: the timers that run at a time
    Kinds,       \* of the vector: "counter", "histogram"
    None

\* A timer: where it records, whether into a copy of a local histogram, what that
\* copy holds, and whether it was stopped.
TimerState == [histogram : Metric, isLocal : BOOLEAN, holds : Nat, observed : BOOLEAN]

ASSUME LocalVecAssumption ==
    /\ IsFiniteSet(Threads) /\ IsFiniteSet(Hash) /\ IsFiniteSet(Metric)
    /\ None \notin Metric /\ None \notin Threads /\ None \notin TimerState
    /\ (Threads \X Hash) \cap Threads = {}
    /\ MaxAdded \in Nat /\ MaxTimers \in Nat
    /\ Kinds \subseteq {"counter", "histogram"}

VARIABLES
    kind,      \* of which metrics the vector is
    children,  \* children[h]: the shared child, or None
    value,     \* value[m]: what the child holds
    local,     \* local[t][h]: the child of t's local metric, or None
    pending,   \* pending[t][h]: what the local metric holds
    pc,        \* where each thread is
    left,      \* left[t]: the local metrics that a flush or a drop has before it
    timer,     \* timer[t]: the timer that the thread runs, or None
    added,     \* history: every increment that was not cleared or discarded
    orphaned   \* history: the local metrics whose child another thread removed

shared == <<children, value>>
locals == <<local, pending>>
vars == <<kind, shared, locals, pc, left, timer, added, orphaned>>

\* The metrics that are held outside of the shared vector: by a local metric, or
\* by the timer of a thread.
Users == (Threads \X Hash) \cup Threads

handle == [u \in Users |-> IF u \in Threads
                           THEN IF timer[u] = None THEN None ELSE timer[u].histogram
                           ELSE local[u[1]][u[2]]]

\* The shared vector.
Vec == INSTANCE VecSpec

Init ==
    /\ kind \in Kinds
    /\ children = [h \in Hash |-> None]
    /\ value = [m \in Metric |-> 0]
    /\ local = [t \in Threads |-> [h \in Hash |-> None]]
    /\ pending = [t \in Threads |-> [h \in Hash |-> 0]]
    /\ pc = [t \in Threads |-> "idle"]
    /\ left = [t \in Threads |-> {}]
    /\ timer = [t \in Threads |-> None]
    /\ added = 0
    /\ orphaned = {}

-----------------------------------------------------------------------------
\* with_label_values finds no local metric and makes one for the shared child,
\* which is created unless it is there.
MakeLocal(t, h, m) ==
    /\ pc[t] = "idle"
    /\ local[t][h] = None
    /\ local' = [local EXCEPT ![t][h] = m]
    /\ UNCHANGED timer
    /\ Vec!Get(<<t, h>>, h, m)
    /\ pending' = [pending EXCEPT ![t][h] = 0]
    /\ orphaned' = orphaned \ {<<t, h>>}
    /\ UNCHANGED <<kind, pc, left, added>>

\* with_label_values(..).inc(), observe().
Inc(t, h) ==
    /\ pc[t] = "idle"
    /\ local[t][h] # None
    /\ added < MaxAdded
    /\ pending' = [pending EXCEPT ![t][h] = @ + 1]
    /\ added' = added + 1
    /\ UNCHANGED <<kind, shared, local, pc, left, timer, orphaned>>

\* reset() of a local counter, clear() of a local histogram.
Clear(t, h) ==
    /\ pc[t] = "idle"
    /\ local[t][h] # None
    /\ pending' = [pending EXCEPT ![t][h] = 0]
    /\ added' = added - pending[t][h]
    /\ UNCHANGED <<kind, shared, local, pc, left, timer, orphaned>>

-----------------------------------------------------------------------------
\* The child of a local metric, after it is flushed.
Flushed(t, h) == [value EXCEPT ![local[t][h]] = @ + pending[t][h]]

\* Take the local metric, if any, out of the map and drop it.  Dropping a local
\* histogram flushes it; a local counter has no Drop, and what it held is gone.
Forget(t, h) ==
    /\ IF kind = "histogram" /\ local[t][h] # None
       THEN value' = Flushed(t, h) /\ UNCHANGED added
       ELSE added' = added - pending[t][h] /\ UNCHANGED value
    /\ local' = [local EXCEPT ![t][h] = None]
    /\ pending' = [pending EXCEPT ![t][h] = 0]

BeginFlush(t) ==
    /\ pc[t] = "idle"
    /\ pc' = [pc EXCEPT ![t] = "flush"]
    /\ left' = [left EXCEPT ![t] = {h \in Hash : local[t][h] # None}]
    /\ UNCHANGED <<kind, shared, locals, timer, added, orphaned>>

\* flush of one local metric, which resets it.
FlushLocal(t, h) ==
    /\ pc[t] = "flush"
    /\ h \in left[t]
    /\ value' = Flushed(t, h)
    /\ pending' = [pending EXCEPT ![t][h] = 0]
    /\ left' = [left EXCEPT ![t] = @ \ {h}]
    /\ UNCHANGED <<kind, children, local, pc, timer, added, orphaned>>

\* The local vector goes out of scope, and the thread makes a new one.
BeginDrop(t) ==
    /\ pc[t] = "idle"
    /\ pc' = [pc EXCEPT ![t] = "drop"]
    /\ left' = [left EXCEPT ![t] = {h \in Hash : local[t][h] # None}]
    /\ UNCHANGED <<kind, shared, locals, timer, added, orphaned>>

DropLocal(t, h) ==
    /\ pc[t] = "drop"
    /\ h \in left[t]
    /\ Forget(t, h)
    /\ left' = [left EXCEPT ![t] = @ \ {h}]
    /\ UNCHANGED <<kind, children, pc, timer, orphaned>>

Done(t) ==
    /\ pc[t] \in {"flush", "drop"}
    /\ left[t] = {}
    /\ pc' = [pc EXCEPT ![t] = "idle"]
    /\ UNCHANGED <<kind, shared, locals, left, timer, added, orphaned>>

-----------------------------------------------------------------------------
\* Mutant: remove_label_values removes only the shared child.
ForgetNothing(t, h) == UNCHANGED <<value, local, pending, added>>

RemoveLocal(t, h) == Forget(t, h)

\* remove_label_values removes the local metric, if any, ...
BeginRemove(t, h) ==
    /\ pc[t] = "idle"
    /\ RemoveLocal(t, h)
    /\ pc' = [pc EXCEPT ![t] = "delete"]
    /\ left' = [left EXCEPT ![t] = {h}]
    /\ UNCHANGED <<kind, children, timer, orphaned>>

\* The local metrics of other threads for the children with a hash of R.
HeldByOthers(t, R) ==
    {e \in Threads \X R : e[1] # t /\ local[e[1]][e[2]] # None
                            /\ local[e[1]][e[2]] = children[e[2]]}

\* ... and then the shared child; without one the call returns an error.
DeleteShared(t) ==
    /\ pc[t] = "delete"
    /\ UNCHANGED <<kind, locals, timer, added>>
    /\ Vec!Delete(left[t])
    /\ orphaned' = orphaned \cup HeldByOthers(t, left[t])
    /\ pc' = [pc EXCEPT ![t] = "idle"]
    /\ left' = [left EXCEPT ![t] = {}]

\* A user of the shared vector removes a child, or resets the vector.
DeleteByUser(R) ==
    /\ UNCHANGED <<kind, locals, pc, left, timer, added>>
    /\ Vec!Delete(R)
    /\ orphaned' = orphaned \cup HeldByOthers(None, R)

-----------------------------------------------------------------------------
\* Mutant: the copy of a local histogram keeps what it holds.
CloneKeeps(t, h) == pending[t][h]

\* What a copy of a local histogram holds: the copy is cleared.
Clone(t, h) == 0

MayStart(t) ==
    /\ pc[t] = "idle"
    /\ kind = "histogram"
    /\ timer[t] = None
    /\ Cardinality({s \in Threads : timer[s] # None}) < MaxTimers

\* start_timer of the shared histogram.
StartTimer(t, h) ==
    /\ MayStart(t)
    /\ children[h] # None
    /\ timer' = [timer EXCEPT ![t] =
                   [histogram |-> children[h], isLocal |-> FALSE, holds |-> 0, observed |-> FALSE]]
    /\ UNCHANGED <<kind, shared, locals, pc, left, added, orphaned>>

\* start_timer of a local histogram, of which the timer gets a copy.
StartLocalTimer(t, h) ==
    /\ MayStart(t)
    /\ local[t][h] # None
    /\ timer' = [timer EXCEPT ![t] =
                   [histogram |-> local[t][h], isLocal |-> TRUE, holds |-> Clone(t, h),
                    observed |-> FALSE]]
    /\ UNCHANGED <<kind, shared, locals, pc, left, added, orphaned>>

Runs(t) == timer[t] # None /\ ~timer[t].observed

\* observe_duration, stop_and_record, and the drop of a timer that was not
\* stopped.
Record(t) ==
    /\ Runs(t)
    /\ added < MaxAdded
    /\ timer' = [timer EXCEPT ![t].observed = TRUE,
                              ![t].holds = IF timer[t].isLocal THEN @ + 1 ELSE @]
    /\ value' = [value EXCEPT ![timer[t].histogram] = IF timer[t].isLocal THEN @ ELSE @ + 1]
    /\ added' = added + 1
    /\ UNCHANGED <<kind, children, locals, pc, left, orphaned>>

\* stop_and_discard.
Discard(t) ==
    /\ Runs(t)
    /\ timer' = [timer EXCEPT ![t].observed = TRUE]
    /\ UNCHANGED <<kind, shared, locals, pc, left, added, orphaned>>

\* The timer is dropped, and with it its local histogram, which flushes.
DropTimer(t) ==
    /\ timer[t] # None
    /\ timer[t].observed
    /\ value' = [value EXCEPT ![timer[t].histogram] = @ + timer[t].holds]
    /\ timer' = [timer EXCEPT ![t] = None]
    /\ UNCHANGED <<kind, children, locals, pc, left, added, orphaned>>

Next ==
    \/ \E t \in Threads :
        \/ \E h \in Hash :
            \/ \E m \in Metric : MakeLocal(t, h, m)
            \/ Inc(t, h) \/ Clear(t, h)
            \/ FlushLocal(t, h) \/ DropLocal(t, h)
            \/ BeginRemove(t, h)
            \/ StartTimer(t, h) \/ StartLocalTimer(t, h)
        \/ BeginFlush(t) \/ BeginDrop(t) \/ Done(t)
        \/ DeleteShared(t)
        \/ Record(t) \/ Discard(t) \/ DropTimer(t)
    \/ \E h \in Hash : DeleteByUser({h})
    \/ DeleteByUser(Hash)

Spec == Init /\ [][Next]_vars

-----------------------------------------------------------------------------
\* The shapes of the vector, the local vectors and the timers.
TypeOK ==
    /\ kind \in Kinds
    /\ children \in [Hash -> Metric \cup {None}]
    /\ value \in [Metric -> Nat]
    /\ local \in [Threads -> [Hash -> Metric \cup {None}]]
    /\ pending \in [Threads -> [Hash -> Nat]]
    /\ pc \in [Threads -> {"idle", "flush", "drop", "delete"}]
    /\ left \in [Threads -> SUBSET Hash]
    /\ timer \in [Threads -> TimerState \cup {None}]
    /\ added \in Int
    /\ orphaned \in SUBSET (Threads \X Hash)

\* What a thread holds outside of the shared vector.
InTimer(t) == IF timer[t] = None THEN 0 ELSE timer[t].holds

Held(t) == SumFunction(pending[t]) + InTimer(t)

\* Every increment and every timing that was not cleared or discarded is once in
\* a child, a local metric or a timer: through flushes, removals by anyone,
\* timers that outlive the histogram they were started on, and the end of the
\* thread, which throws a local counter away and flushes a local histogram.
NothingLost == added = SumFunction(value) + SumFunction([t \in Threads |-> Held(t)])

\* A local metric flushes into the exported child of its labels for as long as
\* nobody else removes that child: a thread's own removal never leaves it with a
\* metric that nobody sees.  After another's removal it does have one (as vec.rs
\* 209 says of metrics that are kept), and never comes to feed the child that is
\* made for the labels later, until the thread makes itself a new local metric.
LocalIsExported ==
    \A t \in Threads, h \in Hash :
        local[t][h] # None
            => (children[h] = local[t][h] <=> <<t, h>> \notin orphaned)

-----------------------------------------------------------------------------
(***************************************************************************)
(* The inductive invariant behind them: only a local metric holds something, *)
(* a flush and a drop visit the ones there are, and a thread that is about   *)
(* to remove a shared child has already dropped its own local metric for it. *)
(***************************************************************************)
LocalInv ==
    \A t \in Threads :
        /\ \A h \in Hash : local[t][h] = None => pending[t][h] = 0
        /\ pc[t] \in {"flush", "drop"} => \A h \in left[t] : local[t][h] # None
        /\ pc[t] = "delete" => \A h \in left[t] : local[t][h] = None

=============================================================================
