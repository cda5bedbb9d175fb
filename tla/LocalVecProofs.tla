--------------------------- MODULE LocalVecProofs ---------------------------
(***************************************************************************)
(* Local vectors and their timers, for any number of threads, labels,       *)
(* children and timers: no increment is lost or counted twice, and a local  *)
(* metric flushes into a child that is exported unless somebody else has    *)
(* removed it.                                                              *)
(***************************************************************************)
EXTENDS LocalVec, SumLemmas

LEMMA InitTypeOK == Init => TypeOK
BY LocalVecAssumption DEF Init, TypeOK

\* What the shared vector does for a thread.
LEMMA GetTypeOK ==
    ASSUME TypeOK, NEW t \in Threads, NEW h \in Hash, NEW m \in Metric, Vec!Get(<<t, h>>, h, m)
    PROVE  /\ children' \in [Hash -> Metric \cup {None}] /\ children'[h] = m
           /\ \A g \in Hash : g # h \/ children[g] # None => children'[g] = children[g]
           /\ UNCHANGED value
BY LocalVecAssumption DEF TypeOK, Vec!Get

LEMMA DeleteTypeOK ==
    ASSUME TypeOK, NEW R \in SUBSET Hash, Vec!Delete(R)
    PROVE  /\ children' \in [Hash -> Metric \cup {None}]
           /\ \A h \in Hash \ R : children'[h] = children[h]
           /\ UNCHANGED value
BY DEF TypeOK, Vec!Delete

LEMMA ValueGrows ==
    ASSUME TypeOK, NEW m, NEW k \in Nat
    PROVE  [value EXCEPT ![m] = @ + k] \in [Metric -> Nat]
<1>1. CASE m \in Metric
  <2>1. value[m] + k \in Nat
    BY <1>1 DEF TypeOK
  <2>2. QED
    BY <2>1 DEF TypeOK
<1>2. CASE m \notin Metric
  BY <1>2 DEF TypeOK
<1>3. QED
  BY <1>1, <1>2

LEMMA FlushedType ==
    ASSUME TypeOK, NEW t \in Threads, NEW h \in Hash
    PROVE  Flushed(t, h) \in [Metric -> Nat]
<1>1. pending[t][h] \in Nat
  BY DEF TypeOK
<1>2. QED
  BY <1>1, ValueGrows DEF Flushed

LEMMA ForgetTypeOK ==
    ASSUME TypeOK, NEW t \in Threads, NEW h \in Hash, Forget(t, h)
    PROVE  /\ value' \in [Metric -> Nat] /\ added' \in Int
           /\ local' \in [Threads -> [Hash -> Metric \cup {None}]]
           /\ pending' \in [Threads -> [Hash -> Nat]]
<1>1. value' \in [Metric -> Nat] /\ added' \in Int
  BY FlushedType DEF Forget, TypeOK
<1>2. QED
  BY <1>1 DEF Forget, TypeOK

LEMMA OrphansType ==
    ASSUME TypeOK, NEW t, NEW R \in SUBSET Hash
    PROVE  orphaned \cup HeldByOthers(t, R) \in SUBSET (Threads \X Hash)
BY DEF TypeOK, HeldByOthers

\* The timers keep their shapes.
LEMMA TimerStarts ==
    ASSUME TypeOK, NEW t \in Threads, NEW h \in Hash, StartTimer(t, h) \/ StartLocalTimer(t, h)
    PROVE  /\ timer[t] = None
           /\ timer'[t] \in TimerState /\ timer'[t].holds = 0
           /\ timer' \in [Threads -> TimerState \cup {None}]
           /\ \A u \in Threads \ {t} : timer'[u] = timer[u]
<1>1. timer[t] = None
  BY DEF StartTimer, StartLocalTimer, MayStart
<1>2. PICK m \in Metric, b \in BOOLEAN :
        timer' = [timer EXCEPT ![t] =
                    [histogram |-> m, isLocal |-> b, holds |-> 0, observed |-> FALSE]]
  <2>1. CASE StartTimer(t, h)
    <3>1. children[h] \in Metric /\ FALSE \in BOOLEAN
      BY <2>1 DEF StartTimer, TypeOK
    <3>2. QED
      BY <2>1, <3>1, Zenon DEF StartTimer
  <2>2. CASE StartLocalTimer(t, h)
    <3>1. local[t][h] \in Metric /\ TRUE \in BOOLEAN
      BY <2>2 DEF StartLocalTimer, TypeOK
    <3>2. QED
      BY <2>2, <3>1, Zenon DEF StartLocalTimer, Clone
  <2>3. QED
    BY <2>1, <2>2
<1>3. [histogram |-> m, isLocal |-> b, holds |-> 0, observed |-> FALSE] \in TimerState
  BY DEF TimerState
<1>4. QED
  BY <1>1, <1>2, <1>3 DEF TypeOK

LEMMA TimerRecords ==
    ASSUME TypeOK, NEW t \in Threads, Record(t)
    PROVE  /\ timer[t] \in TimerState /\ timer'[t] \in TimerState
           /\ timer'[t].holds = IF timer[t].isLocal THEN timer[t].holds + 1 ELSE timer[t].holds
           /\ timer' \in [Threads -> TimerState \cup {None}]
           /\ \A u \in Threads \ {t} : timer'[u] = timer[u]
<1>1. timer[t] \in TimerState
  BY DEF Record, Runs, TypeOK
<1> DEFINE k == IF timer[t].isLocal THEN timer[t].holds + 1 ELSE timer[t].holds
           new == [[timer[t] EXCEPT !.observed = TRUE] EXCEPT !.holds = k]
<1>2. timer' = [timer EXCEPT ![t] = new]
  BY <1>1 DEF Record, TypeOK, TimerState
<1>3. new \in TimerState /\ new.holds = k
  <2>1. k \in Nat
    BY <1>1 DEF TimerState
  <2> HIDE DEF k
  <2>2. QED
    BY <1>1, <2>1 DEF TimerState
<1> HIDE DEF new
<1>4. QED
  BY <1>1, <1>2, <1>3 DEF TypeOK

LEMMA TimerDiscards ==
    ASSUME TypeOK, NEW t \in Threads, Discard(t)
    PROVE  /\ timer[t] \in TimerState /\ timer'[t] \in TimerState
           /\ timer'[t].holds = timer[t].holds
           /\ timer' \in [Threads -> TimerState \cup {None}]
           /\ \A u \in Threads \ {t} : timer'[u] = timer[u]
<1>1. timer[t] \in TimerState
  BY DEF Discard, Runs, TypeOK
<1> DEFINE new == [timer[t] EXCEPT !.observed = TRUE]
<1>2. timer' = [timer EXCEPT ![t] = new]
  BY <1>1 DEF Discard, TypeOK
<1>3. new \in TimerState /\ new.holds = timer[t].holds
  BY <1>1 DEF TimerState
<1> HIDE DEF new
<1>4. QED
  BY <1>1, <1>2, <1>3 DEF TypeOK

LEMMA TimerDrops ==
    ASSUME TypeOK, NEW t \in Threads, DropTimer(t)
    PROVE  /\ timer[t] \in TimerState /\ timer[t].histogram \in Metric /\ timer[t].holds \in Nat
           /\ timer' = [timer EXCEPT ![t] = None]
           /\ timer' \in [Threads -> TimerState \cup {None}]
BY DEF DropTimer, TypeOK, TimerState

\* The vector, the local vectors and the timers keep their shapes.
THEOREM TypeCorrect == Spec => []TypeOK
<1>1. TypeOK /\ [Next]_vars => TypeOK'
  <2> SUFFICES ASSUME TypeOK, [Next]_vars PROVE TypeOK'
    OBVIOUS
  <2>1. ASSUME NEW t \in Threads, NEW h \in Hash, NEW m \in Metric, MakeLocal(t, h, m)
        PROVE  TypeOK'
    BY <2>1, GetTypeOK DEF MakeLocal, TypeOK
  <2>2. ASSUME NEW t \in Threads, NEW h \in Hash, Inc(t, h) PROVE TypeOK'
    BY <2>2 DEF Inc, TypeOK, shared
  <2>3. ASSUME NEW t \in Threads, NEW h \in Hash, Clear(t, h) PROVE TypeOK'
    BY <2>3 DEF Clear, TypeOK, shared
  <2>4. ASSUME NEW t \in Threads, NEW h \in Hash, FlushLocal(t, h) PROVE TypeOK'
    BY <2>4, FlushedType DEF FlushLocal, TypeOK
  <2>5. ASSUME NEW t \in Threads, NEW h \in Hash, DropLocal(t, h) PROVE TypeOK'
    BY <2>5, ForgetTypeOK DEF DropLocal, TypeOK
  <2>6. ASSUME NEW t \in Threads, NEW h \in Hash, BeginRemove(t, h) PROVE TypeOK'
    BY <2>6, ForgetTypeOK DEF BeginRemove, RemoveLocal, TypeOK
  <2>7. ASSUME NEW t \in Threads, NEW h \in Hash, StartTimer(t, h) \/ StartLocalTimer(t, h)
        PROVE  TypeOK'
    <3>1. UNCHANGED <<kind, shared, locals, pc, left, added, orphaned>>
      BY <2>7 DEF StartTimer, StartLocalTimer
    <3>2. QED
      BY <2>7, <3>1, TimerStarts DEF TypeOK, shared, locals
  <2>8. ASSUME NEW t \in Threads, BeginFlush(t) \/ BeginDrop(t) PROVE TypeOK'
    BY <2>8 DEF BeginFlush, BeginDrop, TypeOK, shared, locals
  <2>9. ASSUME NEW t \in Threads, Done(t) PROVE TypeOK'
    BY <2>9 DEF Done, TypeOK, shared, locals
  <2>10. ASSUME NEW t \in Threads, DeleteShared(t) PROVE TypeOK'
    <3>1. left[t] \in SUBSET Hash
      BY DEF TypeOK
    <3>2. /\ children' \in [Hash -> Metric \cup {None}] /\ UNCHANGED value
          /\ orphaned' \in SUBSET (Threads \X Hash)
      BY <2>10, <3>1, DeleteTypeOK, OrphansType DEF DeleteShared
    <3>3. QED
      BY <2>10, <3>2 DEF DeleteShared, TypeOK, locals
  <2>11. ASSUME NEW R \in SUBSET Hash, DeleteByUser(R) PROVE TypeOK'
    <3>1. /\ children' \in [Hash -> Metric \cup {None}] /\ UNCHANGED value
          /\ orphaned' \in SUBSET (Threads \X Hash)
      BY <2>11, DeleteTypeOK, OrphansType DEF DeleteByUser
    <3>2. QED
      BY <2>11, <3>1 DEF DeleteByUser, TypeOK, locals
  <2>12. ASSUME NEW t \in Threads, Record(t) PROVE TypeOK'
    <3>1. value' \in [Metric -> Nat] /\ added' \in Int
      <4>1. timer[t].histogram \in Metric
        BY <2>12, TimerRecords DEF TimerState
      <4>2. value[timer[t].histogram] \in Nat
        BY <4>1 DEF TypeOK
      <4>3. QED
        BY <2>12, <4>1, <4>2 DEF Record, TypeOK
    <3>2. QED
      BY <2>12, <3>1, TimerRecords DEF Record, TypeOK, locals
  <2>13. ASSUME NEW t \in Threads, Discard(t) PROVE TypeOK'
    <3>1. UNCHANGED <<kind, shared, locals, pc, left, added, orphaned>>
      BY <2>13 DEF Discard
    <3>2. QED
      BY <2>13, <3>1, TimerDiscards DEF TypeOK, shared, locals
  <2>14. ASSUME NEW t \in Threads, DropTimer(t) PROVE TypeOK'
    <3>1. value' \in [Metric -> Nat]
      <4>1. value' = [value EXCEPT ![timer[t].histogram] = @ + timer[t].holds]
        BY <2>14 DEF DropTimer
      <4>2. timer[t].holds \in Nat
        BY <2>14, TimerDrops
      <4>3. QED
        BY <4>1, <4>2, ValueGrows
    <3>2. UNCHANGED <<kind, children, locals, pc, left, added, orphaned>>
      BY <2>14 DEF DropTimer
    <3>3. QED
      BY <2>14, <3>1, <3>2, TimerDrops DEF TypeOK, locals
  <2>15. CASE UNCHANGED vars
    BY <2>15 DEF vars, shared, locals, TypeOK
  <2>16. QED
    BY <2>1, <2>2, <2>3, <2>4, <2>5, <2>6, <2>7, <2>8, <2>9, <2>10, <2>11, <2>12, <2>13,
       <2>14, <2>15 DEF Next
<1>2. QED
  BY <1>1, InitTypeOK, PTL DEF Spec

-----------------------------------------------------------------------------
(***************************************************************************)
(* The local metrics and the exported children.                             *)
(***************************************************************************)
LEMMA InitLocalInv == Init => LocalInv /\ LocalIsExported
BY DEF Init, LocalInv, LocalIsExported

\* The local metrics, the flushes under way and the children are left alone.
LEMMA AloneLocalInv ==
    ASSUME LocalInv, LocalIsExported, UNCHANGED <<children, local, pending, pc, left, orphaned>>
    PROVE  LocalInv' /\ LocalIsExported'
BY DEF LocalInv, LocalIsExported

\* A new local metric is in front of the child that is exported.
LEMMA MakeLocalInv ==
    ASSUME TypeOK, LocalInv, LocalIsExported,
           NEW t \in Threads, NEW h \in Hash, NEW m \in Metric, MakeLocal(t, h, m)
    PROVE  LocalInv' /\ LocalIsExported'
<1>1. /\ pc[t] = "idle" /\ UNCHANGED <<pc, left>>
      /\ local' = [local EXCEPT ![t][h] = m] /\ pending' = [pending EXCEPT ![t][h] = 0]
      /\ orphaned' = orphaned \ {<<t, h>>}
  BY DEF MakeLocal
<1>2. /\ children'[h] = m
      /\ \A g \in Hash : g # h \/ children[g] # None => children'[g] = children[g]
  BY GetTypeOK DEF MakeLocal
<1>3. LocalInv'
  BY <1>1 DEF LocalInv, TypeOK
<1>4. children[h] = None => \A u \in Threads : local[u][h] # m
  <2> SUFFICES ASSUME children[h] = None, NEW u \in Threads
               PROVE  local[u][h] # m
    OBVIOUS
  <2>1. Vec!New(m)
    BY LocalVecAssumption DEF MakeLocal, Vec!Get
  <2>2. <<u, h>> \in Users /\ <<u, h>> \notin Threads
    BY LocalVecAssumption DEF Users
  <2>3. handle[<<u, h>>] = local[u][h]
    BY <2>2 DEF handle
  <2>4. QED
    BY <2>1, <2>2, <2>3 DEF Vec!New
<1>5. LocalIsExported'
  <2> SUFFICES ASSUME NEW u \in Threads, NEW g \in Hash, local'[u][g] # None
               PROVE  children'[g] = local'[u][g] <=> <<u, g>> \notin orphaned'
    BY DEF LocalIsExported
  <2>1. CASE u = t /\ g = h
    BY <1>1, <1>2, <2>1 DEF TypeOK
  <2>2. CASE ~(u = t /\ g = h)
    <3>1. local'[u][g] = local[u][g]
      BY <1>1, <2>2 DEF TypeOK
    <3>2. <<u, g>> \in orphaned' <=> <<u, g>> \in orphaned
      BY <1>1, <2>2
    <3>3. children[g] = local[u][g] <=> <<u, g>> \notin orphaned
      BY <3>1 DEF LocalIsExported
    <3>4. CASE g # h \/ children[g] # None
      BY <1>2, <3>1, <3>2, <3>3, <3>4
    <3>5. CASE g = h /\ children[g] = None
      BY <1>2, <1>4, <3>1, <3>2, <3>3, <3>5
    <3>6. QED
      BY <3>4, <3>5
  <2>3. QED
    BY <2>1, <2>2
<1>6. QED
  BY <1>3, <1>5

\* Dropping a local metric leaves the child with whoever else holds it.
LEMMA ForgetLocalInv ==
    ASSUME TypeOK, LocalInv, LocalIsExported, NEW t \in Threads, NEW h \in Hash,
           Forget(t, h), UNCHANGED <<children, orphaned>>,
           \/ pc[t] = "drop" /\ UNCHANGED pc /\ left' = [left EXCEPT ![t] = @ \ {h}]
           \/ pc' = [pc EXCEPT ![t] = "delete"] /\ left' = [left EXCEPT ![t] = {h}]
    PROVE  LocalInv' /\ LocalIsExported'
<1>1. local' = [local EXCEPT ![t][h] = None] /\ pending' = [pending EXCEPT ![t][h] = 0]
  BY DEF Forget
<1>2. LocalInv'
  BY <1>1 DEF LocalInv, TypeOK
<1>3. LocalIsExported'
  BY <1>1 DEF LocalIsExported, TypeOK
<1>4. QED
  BY <1>2, <1>3

\* Whose child is removed under it becomes an orphan, except the one who
\* removes it, who has let go of it before.
LEMMA DeleteLocalInv ==
    ASSUME TypeOK, LocalInv, LocalIsExported, NEW t, NEW R \in SUBSET Hash, Vec!Delete(R),
           orphaned' = orphaned \cup HeldByOthers(t, R), UNCHANGED local,
           t \in Threads => \A h \in R : local[t][h] = None
    PROVE  LocalIsExported'
<1> SUFFICES ASSUME NEW u \in Threads, NEW h \in Hash, local[u][h] # None
             PROVE  children'[h] = local[u][h] <=> <<u, h>> \notin orphaned'
  BY DEF LocalIsExported
<1>1. children[h] = local[u][h] <=> <<u, h>> \notin orphaned
  BY DEF LocalIsExported
<1>2. CASE h \in R
  <2>1. u # t
    BY <1>2
  <2>2. children'[h] = None
    BY <1>2 DEF Vec!Delete
  <2>3. children[h] = local[u][h] => <<u, h>> \in HeldByOthers(t, R)
    BY <1>2, <2>1 DEF HeldByOthers
  <2>4. QED
    BY <1>1, <2>2, <2>3
<1>3. CASE h \notin R
  <2>1. children'[h] = children[h]
    BY <1>3 DEF Vec!Delete
  <2>2. <<u, h>> \notin HeldByOthers(t, R)
    BY <1>3 DEF HeldByOthers
  <2>3. QED
    BY <1>1, <2>1, <2>2
<1>4. QED
  BY <1>2, <1>3

\* The two are inductive together.
LEMMA LocalInvariance == Spec => [](LocalInv /\ LocalIsExported)
<1>1. TypeOK /\ LocalInv /\ LocalIsExported /\ [Next]_vars => LocalInv' /\ LocalIsExported'
  <2> SUFFICES ASSUME TypeOK, LocalInv, LocalIsExported, [Next]_vars
               PROVE  LocalInv' /\ LocalIsExported'
    OBVIOUS
  <2>1. ASSUME NEW t \in Threads, NEW h \in Hash, NEW m \in Metric, MakeLocal(t, h, m)
        PROVE  LocalInv' /\ LocalIsExported'
    BY <2>1, MakeLocalInv
  <2>2. ASSUME NEW t \in Threads, NEW h \in Hash,
               Inc(t, h) \/ Clear(t, h) \/ FlushLocal(t, h)
        PROVE  LocalInv' /\ LocalIsExported'
    <3>1. UNCHANGED <<children, local, pc, orphaned>>
      BY <2>2 DEF Inc, Clear, FlushLocal, shared
    <3>2. LocalIsExported'
      BY <3>1 DEF LocalIsExported
    <3>3. LocalInv'
      <4>1. CASE Inc(t, h)
        <5>1. local[t][h] # None /\ UNCHANGED left
          BY <4>1 DEF Inc
        <5>2. \A u \in Threads, g \in Hash :
                (u # t \/ g # h) => pending'[u][g] = pending[u][g]
          BY <4>1 DEF Inc, TypeOK
        <5>3. QED
          BY <3>1, <5>1, <5>2 DEF LocalInv
      <4>2. CASE Clear(t, h) \/ FlushLocal(t, h)
        <5>1. \A u \in Threads : left'[u] \in SUBSET left[u]
          BY <4>2 DEF Clear, FlushLocal, TypeOK
        <5>2. \A u \in Threads, g \in Hash :
                pending'[u][g] = pending[u][g] \/ pending'[u][g] = 0
          BY <4>2 DEF Clear, FlushLocal, TypeOK
        <5>3. QED
          BY <3>1, <5>1, <5>2 DEF LocalInv
      <4>3. QED
        BY <2>2, <4>1, <4>2
    <3>4. QED
      BY <3>2, <3>3
  <2>3. ASSUME NEW t \in Threads, NEW h \in Hash, DropLocal(t, h) \/ BeginRemove(t, h)
        PROVE  LocalInv' /\ LocalIsExported'
    BY <2>3, ForgetLocalInv DEF DropLocal, BeginRemove, RemoveLocal
  <2>4. ASSUME NEW t \in Threads, BeginFlush(t) \/ BeginDrop(t) \/ Done(t)
        PROVE  LocalInv' /\ LocalIsExported'
    <3>1. UNCHANGED <<children, local, pending, orphaned>>
      BY <2>4 DEF BeginFlush, BeginDrop, Done, shared, locals
    <3>2. LocalIsExported'
      BY <3>1 DEF LocalIsExported
    <3>3. LocalInv'
      <4>1. CASE BeginFlush(t) \/ BeginDrop(t)
        <5>1. left' = [left EXCEPT ![t] = {h \in Hash : local[t][h] # None}]
              /\ (pc' = [pc EXCEPT ![t] = "flush"] \/ pc' = [pc EXCEPT ![t] = "drop"])
          BY <4>1 DEF BeginFlush, BeginDrop
        <5>2. QED
          BY <3>1, <5>1 DEF LocalInv, TypeOK
      <4>2. CASE Done(t)
        BY <4>2, <3>1 DEF Done, LocalInv, TypeOK
      <4>3. QED
        BY <2>4, <4>1, <4>2
    <3>4. QED
      BY <3>2, <3>3
  <2>5. ASSUME NEW t \in Threads, DeleteShared(t)
        PROVE  LocalInv' /\ LocalIsExported'
    <3>1. left[t] \in SUBSET Hash /\ \A h \in left[t] : local[t][h] = None
      BY <2>5 DEF DeleteShared, LocalInv, TypeOK
    <3>2. LocalIsExported'
      BY <2>5, <3>1, DeleteLocalInv DEF DeleteShared, locals
    <3>3. LocalInv'
      BY <2>5 DEF DeleteShared, locals, LocalInv, TypeOK
    <3>4. QED
      BY <3>2, <3>3
  <2>6. ASSUME NEW R \in SUBSET Hash, DeleteByUser(R)
        PROVE  LocalInv' /\ LocalIsExported'
    <3>1. LocalIsExported'
      BY <2>6, LocalVecAssumption, DeleteLocalInv DEF DeleteByUser, locals
    <3>2. LocalInv'
      BY <2>6 DEF DeleteByUser, locals, LocalInv
    <3>3. QED
      BY <3>1, <3>2
  <2>7. ASSUME NEW t \in Threads,
               \/ \E h \in Hash : StartTimer(t, h) \/ StartLocalTimer(t, h)
               \/ Record(t) \/ Discard(t) \/ DropTimer(t)
        PROVE  LocalInv' /\ LocalIsExported'
    BY <2>7, AloneLocalInv
    DEF StartTimer, StartLocalTimer, Record, Discard, DropTimer, shared, locals
  <2>8. CASE UNCHANGED vars
    BY <2>8, AloneLocalInv DEF vars, shared, locals
  <2>9. QED
    BY <2>1, <2>2, <2>3, <2>4, <2>5, <2>6, <2>7, <2>8 DEF Next
<1>2. QED
  BY <1>1, InitLocalInv, TypeCorrect, PTL DEF Spec

\* A local metric is in front of the exported child of its labels exactly if nobody
\* else has removed that child, through removals by any thread and by other users.
THEOREM LocalExported == Spec => []LocalIsExported
BY LocalInvariance, PTL

-----------------------------------------------------------------------------
(***************************************************************************)
(* Conservation.                                                            *)
(***************************************************************************)
InVec == SumFunction(value)
InThreads == SumFunction([t \in Threads |-> Held(t)])

LEMMA InVecIsInt == ASSUME TypeOK PROVE InVec \in Int
<1>1. value \in [Metric -> Int]
  BY DEF TypeOK
<1>2. QED
  BY <1>1, LocalVecAssumption, SumIsInt DEF InVec

LEMMA HeldIsInt ==
    ASSUME TypeOK, NEW t \in Threads
    PROVE  SumFunction(pending[t]) \in Int /\ InTimer(t) \in Int /\ Held(t) \in Int
<1>1. pending[t] \in [Hash -> Int]
  BY DEF TypeOK
<1>2. SumFunction(pending[t]) \in Int
  BY <1>1, LocalVecAssumption, SumIsInt
<1>3. InTimer(t) \in Int
  BY DEF TypeOK, TimerState, InTimer
<1>4. QED
  BY <1>2, <1>3 DEF Held

LEMMA InThreadsIsInt == ASSUME TypeOK PROVE InThreads \in Int
<1>1. [t \in Threads |-> Held(t)] \in [Threads -> Int]
  BY HeldIsInt
<1>2. QED
  BY <1>1, LocalVecAssumption, SumIsInt DEF InThreads

\* The sum over the children grows by what one child gets.
LEMMA InVecGrows ==
    ASSUME TypeOK, NEW m \in Metric, NEW k \in Nat, value' = [value EXCEPT ![m] = @ + k]
    PROVE  InVec' = InVec + k
<1> DEFINE f == value
           g == value'
<1>1. f \in [Metric -> Int] /\ g \in [Metric -> Int]
  BY ValueGrows DEF TypeOK
<1>2. g[m] = f[m] + k /\ f[m] \in Int /\ \A n \in Metric \ {m} : f[n] = g[n]
  BY DEF TypeOK
<1>3. InVec = SumFunction(f) /\ InVec' = SumFunction(g)
  BY DEF InVec
<1> HIDE DEF f, g
<1>4. SumFunction(g) = SumFunction(f) - f[m] + g[m]
  BY <1>1, <1>2, LocalVecAssumption, SumUpdate
<1>5. SumFunction(f) \in Int
  BY <1>1, LocalVecAssumption, SumIsInt
<1>6. QED
  BY <1>2, <1>3, <1>4, <1>5

\* The step leaves the other threads' local metrics and timers alone.
OnlyOf(t) == \A u \in Threads \ {t} : pending'[u] = pending[u] /\ timer'[u] = timer[u]

LEMMA InThreadsChanges ==
    ASSUME TypeOK, TypeOK', NEW t \in Threads, OnlyOf(t)
    PROVE  InThreads' = InThreads - Held(t) + Held(t)'
<1> DEFINE f == [u \in Threads |-> Held(u)]
           g == [u \in Threads |-> Held(u)']
<1>1. f \in [Threads -> Int]
  BY HeldIsInt
<1>2. g \in [Threads -> Int]
  <2>1. ASSUME NEW u \in Threads PROVE Held(u)' \in Int
    <3> DEFINE h == pending'[u]
    <3>1. h \in [Hash -> Int] /\ InTimer(u)' \in Int
      BY DEF TypeOK, TimerState, InTimer
    <3>2. Held(u)' = SumFunction(h) + InTimer(u)'
      BY DEF Held
    <3> HIDE DEF h
    <3>3. SumFunction(h) \in Int
      BY <3>1, LocalVecAssumption, SumIsInt
    <3>4. QED
      BY <3>1, <3>2, <3>3
  <2>2. QED
    BY <2>1
<1>3. \A u \in Threads \ {t} : f[u] = g[u]
  BY DEF OnlyOf, Held, InTimer
<1>4. f[t] = Held(t) /\ g[t] = Held(t)'
  OBVIOUS
<1>5. InThreads = SumFunction(f) /\ InThreads' = SumFunction(g)
  BY DEF InThreads
<1> HIDE DEF f, g
<1>6. SumFunction(g) = SumFunction(f) - f[t] + g[t]
  BY <1>1, <1>2, <1>3, LocalVecAssumption, SumUpdate
<1>7. QED
  BY <1>4, <1>5, <1>6

\* What a thread holds changes with one of its local metrics, ...
LEMMA PendingChanges ==
    ASSUME TypeOK, NEW t \in Threads, NEW h \in Hash, NEW k \in Nat,
           pending' = [pending EXCEPT ![t][h] = k], UNCHANGED timer
    PROVE  Held(t)' = Held(t) - pending[t][h] + k /\ OnlyOf(t)
<1> DEFINE f == pending[t]
           g == pending'[t]
<1>1. f \in [Hash -> Int] /\ g \in [Hash -> Int]
  BY DEF TypeOK
<1>2. g[h] = k /\ f[h] = pending[t][h] /\ f[h] \in Int /\ \A n \in Hash \ {h} : f[n] = g[n]
  BY DEF TypeOK
<1>3. Held(t) = SumFunction(f) + InTimer(t) /\ Held(t)' = SumFunction(g) + InTimer(t)
  BY DEF Held, InTimer
<1>4. OnlyOf(t)
  BY DEF OnlyOf, TypeOK
<1> HIDE DEF f, g
<1>5. SumFunction(g) = SumFunction(f) - f[h] + g[h]
  BY <1>1, <1>2, LocalVecAssumption, SumUpdate
<1>6. SumFunction(f) \in Int /\ InTimer(t) \in Int
  BY <1>1, LocalVecAssumption, SumIsInt, HeldIsInt
<1>7. QED
  BY <1>2, <1>3, <1>4, <1>5, <1>6

\* ... and with its timer.
LEMMA InTimerChanges ==
    ASSUME TypeOK, NEW t \in Threads, UNCHANGED pending,
           \A u \in Threads \ {t} : timer'[u] = timer[u]
    PROVE  Held(t)' = SumFunction(pending[t]) + InTimer(t)' /\ OnlyOf(t)
BY DEF Held, OnlyOf

\* A step of t keeps the balance if it adds to the children and to what t holds
\* as much as it counts.
LEMMA Balance ==
    ASSUME TypeOK, TypeOK', NothingLost, NEW t \in Threads, OnlyOf(t),
           NEW a \in Int, NEW k \in Int, NEW d \in Int,
           added' = added + a, InVec' = InVec + k, Held(t)' = Held(t) + d, a = k + d
    PROVE  NothingLost'
<1>1. InThreads' = InThreads - Held(t) + Held(t)'
  BY InThreadsChanges
<1>2. InThreads \in Int /\ InVec \in Int /\ Held(t) \in Int
  BY InThreadsIsInt, InVecIsInt, HeldIsInt
<1>3. InThreads' = InThreads + d
  BY <1>1, <1>2
<1>4. added = InVec + InThreads /\ added \in Int
  BY DEF NothingLost, InVec, InThreads, TypeOK
<1>5. added' = (InVec + k) + (InThreads + d)
  BY <1>2, <1>4
<1>6. added' = InVec' + InThreads'
  BY <1>3, <1>5, Zenon
<1>7. QED
  BY <1>6 DEF NothingLost, InVec, InThreads

LEMMA AloneBalance ==
    ASSUME NothingLost, UNCHANGED <<value, pending, timer, added>>
    PROVE  NothingLost'
BY DEF NothingLost, Held, InTimer

\* Before anything was added, every sum is zero.
LEMMA InitBalance == Init => NothingLost
<1> SUFFICES ASSUME Init PROVE added = InVec + InThreads
  BY DEF NothingLost, InVec, InThreads
<1>1. InVec = 0
  <2>1. value \in [Metric -> Int] /\ \A m \in Metric : value[m] = 0
    BY DEF Init
  <2>2. QED
    BY <2>1, LocalVecAssumption, SumZero DEF InVec
<1>2. ASSUME NEW t \in Threads PROVE Held(t) = 0
  <2> DEFINE f == pending[t]
  <2>1. f \in [Hash -> Int] /\ \A h \in Hash : f[h] = 0
    BY <1>2 DEF Init
  <2> HIDE DEF f
  <2>2. SumFunction(f) = 0
    BY <2>1, LocalVecAssumption, SumZero
  <2>3. InTimer(t) = 0
    BY <1>2 DEF Init, InTimer
  <2>4. QED
    BY <2>2, <2>3 DEF Held, f
<1>3. InThreads = 0
  <2> DEFINE f == [t \in Threads |-> Held(t)]
  <2>1. f \in [Threads -> Int] /\ \A t \in Threads : f[t] = 0
    BY <1>2
  <2> HIDE DEF f
  <2>2. SumFunction(f) = 0
    BY <2>1, LocalVecAssumption, SumZero
  <2>3. QED
    BY <2>2 DEF InThreads, f
<1>4. QED
  BY <1>1, <1>3 DEF Init

\* An increment is counted, one that is cleared is not; ...
LEMMA IncBalance ==
    ASSUME TypeOK, TypeOK', NothingLost, NEW t \in Threads, NEW h \in Hash,
           Inc(t, h) \/ Clear(t, h)
    PROVE  NothingLost'
<1> DEFINE p == pending[t][h]
<1>1. p \in Nat /\ UNCHANGED <<value, timer>>
  BY DEF TypeOK, Inc, Clear, shared
<1>2. InVec' = InVec + 0 /\ InVec \in Int /\ Held(t) \in Int
  BY <1>1, InVecIsInt, HeldIsInt DEF InVec
<1>3. CASE Inc(t, h)
  <2>1. pending' = [pending EXCEPT ![t][h] = p + 1] /\ added' = added + 1
    BY <1>3 DEF Inc
  <2> HIDE DEF p
  <2>2. p + 1 \in Nat
    BY <1>1
  <2>3. Held(t)' = Held(t) - p + (p + 1) /\ OnlyOf(t)
    BY <1>1, <2>1, <2>2, PendingChanges DEF p
  <2>4. Held(t)' = Held(t) + 1
    BY <1>1, <1>2, <2>3
  <2>5. QED
    BY <1>2, <2>1, <2>3, <2>4, Balance
<1>4. CASE Clear(t, h)
  <2>1. pending' = [pending EXCEPT ![t][h] = 0] /\ added' = added - p
    BY <1>4 DEF Clear
  <2>2. Held(t)' = Held(t) - p + 0 /\ OnlyOf(t)
    BY <1>1, <2>1, PendingChanges
  <2> HIDE DEF p
  <2>3. Held(t)' = Held(t) + (0 - p) /\ added' = added + (0 - p)
    BY <1>1, <1>2, <2>1, <2>2 DEF TypeOK
  <2>4. 0 - p \in Int /\ 0 - p = 0 + (0 - p)
    BY <1>1
  <2>5. QED
    BY <1>2, <2>2, <2>3, <2>4, Balance
<1>5. QED
  BY <1>3, <1>4

\* ... a flush of a local metric moves what it held to its child, ...
LEMMA FlushBalance ==
    ASSUME TypeOK, TypeOK', NothingLost, NEW t \in Threads, NEW h \in Hash,
           local[t][h] # None, value' = Flushed(t, h),
           pending' = [pending EXCEPT ![t][h] = 0], UNCHANGED <<timer, added>>
    PROVE  NothingLost'
<1> DEFINE p == pending[t][h]
<1>1. p \in Nat /\ local[t][h] \in Metric
  BY DEF TypeOK
<1>2. InVec' = InVec + p
  BY <1>1, InVecGrows DEF Flushed
<1>3. Held(t)' = Held(t) - p + 0 /\ OnlyOf(t)
  BY PendingChanges
<1>4. Held(t) \in Int /\ added \in Int
  BY HeldIsInt DEF TypeOK
<1> HIDE DEF p
<1>5. Held(t)' = Held(t) + (0 - p) /\ added' = added + 0
  BY <1>1, <1>3, <1>4
<1>6. p \in Int /\ 0 - p \in Int /\ 0 = p + (0 - p)
  BY <1>1
<1>7. QED
  BY <1>2, <1>3, <1>5, <1>6, Balance

\* ... and a local metric that is dropped flushes or throws it away.
LEMMA ForgetBalance ==
    ASSUME TypeOK, TypeOK', NothingLost, NEW t \in Threads, NEW h \in Hash,
           Forget(t, h), UNCHANGED timer
    PROVE  NothingLost'
<1>1. pending' = [pending EXCEPT ![t][h] = 0]
  BY DEF Forget
<1>2. CASE kind = "histogram" /\ local[t][h] # None
  <2>1. value' = Flushed(t, h) /\ UNCHANGED added
    BY <1>2 DEF Forget
  <2>2. QED
    BY <1>1, <1>2, <2>1, FlushBalance
<1>3. CASE ~(kind = "histogram" /\ local[t][h] # None)
  <2> DEFINE p == pending[t][h]
  <2>1. p \in Nat /\ added' = added - p /\ UNCHANGED value
    BY <1>3 DEF Forget, TypeOK
  <2>2. Held(t)' = Held(t) - p + 0 /\ OnlyOf(t)
    BY <1>1, PendingChanges
  <2>3. Held(t) \in Int /\ added \in Int /\ InVec \in Int /\ InVec' = InVec + 0
    BY <2>1, HeldIsInt, InVecIsInt DEF TypeOK, InVec
  <2> HIDE DEF p
  <2>4. Held(t)' = Held(t) + (0 - p) /\ added' = added + (0 - p)
    BY <2>1, <2>2, <2>3
  <2>5. 0 - p \in Int /\ 0 - p = 0 + (0 - p)
    BY <2>1
  <2>6. QED
    BY <2>2, <2>3, <2>4, <2>5, Balance
<1>4. QED
  BY <1>2, <1>3

\* A new local metric holds nothing.
LEMMA MakeLocalBalance ==
    ASSUME TypeOK, LocalInv, NothingLost,
           NEW t \in Threads, NEW h \in Hash, NEW m \in Metric, MakeLocal(t, h, m)
    PROVE  NothingLost'
<1>1. pending[t][h] = 0 /\ pending' = [pending EXCEPT ![t][h] = 0]
  BY DEF MakeLocal, LocalInv
<1>2. pending' = pending
  BY <1>1 DEF TypeOK
<1>3. UNCHANGED <<value, timer, added>>
  BY GetTypeOK DEF MakeLocal
<1>4. QED
  BY <1>2, <1>3, AloneBalance

\* A timer starts with nothing, ...
LEMMA StartBalance ==
    ASSUME TypeOK, TypeOK', NothingLost, NEW t \in Threads, NEW h \in Hash,
           StartTimer(t, h) \/ StartLocalTimer(t, h)
    PROVE  NothingLost'
<1>1. UNCHANGED <<value, pending, added>>
  BY DEF StartTimer, StartLocalTimer, shared, locals
<1>2. InTimer(t) = 0 /\ InTimer(t)' = 0
  BY TimerStarts DEF InTimer
<1>3. Held(t)' = SumFunction(pending[t]) + InTimer(t)' /\ OnlyOf(t)
  BY <1>1, TimerStarts, InTimerChanges
<1>4. Held(t)' = Held(t) + 0
  BY <1>2, <1>3, HeldIsInt DEF Held
<1>5. InVec' = InVec + 0 /\ added' = added + 0
  BY <1>1, InVecIsInt DEF InVec, TypeOK
<1>6. QED
  BY <1>3, <1>4, <1>5, Balance

\* ... records once, in the shared child or in its own copy, or not at all, ...
LEMMA StopBalance ==
    ASSUME TypeOK, TypeOK', NothingLost, NEW t \in Threads, Record(t) \/ Discard(t)
    PROVE  NothingLost'
<1>1. UNCHANGED pending /\ timer[t] \in TimerState /\ timer'[t] \in TimerState
  BY TimerRecords, TimerDiscards DEF Record, Discard, locals
<1>2. /\ InTimer(t) = timer[t].holds /\ InTimer(t)' = timer'[t].holds
      /\ timer[t].holds \in Nat /\ timer'[t].holds \in Nat
  BY <1>1, LocalVecAssumption DEF InTimer, TimerState
<1>3. Held(t)' = SumFunction(pending[t]) + InTimer(t)' /\ OnlyOf(t)
  BY <1>1, TimerRecords, TimerDiscards, InTimerChanges
<1>4. Held(t) = SumFunction(pending[t]) + InTimer(t) /\ SumFunction(pending[t]) \in Int
  BY HeldIsInt DEF Held
<1>5. CASE Discard(t)
  <2>1. InTimer(t)' = InTimer(t)
    BY <1>2, <1>5, TimerDiscards
  <2>2. Held(t)' = Held(t) + 0
    BY <1>2, <1>3, <1>4, <2>1
  <2>3. InVec' = InVec + 0 /\ added' = added + 0
    BY <1>5, InVecIsInt DEF InVec, TypeOK, Discard, shared
  <2>4. QED
    BY <1>3, <2>2, <2>3, Balance
<1>6. CASE Record(t) /\ timer[t].isLocal
  <2>1. InTimer(t)' = InTimer(t) + 1
    BY <1>2, <1>6, TimerRecords
  <2>2. Held(t)' = Held(t) + 1
    BY <1>2, <1>3, <1>4, <2>1
  <2>3. value' = value /\ added' = added + 1
    BY <1>6 DEF Record, TypeOK
  <2>4. InVec' = InVec + 0
    BY <2>3, InVecIsInt DEF InVec
  <2>5. QED
    BY <1>3, <2>2, <2>3, <2>4, Balance
<1>7. CASE Record(t) /\ ~timer[t].isLocal
  <2>1. InTimer(t)' = InTimer(t)
    BY <1>2, <1>7, TimerRecords
  <2>2. Held(t)' = Held(t) + 0
    BY <1>2, <1>3, <1>4, <2>1
  <2>3. timer[t].histogram \in Metric
    BY <1>1 DEF TimerState
  <2>4. value' = [value EXCEPT ![timer[t].histogram] = @ + 1] /\ added' = added + 1
    BY <1>7 DEF Record
  <2>5. InVec' = InVec + 1
    BY <2>3, <2>4, InVecGrows
  <2>6. QED
    BY <1>3, <2>2, <2>4, <2>5, Balance
<1>8. QED
  BY <1>5, <1>6, <1>7

\* ... and flushes its copy when it is dropped.
LEMMA DropTimerBalance ==
    ASSUME TypeOK, TypeOK', NothingLost, NEW t \in Threads, DropTimer(t)
    PROVE  NothingLost'
<1> DEFINE k == timer[t].holds
<1>1. /\ timer[t] # None /\ k \in Nat /\ timer[t].histogram \in Metric
      /\ timer' = [timer EXCEPT ![t] = None] /\ UNCHANGED <<pending, added>>
      /\ value' = [value EXCEPT ![timer[t].histogram] = @ + k]
  BY TimerDrops DEF DropTimer, locals
<1>2. InTimer(t) = k /\ InTimer(t)' = 0
  BY <1>1 DEF InTimer, TypeOK
<1>3. \A u \in Threads \ {t} : timer'[u] = timer[u]
  BY <1>1 DEF TypeOK
<1>4. InVec' = InVec + k
  BY <1>1, InVecGrows
<1> HIDE DEF k
<1>5. Held(t)' = SumFunction(pending[t]) + InTimer(t)' /\ OnlyOf(t)
  BY <1>1, <1>3, InTimerChanges
<1>6. Held(t) = SumFunction(pending[t]) + InTimer(t) /\ SumFunction(pending[t]) \in Int
  BY HeldIsInt DEF Held
<1>7. Held(t)' = Held(t) + (0 - k) /\ added' = added + 0
  BY <1>1, <1>2, <1>5, <1>6 DEF TypeOK
<1>8. k \in Int /\ 0 - k \in Int /\ 0 = k + (0 - k)
  BY <1>1
<1>9. QED
  BY <1>4, <1>5, <1>7, <1>8, Balance

\* Nothing that was added and neither cleared nor discarded is lost or counted
\* twice: it is in a child, in a local metric or in a timer, through flushes,
\* removals by anyone, timers that outlive the child they were started on, and
\* the end of a thread.
THEOREM NoneIsLost == Spec => []NothingLost
<1>1. TypeOK /\ TypeOK' /\ LocalInv /\ NothingLost /\ [Next]_vars => NothingLost'
  <2> SUFFICES ASSUME TypeOK, TypeOK', LocalInv, NothingLost, [Next]_vars PROVE NothingLost'
    OBVIOUS
  <2>1. ASSUME NEW t \in Threads, NEW h \in Hash, NEW m \in Metric, MakeLocal(t, h, m)
        PROVE  NothingLost'
    BY <2>1, MakeLocalBalance
  <2>2. ASSUME NEW t \in Threads, NEW h \in Hash, Inc(t, h) \/ Clear(t, h)
        PROVE  NothingLost'
    BY <2>2, IncBalance
  <2>3. ASSUME NEW t \in Threads, NEW h \in Hash, FlushLocal(t, h)
        PROVE  NothingLost'
    <3>1. local[t][h] # None
      BY <2>3 DEF FlushLocal, LocalInv
    <3>2. QED
      BY <2>3, <3>1, FlushBalance DEF FlushLocal
  <2>4. ASSUME NEW t \in Threads, NEW h \in Hash, DropLocal(t, h) \/ BeginRemove(t, h)
        PROVE  NothingLost'
    BY <2>4, ForgetBalance DEF DropLocal, BeginRemove, RemoveLocal
  <2>5. ASSUME NEW t \in Threads, BeginFlush(t) \/ BeginDrop(t) \/ Done(t)
        PROVE  NothingLost'
    BY <2>5, AloneBalance DEF BeginFlush, BeginDrop, Done, shared, locals
  <2>6. ASSUME NEW t \in Threads, DeleteShared(t)
        PROVE  NothingLost'
    BY <2>6, AloneBalance DEF DeleteShared, Vec!Delete, locals
  <2>7. ASSUME NEW R \in SUBSET Hash, DeleteByUser(R)
        PROVE  NothingLost'
    BY <2>7, AloneBalance DEF DeleteByUser, Vec!Delete, locals
  <2>8. ASSUME NEW t \in Threads, NEW h \in Hash, StartTimer(t, h) \/ StartLocalTimer(t, h)
        PROVE  NothingLost'
    BY <2>8, StartBalance
  <2>9. ASSUME NEW t \in Threads, Record(t) \/ Discard(t) PROVE NothingLost'
    BY <2>9, StopBalance
  <2>10. ASSUME NEW t \in Threads, DropTimer(t) PROVE NothingLost'
    BY <2>10, DropTimerBalance
  <2>11. CASE UNCHANGED vars
    BY <2>11, AloneBalance DEF vars, shared, locals
  <2>12. QED
    BY <2>1, <2>2, <2>3, <2>4, <2>5, <2>6, <2>7, <2>8, <2>9, <2>10, <2>11 DEF Next
<1>2. QED
  BY <1>1, InitBalance, TypeCorrect, LocalInvariance, PTL DEF Spec

\* The increments that are counted are never fewer than none: what is cleared or
\* thrown away was counted before.
THEOREM AddedIsNat == Spec => [](added \in Nat)
<1>1. TypeOK /\ NothingLost => added \in Nat
  <2> SUFFICES ASSUME TypeOK, NothingLost PROVE added \in Nat
    OBVIOUS
  <2>1. InVec \in Nat
    BY LocalVecAssumption, SumIsNat DEF TypeOK, InVec
  <2>2. [t \in Threads |-> Held(t)] \in [Threads -> Nat]
    <3> SUFFICES ASSUME NEW t \in Threads PROVE Held(t) \in Nat
      OBVIOUS
    <3>1. SumFunction(pending[t]) \in Nat
      BY LocalVecAssumption, SumIsNat DEF TypeOK
    <3>2. InTimer(t) \in Nat
      BY DEF TypeOK, TimerState, InTimer
    <3>3. QED
      BY <3>1, <3>2 DEF Held
  <2>3. InThreads \in Nat
    BY <2>2, LocalVecAssumption, SumIsNat DEF InThreads
  <2>4. added = InVec + InThreads
    BY DEF NothingLost, InVec, InThreads
  <2>5. QED
    BY <2>1, <2>3, <2>4
<1>2. QED
  BY <1>1, TypeCorrect, NoneIsLost, PTL

=============================================================================
