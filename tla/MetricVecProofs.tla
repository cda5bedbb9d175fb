-------------------------- MODULE MetricVecProofs --------------------------
(***************************************************************************)
(* A metric vector exports what its handles count, for any number of users, *)
(* scrapers, children and label values, whether or not the hashes of the    *)
(* label values collide.                                                    *)
(***************************************************************************)
EXTENDS MetricVec, TLAPS

LEMMA HashOfLabels == \A v \in Labels : HashLabelValues(v) \in Hash
BY DEF Hash

LEMMA StrictlyLess == \A a, b \in Nat : a <= b /\ a # b => a < b
OBVIOUS

\* The map, the metrics and the locals of the calls keep their shapes.
THEOREM TypeCorrect == Spec => []TypeOK
<1>1. Init => TypeOK
  BY DEF Init, TypeOK
<1>2. TypeOK /\ [Next]_vars => TypeOK'
  <2> SUFFICES ASSUME TypeOK, [Next]_vars PROVE TypeOK'
    OBVIOUS
  <2> USE MetricVecAssumption, HashOfLabels DEF TypeOK, users, scrapers
  <2>1. ASSUME NEW u \in Users, NEW vals \in Labels, Lookup(u, vals) PROVE TypeOK'
    <3>1. CASE children[HashLabelValues(vals)] = None
      <4>1. /\ asked' = [asked EXCEPT ![u] = vals]
            /\ handle' = [handle EXCEPT ![u] = None]
            /\ heldSince' = [heldSince EXCEPT ![u] = 0]
            /\ pc' = [pc EXCEPT ![u] = "create"]
            /\ UNCHANGED <<children, labelsOf, value, scrapers, generation, credited>>
        BY <2>1, <3>1 DEF Lookup
      <4>2. \A v \in Users : (pc'[v] = "create" \/ handle'[v] # None) => asked'[v] \in Labels
        BY <4>1
      <4>3. QED
        BY <4>1, <4>2
    <3>2. CASE children[HashLabelValues(vals)] # None
      BY <2>1, <3>2 DEF Lookup, Return
    <3>3. QED
      BY <3>1, <3>2
  <2>2. ASSUME NEW u \in Users, FindCreated(u) PROVE TypeOK'
    BY <2>2 DEF FindCreated, Return
  <2>3. ASSUME NEW u \in Users, NEW m \in Metric, Create(u, m) PROVE TypeOK'
    BY <2>3 DEF Create, Return, Writable
  <2>4. ASSUME NEW u \in Users, Inc(u) PROVE TypeOK'
    BY <2>4 DEF Inc
  <2>5. ASSUME NEW R \in SUBSET Hash, Writable, Forget(R) PROVE TypeOK'
    BY <2>5 DEF Writable, Forget
  <2>6. ASSUME NEW s \in Scrapers, BeginCollect(s) PROVE TypeOK'
    BY <2>6 DEF BeginCollect
  <2>7. ASSUME NEW s \in Scrapers, NEW h \in Hash, Visit(s, h) PROVE TypeOK'
    BY <2>7 DEF Visit
  <2>8. ASSUME NEW s \in Scrapers, EndCollect(s) PROVE TypeOK'
    BY <2>8 DEF EndCollect
  <2>9. CASE UNCHANGED vars
    BY <2>9 DEF vars
  <2>10. ASSUME NEW vals \in Labels, DeleteLabelValues(vals) PROVE TypeOK'
    <3>1. {HashLabelValues(vals)} \in SUBSET Hash
      OBVIOUS
    <3>2. QED
      BY <2>10, <3>1, <2>5 DEF DeleteLabelValues
  <2>11. CASE Reset
    <3>1. {h \in Hash : children[h] # None} \in SUBSET Hash
      OBVIOUS
    <3>2. QED
      BY <2>11, <3>1, <2>5 DEF Reset
  <2>12. QED
    BY <2>1, <2>2, <2>3, <2>4, <2>6, <2>7, <2>8, <2>9, <2>10, <2>11 DEF Next
<1>3. QED
  BY <1>1, <1>2, PTL DEF Spec
-----------------------------------------------------------------------------
\* A handle that is still current is the exported child; what a child of any
\* other hash holds is not changed through it.
LEMMA IncKeeps ==
    ASSUME TypeOK, VecInv, NEW u \in Users, Inc(u)
    PROVE  VecInv'
<1> DEFINE g == HashLabelValues(asked[u])
<1> USE MetricVecAssumption DEF TypeOK, users, scrapers
<1>1. /\ handle[u] \in Metric /\ asked[u] \in Labels /\ g \in Hash
      /\ labelsOf[handle[u]] # None /\ HashLabelValues(labelsOf[handle[u]]) = g
      /\ heldSince[u] <= generation[g]
      /\ heldSince[u] < generation[g] => children[g] # handle[u]
      /\ heldSince[u] = generation[g] => children[g] = handle[u]
  BY HashOfLabels DEF Inc, VecInv, HandleInv
<1>2. /\ value' = [value EXCEPT ![handle[u]] = @ + 1]
      /\ credited' = IF heldSince[u] = generation[g]
                     THEN [credited EXCEPT ![g] = @ + 1] ELSE credited
      /\ UNCHANGED <<children, labelsOf, users, scrapers, generation>>
  BY DEF Inc
<1> HIDE DEF g
<1>3. ChildInv'
  <2> SUFFICES ASSUME NEW h \in Hash
               PROVE  /\ children[h] = None => credited'[h] = 0
                      /\ children[h] # None => /\ value'[children[h]] = credited'[h]
                                               /\ labelsOf[children[h]] # None
                                               /\ HashLabelValues(labelsOf[children[h]]) = h
    BY <1>2 DEF ChildInv
  <2>1. /\ children[h] = None => credited[h] = 0
        /\ children[h] # None => /\ value[children[h]] = credited[h]
                                 /\ labelsOf[children[h]] # None
                                 /\ HashLabelValues(labelsOf[children[h]]) = h
    BY DEF VecInv, ChildInv
  <2>2. CASE h = g /\ heldSince[u] = generation[g]
    BY <2>1, <2>2, <1>1, <1>2
  <2>3. CASE ~(h = g /\ heldSince[u] = generation[g])
    <3>1. children[h] # handle[u]
      <4> SUFFICES ASSUME children[h] = handle[u] PROVE FALSE
        OBVIOUS
      <4>1. h = g
        BY <2>1, <1>1
      <4>2. heldSince[u] \in Nat /\ generation[g] \in Nat /\ heldSince[u] # generation[g]
        BY <2>3, <4>1, <1>1
      <4>3. heldSince[u] < generation[g]
        BY <4>2, <1>1, StrictlyLess
      <4>4. QED
        BY <4>1, <4>3, <1>1
    <3>2. credited'[h] = credited[h]
      BY <2>3, <1>1, <1>2
    <3>3. children[h] # None => value'[children[h]] = value[children[h]]
      BY <3>1, <1>1, <1>2
    <3>4. QED
      BY <2>1, <3>2, <3>3
  <2>4. QED
    BY <2>2, <2>3
<1>4. UncreatedInv'
  BY <1>1, <1>2 DEF VecInv, UncreatedInv
<1>5. HandleInv'
  BY <1>2 DEF VecInv, HandleInv
<1>6. \A h \in Hash : credited'[h] >= credited[h] /\ credited'[h] \in Nat
  BY <1>1, <1>2
<1>7. ScrapeInv'
  BY <1>2, <1>6 DEF VecInv, ScrapeInv
<1>8. ExportIsFresh'
  BY <1>2, <1>6 DEF VecInv, ExportIsFresh
<1>9. QED
  BY <1>3, <1>4, <1>5, <1>7, <1>8 DEF VecInv

\* A child is created only when its hash has none, so no handle of that
\* generation is out, and no scrape is under way.
LEMMA CreateKeeps ==
    ASSUME TypeOK, VecInv, NEW u \in Users, NEW m \in Metric, Create(u, m)
    PROVE  VecInv'
<1> DEFINE g == HashLabelValues(asked[u])
<1> USE MetricVecAssumption DEF TypeOK, users, scrapers
<1>1. /\ asked[u] \in Labels /\ g \in Hash /\ children[g] = None
      /\ scraping = {} /\ labelsOf[m] = None /\ value[m] = 0 /\ credited[g] = 0
  BY HashOfLabels DEF Create, Writable, Missing, VecInv, ChildInv, UncreatedInv
<1>2. /\ labelsOf' = [labelsOf EXCEPT ![m] = asked[u]]
      /\ children' = [children EXCEPT ![g] = m]
      /\ handle' = [handle EXCEPT ![u] = m]
      /\ heldSince' = [heldSince EXCEPT ![u] = generation[g]]
      /\ UNCHANGED <<value, asked, scrapers, generation, credited>>
  BY DEF Create, Return
<1>3. HashLabelValues(asked[u]) = g
  OBVIOUS
<1> HIDE DEF g
<1>4. ChildInv'
  <2> SUFFICES ASSUME NEW h \in Hash
               PROVE  /\ children'[h] = None => credited[h] = 0
                      /\ children'[h] # None =>
                           /\ value[children'[h]] = credited[h]
                           /\ labelsOf'[children'[h]] # None
                           /\ HashLabelValues(labelsOf'[children'[h]]) = h
    BY <1>2 DEF ChildInv
  <2>1. CASE h = g
    BY <2>1, <1>1, <1>2, <1>3
  <2>2. CASE h # g
    BY <2>2, <1>1, <1>2 DEF VecInv, ChildInv
  <2>3. QED
    BY <2>1, <2>2
<1>5. UncreatedInv'
  BY <1>1, <1>2 DEF VecInv, UncreatedInv
<1>6. HandleInv'
  <2> SUFFICES ASSUME NEW v \in Users, handle'[v] # None, NEW h, h = HashLabelValues(asked[v])
               PROVE  /\ labelsOf'[handle'[v]] # None
                      /\ HashLabelValues(labelsOf'[handle'[v]]) = h
                      /\ heldSince'[v] <= generation[h]
                      /\ heldSince'[v] < generation[h] => children'[h] # handle'[v]
                      /\ heldSince'[v] = generation[h] => children'[h] = handle'[v]
    BY <1>2 DEF HandleInv
  <2>1. CASE v = u
    BY <2>1, <1>1, <1>2, <1>3
  <2>2. CASE v # u
    <3>1. handle'[v] = handle[v] /\ heldSince'[v] = heldSince[v] /\ handle[v] \in Metric
      BY <2>2, <1>2
    <3>2. h \in Hash
      BY <3>1, HashOfLabels
    <3>3. /\ labelsOf[handle[v]] # None
          /\ HashLabelValues(labelsOf[handle[v]]) = h
          /\ heldSince[v] <= generation[h]
          /\ heldSince[v] < generation[h] => children[h] # handle[v]
          /\ heldSince[v] = generation[h] => children[h] = handle[v]
      BY <3>1 DEF VecInv, HandleInv
    <3>4. labelsOf'[handle[v]] = labelsOf[handle[v]] /\ handle[v] # m
      BY <3>1, <3>3, <1>1, <1>2
    <3>5. h = g => heldSince[v] < generation[h]
      <4>1. heldSince[v] \in Nat /\ generation[h] \in Nat
        BY <3>2
      <4>2. h = g => heldSince[v] # generation[h]
        BY <3>1, <3>3, <1>1
      <4>3. QED
        BY <4>1, <4>2, <3>3, StrictlyLess
    <3>6. QED
      BY <3>1, <3>2, <3>3, <3>4, <3>5, <1>1, <1>2
  <2>3. QED
    BY <2>1, <2>2
<1>7. ScrapeInv' /\ ExportIsFresh'
  BY <1>1, <1>2 DEF ScrapeInv, ExportIsFresh
<1>8. QED
  BY <1>4, <1>5, <1>6, <1>7 DEF VecInv

LEMMA ForgetKeeps ==
    ASSUME TypeOK, VecInv, NEW R \in SUBSET Hash, Writable, Forget(R)
    PROVE  VecInv'
<1> USE MetricVecAssumption DEF TypeOK, users, scrapers
<1>1. ChildInv'
  BY DEF Forget, VecInv, ChildInv
<1>2. UncreatedInv'
  BY DEF Forget, VecInv, UncreatedInv
<1>3. HandleInv'
  <2> SUFFICES ASSUME NEW v \in Users, handle[v] # None, NEW h, h = HashLabelValues(asked[v])
               PROVE  /\ labelsOf[handle[v]] # None
                      /\ HashLabelValues(labelsOf[handle[v]]) = h
                      /\ heldSince[v] <= generation'[h]
                      /\ heldSince[v] < generation'[h] => children'[h] # handle[v]
                      /\ heldSince[v] = generation'[h] => children'[h] = handle[v]
    BY DEF HandleInv, Forget
  <2>1. h \in Hash
    BY HashOfLabels
  <2>2. /\ labelsOf[handle[v]] # None
        /\ HashLabelValues(labelsOf[handle[v]]) = h
        /\ heldSince[v] <= generation[h]
        /\ heldSince[v] < generation[h] => children[h] # handle[v]
        /\ heldSince[v] = generation[h] => children[h] = handle[v]
    BY DEF VecInv, HandleInv
  <2>3. QED
    BY <2>1, <2>2 DEF Forget
<1>4. ScrapeInv' /\ ExportIsFresh'
  BY DEF Writable, Forget, ScrapeInv, ExportIsFresh
<1>5. QED
  BY <1>1, <1>2, <1>3, <1>4 DEF VecInv

\* A user that returns with the child of the hash it asked for.
LEMMA ReturnKeeps ==
    ASSUME TypeOK, VecInv, NEW u \in Users, NEW vals \in Labels,
           asked' = [asked EXCEPT ![u] = vals],
           children[HashLabelValues(vals)] # None,
           Return(u, HashLabelValues(vals), children[HashLabelValues(vals)]),
           UNCHANGED <<children, labelsOf, value, scrapers, generation, credited>>
    PROVE  VecInv'
<1> USE MetricVecAssumption, HashOfLabels DEF TypeOK, users, scrapers
<1>1. ChildInv' /\ UncreatedInv' /\ ScrapeInv' /\ ExportIsFresh'
  BY DEF VecInv, ChildInv, UncreatedInv, ScrapeInv, ExportIsFresh
<1>2. HandleInv'
  BY DEF VecInv, HandleInv, ChildInv, Return
<1>3. QED
  BY <1>1, <1>2 DEF VecInv

LEMMA VecInvariance == Spec => []VecInv
<1>1. Init => VecInv
  BY DEF Init, VecInv, ChildInv, UncreatedInv, HandleInv, ScrapeInv, ExportIsFresh
<1>2. TypeOK /\ VecInv /\ [Next]_vars => VecInv'
  <2> SUFFICES ASSUME TypeOK, VecInv, [Next]_vars PROVE VecInv'
    OBVIOUS
  <2> USE MetricVecAssumption, HashOfLabels DEF TypeOK, users, scrapers
  <2>1. ASSUME NEW u \in Users, NEW vals \in Labels, Lookup(u, vals) PROVE VecInv'
    <3>1. CASE children[HashLabelValues(vals)] # None
      BY <2>1, <3>1, ReturnKeeps DEF Lookup
    <3>2. CASE children[HashLabelValues(vals)] = None
      <4>1. /\ asked' = [asked EXCEPT ![u] = vals]
            /\ handle' = [handle EXCEPT ![u] = None]
            /\ heldSince' = [heldSince EXCEPT ![u] = 0]
            /\ UNCHANGED <<children, labelsOf, value, scrapers, generation, credited>>
        BY <2>1, <3>2 DEF Lookup
      <4>2. ChildInv' /\ UncreatedInv' /\ ScrapeInv' /\ ExportIsFresh'
        BY <4>1 DEF VecInv, ChildInv, UncreatedInv, ScrapeInv, ExportIsFresh
      <4>3. HandleInv'
        BY <4>1 DEF VecInv, HandleInv
      <4>4. QED
        BY <4>2, <4>3 DEF VecInv
    <3>3. QED
      BY <3>1, <3>2
  <2>2. ASSUME NEW u \in Users, FindCreated(u) PROVE VecInv'
    <3>1. asked[u] \in Labels /\ asked' = [asked EXCEPT ![u] = asked[u]]
      BY <2>2 DEF FindCreated
    <3>2. QED
      BY <2>2, <3>1, ReturnKeeps DEF FindCreated
  <2>3. ASSUME NEW s \in Scrapers, BeginCollect(s) PROVE VecInv'
    <3>1. ChildInv' /\ UncreatedInv' /\ HandleInv'
      BY <2>3 DEF BeginCollect, VecInv, ChildInv, UncreatedInv, HandleInv
    <3>2. ScrapeInv' /\ ExportIsFresh'
      BY <2>3 DEF BeginCollect, VecInv, ScrapeInv, ExportIsFresh
    <3>3. QED
      BY <3>1, <3>2 DEF VecInv
  <2>4. ASSUME NEW s \in Scrapers, NEW h \in Hash, Visit(s, h) PROVE VecInv'
    <3>1. ChildInv' /\ UncreatedInv' /\ HandleInv' /\ ScrapeInv'
      BY <2>4 DEF Visit, VecInv, ChildInv, UncreatedInv, HandleInv, ScrapeInv
    <3>2. sample'[s][h] = credited[h] /\ before[s][h] <= credited[h]
      BY <2>4 DEF Visit, VecInv, ChildInv, ScrapeInv
    <3>3. ExportIsFresh'
      BY <2>4, <3>2 DEF Visit, VecInv, ExportIsFresh
    <3>4. QED
      BY <3>1, <3>3 DEF VecInv
  <2>5. ASSUME NEW s \in Scrapers, EndCollect(s) PROVE VecInv'
    <3>1. ChildInv' /\ UncreatedInv' /\ HandleInv'
      BY <2>5 DEF EndCollect, VecInv, ChildInv, UncreatedInv, HandleInv
    <3>2. ScrapeInv' /\ ExportIsFresh'
      BY <2>5 DEF EndCollect, VecInv, ScrapeInv, ExportIsFresh
    <3>3. QED
      BY <3>1, <3>2 DEF VecInv
  <2>6. ASSUME NEW vals \in Labels, DeleteLabelValues(vals) PROVE VecInv'
    <3>1. {HashLabelValues(vals)} \in SUBSET Hash
      OBVIOUS
    <3>2. QED
      BY <2>6, <3>1, ForgetKeeps DEF DeleteLabelValues
  <2>7. CASE Reset
    <3>1. {h \in Hash : children[h] # None} \in SUBSET Hash
      OBVIOUS
    <3>2. QED
      BY <2>7, <3>1, ForgetKeeps DEF Reset
  <2>8. CASE UNCHANGED vars
    BY <2>8 DEF vars, VecInv, ChildInv, UncreatedInv, HandleInv, ScrapeInv, ExportIsFresh
  <2>9. QED
    BY <2>1, <2>2, <2>3, <2>4, <2>5, <2>6, <2>7, <2>8, IncKeeps, CreateKeeps DEF Next
<1>3. QED
  BY <1>1, <1>2, TypeCorrect, PTL DEF Spec

\* Two lookups of the same labels never leave a user with a metric that is not
\* exported, unless the child has been removed.
THEOREM HeldExported == Spec => []HeldIsExported
<1>1. VecInv => HeldIsExported
  BY DEF VecInv, HandleInv, HeldIsExported
<1>2. QED
  BY <1>1, VecInvariance, PTL

\* A scrape reads every increment that preceded it.
THEOREM ExportFresh == Spec => []ExportIsFresh
<1>1. VecInv => ExportIsFresh
  BY DEF VecInv
<1>2. QED
  BY <1>1, VecInvariance, PTL

\* Every step of the vector is a step of the abstract one or leaves it alone.
LEMMA StepRefines ==
    TypeOK /\ VecInv /\ [Next]_vars => [Vec!VecNext]_<<children, value, handle>>
<1> SUFFICES ASSUME TypeOK, VecInv, [Next]_vars
             PROVE  [Vec!VecNext]_<<children, value, handle>>
  OBVIOUS
<1> USE MetricVecAssumption DEF TypeOK, users
<1>1. ASSUME NEW u \in Users, NEW vals \in Labels, Lookup(u, vals) PROVE Vec!VecNext
  <2> DEFINE h == HashLabelValues(vals)
  <2>1. h \in Hash
    BY HashOfLabels
  <2>2. CASE children[h] # None
    <3>1. children[h] \in Metric
      BY <2>1, <2>2
    <3>2. Vec!Get(u, h, children[h])
      BY <1>1, <2>1, <2>2 DEF Lookup, Return, Vec!Get
    <3>3. QED
      BY <2>1, <3>1, <3>2 DEF Vec!VecNext
  <2>3. CASE children[h] = None
    <3>1. Vec!Release(u)
      BY <1>1, <2>3 DEF Lookup, Vec!Release
    <3>2. QED
      BY <3>1 DEF Vec!VecNext
  <2>4. QED
    BY <2>2, <2>3
<1>2. ASSUME NEW u \in Users, FindCreated(u) PROVE Vec!VecNext
  <2> DEFINE h == HashLabelValues(asked[u])
  <2>1. h \in Hash
    BY <1>2, HashOfLabels DEF FindCreated
  <2>2. children[h] \in Metric
    BY <1>2, <2>1 DEF FindCreated
  <2>3. Vec!Get(u, h, children[h])
    BY <1>2, <2>1 DEF FindCreated, Return, Vec!Get
  <2>4. QED
    BY <2>1, <2>2, <2>3 DEF Vec!VecNext
<1>3. ASSUME NEW u \in Users, NEW m \in Metric, Create(u, m) PROVE Vec!VecNext
  <2> DEFINE h == HashLabelValues(asked[u])
  <2>1. h \in Hash
    BY <1>3, HashOfLabels DEF Create
  <2>2. children[h] = None /\ labelsOf[m] = None
    BY <1>3 DEF Create, Missing
  <2>3. Vec!New(m)
    <3>1. \A g \in Hash : children[g] # m
      BY <2>2 DEF VecInv, ChildInv
    <3>2. \A v \in Users : handle[v] # m
      BY <2>2 DEF VecInv, HandleInv
    <3>3. value[m] = 0
      BY <2>2 DEF VecInv, UncreatedInv
    <3>4. QED
      BY <3>1, <3>2, <3>3 DEF Vec!New
  <2>4. Vec!Get(u, h, m)
    BY <1>3, <2>2, <2>3 DEF Create, Return, Vec!Get
  <2>5. QED
    BY <2>1, <2>4 DEF Vec!VecNext
<1>4. ASSUME NEW u \in Users, Inc(u) PROVE Vec!VecNext
  <2>1. Vec!Add(u)
    BY <1>4 DEF Inc, Vec!Add
  <2>2. QED
    BY <2>1 DEF Vec!VecNext
<1>5. ASSUME NEW R \in SUBSET Hash, Forget(R) PROVE Vec!VecNext
  <2>1. Vec!Delete(R)
    BY <1>5 DEF Forget, Vec!Delete
  <2>2. QED
    BY <2>1 DEF Vec!VecNext
<1>6. ASSUME NEW vals \in Labels, DeleteLabelValues(vals) PROVE Vec!VecNext
  <2>1. {HashLabelValues(vals)} \in SUBSET Hash
    BY HashOfLabels
  <2>2. QED
    BY <1>5, <1>6, <2>1 DEF DeleteLabelValues
<1>7. CASE Reset
  <2>1. {h \in Hash : children[h] # None} \in SUBSET Hash
    OBVIOUS
  <2>2. QED
    BY <1>5, <1>7, <2>1 DEF Reset
<1>8. ASSUME NEW s \in Scrapers,
             BeginCollect(s) \/ EndCollect(s) \/ \E h \in Hash : Visit(s, h)
      PROVE UNCHANGED <<children, value, handle>>
  BY <1>8 DEF BeginCollect, EndCollect, Visit
<1>9. CASE UNCHANGED vars
  BY <1>9 DEF vars
<1>10. QED
  BY <1>1, <1>2, <1>3, <1>4, <1>6, <1>7, <1>8, <1>9 DEF Next, Vec!vecVars

\* The two locked sections of a lookup are one step for whoever asks for a
\* metric: the vector implements the abstract one.
THEOREM Refinement == Spec => ImplementsVec
<1>1. Init => Vec!VecInit
  BY DEF Init, Vec!VecInit
<1>2. QED
  BY <1>1, StepRefines, TypeCorrect, VecInvariance, PTL
  DEF Spec, ImplementsVec, Vec!VecSpecification, Vec!vecVars

=============================================================================
