--------------------------- MODULE RegistryProofs ---------------------------
(***************************************************************************)
(* The registry's bookkeeping is exact for any collectors and descriptors,   *)
(* as long as different sets of descriptor ids have different wrapping sums. *)
(***************************************************************************)
EXTENDS Registry, ProcessCollector, TLAPS

LEMMA IdsOfCollector == \A c \in Collector : IdsOf(c) \in SUBSET Ids
BY RegistryAssumption DEF IdsOf, Ids

LEMMA CurrentDesc ==
    ASSUME TypeOK, InLoop
    PROVE  /\ registering \in Collector /\ next \in DOMAIN descs[registering]
           /\ Current \in Desc /\ id[Current] \in Ids
           /\ fqName[Current] \in Name /\ dimHash[Current] \in Dim
BY RegistryAssumption DEF TypeOK, InLoop, Current, Ids

\* The maps, the loop of register and the gathers keep their shapes, and
\* nothing is registered or unregistered during a gather.
THEOREM TypeCorrect == Spec => []TypeOK
<1>1. Init => TypeOK
  BY DEF Init, TypeOK
<1>2. TypeOK /\ [Next]_vars => TypeOK'
  <2> SUFFICES ASSUME TypeOK, [Next]_vars PROVE TypeOK'
    OBVIOUS
  <2> USE RegistryAssumption DEF TypeOK, loop, gathers
  <2>1. ASSUME NEW c \in Collector, BeginRegister(c) PROVE TypeOK'
    BY <2>1 DEF BeginRegister, Writable
  <2>2. ASSUME NEW c \in Collector, Unregister(c) PROVE TypeOK'
    BY <2>2 DEF Unregister, Writable, NamesAfterUnregister
  <2>3. CASE RefuseKnown
    BY <2>3 DEF RefuseKnown, InLoop, Return
  <2>4. CASE RefuseMismatch
    BY <2>4 DEF RefuseMismatch, InLoop, Return
  <2>5. CASE RefuseDuplicate
    BY <2>5, CurrentDesc DEF RefuseDuplicate, RememberName, Return
  <2>6. CASE AcceptDesc
    <3>1. dimHashes' \in [Name -> Dim \cup {None}] /\ descIdSet' \in SUBSET Ids /\ next' \in Nat
      BY <2>6, CurrentDesc DEF AcceptDesc, RememberName
    <3>2. QED
      BY <2>6, <3>1, CurrentDesc DEF AcceptDesc, RememberName
  <2>7. CASE EndRegister
    <3>1. registering \in Collector /\ gathering = {}
      BY <2>7 DEF EndRegister
    <3>2. QED
      BY <2>7, <3>1 DEF EndRegister, Return
  <2>8. ASSUME NEW g \in Gatherers, BeginGather(g) PROVE TypeOK'
    BY <2>8 DEF BeginGather, Readable
  <2>9. ASSUME NEW g \in Gatherers, NEW c \in Collector, Collect(g, c) PROVE TypeOK'
    <3>1. \A n \in Name : Merged(families[g][n], SamplesOf(c, n)) \in SUBSET (Collector \X Nat)
      BY DEF Merged, SamplesOf
    <3>2. families' \in [Gatherers -> [Name -> SUBSET (Collector \X Nat)]]
      BY <2>9, <3>1 DEF Collect
    <3>3. QED
      BY <2>9, <3>2 DEF Collect
  <2>10. ASSUME NEW g \in Gatherers, EndGather(g) PROVE TypeOK'
    BY <2>10 DEF EndGather
  <2>11. ASSUME NEW d \in Desc, Populate(d) PROVE TypeOK'
    BY <2>11 DEF Populate
  <2>12. ASSUME NEW d \in Desc, Empty(d) PROVE TypeOK'
    BY <2>12 DEF Empty
  <2>13. CASE UNCHANGED vars
    BY <2>13 DEF vars
  <2>14. QED
    BY <2>1, <2>2, <2>3, <2>4, <2>5, <2>6, <2>7, <2>8, <2>9, <2>10, <2>11, <2>12, <2>13 DEF Next
<1>3. QED
  BY <1>1, <1>2, PTL DEF Spec

-----------------------------------------------------------------------------
(***************************************************************************)
(* The inductive invariant.                                                 *)
(***************************************************************************)

\* A name that has a dimension keeps it when a descriptor is accepted.
LEMMA NamesStay ==
    ASSUME TypeOK, RememberName
    PROVE  \A n \in Name : dimHashes[n] # None => dimHashes'[n] = dimHashes[n]
<1>1. /\ Agrees(Current) /\ fqName[Current] \in Name
      /\ dimHashes' = [dimHashes EXCEPT ![fqName[Current]] = dimHash[Current]]
  BY CurrentDesc DEF RememberName
<1>2. QED
  BY <1>1 DEF Agrees, TypeOK

LEMMA RegisteredStay ==
    ASSUME TypeOK, RegisteredInv, RememberName
    PROVE  RegisteredInv'
<1>1. UNCHANGED <<registered, descIds>>
  BY DEF RememberName
<1>2. DescIdsExact' /\ (\A b, c \in registered' : b # c => IdsOf(b) \cap IdsOf(c) = {})
  BY <1>1 DEF RegisteredInv, DescIdsExact
<1>3. ASSUME NEW c \in registered, NEW i \in DOMAIN descs[c], i < Len(descs[c]) + 1
      PROVE  dimHashes'[fqName[descs[c][i]]] = dimHash[descs[c][i]]
  <2>1. dimHashes[fqName[descs[c][i]]] = dimHash[descs[c][i]]
    BY <1>3 DEF RegisteredInv, Remembered
  <2>2. fqName[descs[c][i]] \in Name /\ dimHash[descs[c][i]] # None
    BY RegistryAssumption DEF TypeOK
  <2>3. QED
    BY <2>1, <2>2, NamesStay
<1>4. \A c \in registered' : Distinct(c, Len(descs[c]) + 1) /\ Remembered(c, Len(descs[c]) + 1)'
  BY <1>1, <1>3 DEF RegisteredInv, Remembered
<1>5. QED
  BY <1>2, <1>4 DEF RegisteredInv

\* The loop of register goes on with one more id, one more name.
LEMMA AcceptKeepsLoop ==
    ASSUME TypeOK, LoopInv, AcceptDesc
    PROVE  LoopInv'
<1> DEFINE c == registering
<1>1. /\ c \in Collector /\ c # None /\ next \in DOMAIN descs[c] /\ Current = descs[c][next]
      /\ id[Current] \notin descIdSet /\ id[Current] \notin descIds
      /\ descIdSet' = descIdSet \cup {id[Current]} /\ next' = next + 1
      /\ UNCHANGED <<registering, descIds>>
      /\ dimHashes' = [dimHashes EXCEPT ![fqName[Current]] = dimHash[Current]]
      /\ fqName[Current] \in Name /\ RememberName
  BY CurrentDesc, RegistryAssumption DEF AcceptDesc, RememberName, InLoop, Current, Known
<1>2. /\ descs[c] \in Seq(Desc) /\ next \in 1..Len(descs[c])
      /\ DOMAIN descs[c] = 1..Len(descs[c]) /\ Len(descs[c]) \in Nat
  BY <1>1, RegistryAssumption
<1>3. /\ descIdSet = {id[descs[c][i]] : i \in 1..(next - 1)}
      /\ descIdSet \cap descIds = {} /\ Distinct(c, next) /\ Remembered(c, next)
  BY <1>1 DEF LoopInv
<1>4. descIdSet' = {id[descs[c][i]] : i \in 1..(next' - 1)}
  <2>1. 1..(next' - 1) = (1..(next - 1)) \cup {next}
    BY <1>1, <1>2
  <2>2. QED
    BY <1>1, <1>3, <2>1
<1>5. Distinct(c, next + 1)
  <2> SUFFICES ASSUME NEW i \in 1..Len(descs[c]), NEW j \in 1..Len(descs[c]),
                      i < next + 1, j < next + 1, id[descs[c][i]] = id[descs[c][j]]
               PROVE  i = j
    BY <1>2 DEF Distinct
  <2>1. CASE i < next /\ j < next
    BY <2>1, <1>2, <1>3 DEF Distinct
  <2>2. CASE i = next /\ j < next
    <3>1. j \in 1..(next - 1)
      BY <2>2, <1>2
    <3>2. QED
      BY <3>1, <2>2, <1>1, <1>3
  <2>3. CASE j = next /\ i < next
    <3>1. i \in 1..(next - 1)
      BY <2>3, <1>2
    <3>2. QED
      BY <3>1, <2>3, <1>1, <1>3
  <2>4. QED
    BY <2>1, <2>2, <2>3, <1>2
<1>6. Remembered(registering, next)'
  <2> SUFFICES ASSUME NEW i \in 1..Len(descs[c]), i < next + 1
               PROVE  dimHashes'[fqName[descs[c][i]]] = dimHash[descs[c][i]]
    BY <1>1, <1>2 DEF Remembered
  <2>1. CASE i = next
    BY <2>1, <1>1 DEF TypeOK
  <2>2. CASE i < next
    <3>1. dimHashes[fqName[descs[c][i]]] = dimHash[descs[c][i]]
      BY <2>2, <1>2, <1>3 DEF Remembered
    <3>2. fqName[descs[c][i]] \in Name /\ dimHash[descs[c][i]] # None
      BY <1>2, RegistryAssumption
    <3>3. QED
      BY <3>1, <3>2, <1>1, NamesStay
  <2>3. QED
    BY <2>1, <2>2, <1>2
<1>7. next' \in 1..(Len(descs[c]) + 1)
  BY <1>1, <1>2
<1>8. descIdSet' \cap descIds' = {}
  BY <1>1, <1>3
<1>9. Distinct(registering', next')
  BY <1>1, <1>5
<1>10. QED
  BY <1>1, <1>4, <1>6, <1>7, <1>8, <1>9 DEF LoopInv

\* A collector whose loop is over is registered with the ids it has gathered.
LEMMA EndKeeps ==
    ASSUME TypeOK, RegistryInv, EndRegister
    PROVE  RegistryInv'
<1> DEFINE c == registering
<1>1. /\ c \in Collector /\ c # None /\ gathering = {} /\ next \notin DOMAIN descs[c]
      /\ registering' = None /\ UNCHANGED <<dimHashes, gathering>>
  BY RegistryAssumption DEF EndRegister, TypeOK, Return, gathers
<1>2. next = Len(descs[c]) + 1 /\ DOMAIN descs[c] = 1..Len(descs[c])
  <2>1. /\ descs[c] \in Seq(Desc) /\ DOMAIN descs[c] = 1..Len(descs[c])
        /\ next \in 1..(Len(descs[c]) + 1)
    BY <1>1, RegistryAssumption DEF RegistryInv, LoopInv
  <2>2. QED
    BY <1>1, <2>1
<1>3. /\ descIdSet = IdsOf(c) /\ descIdSet \cap descIds = {}
      /\ Distinct(c, Len(descs[c]) + 1) /\ Remembered(c, Len(descs[c]) + 1)
  <2>1. next - 1 = Len(descs[c])
    BY <1>1, <1>2, RegistryAssumption
  <2>2. QED
    BY <1>1, <1>2, <2>1 DEF RegistryInv, LoopInv, IdsOf
<1>4. LoopInv' /\ SamplesInv'
  BY <1>1 DEF RegistryInv, LoopInv, SamplesInv, EndRegister, gathers
<1>5. CASE registered' = registered \cup {c} /\ descIds' = descIds \cup descIdSet
  <2>1. DescIdsExact'
    BY <1>3, <1>5 DEF RegistryInv, RegisteredInv, DescIdsExact
  <2>2. \A b \in registered : b # c => IdsOf(b) \cap IdsOf(c) = {}
    BY <1>3 DEF RegistryInv, RegisteredInv, DescIdsExact
  <2>3. \A a, b \in registered' : a # b => IdsOf(a) \cap IdsOf(b) = {}
    BY <1>5, <2>2 DEF RegistryInv, RegisteredInv
  <2>4. \A b \in registered' : Distinct(b, Len(descs[b]) + 1) /\ Remembered(b, Len(descs[b]) + 1)'
    BY <1>1, <1>3, <1>5 DEF RegistryInv, RegisteredInv, Remembered
  <2>5. QED
    BY <1>4, <2>1, <2>3, <2>4 DEF RegistryInv, RegisteredInv
<1>6. CASE UNCHANGED <<registered, descIds>>
  <2>1. RegisteredInv'
    BY <1>1, <1>6 DEF RegistryInv, RegisteredInv, DescIdsExact, Remembered
  <2>2. QED
    BY <1>4, <2>1 DEF RegistryInv
<1>7. QED
  BY <1>5, <1>6 DEF EndRegister

\* Unregistering takes the ids of the removed collector and no others.
LEMMA UnregisterKeeps ==
    ASSUME TypeOK, RegistryInv, NEW c \in Collector, Unregister(c)
    PROVE  RegistryInv'
<1>1. /\ registering = None /\ gathering = {} /\ UNCHANGED <<registering, gathering, dimHashes>>
      /\ registered' = registered \ {b \in registered : CollectorId(IdsOf(b)) = CollectorId(IdsOf(c))}
      /\ descIds' = descIds \ IdsOf(c)
  BY DEF Unregister, Writable, NamesAfterUnregister, loop, gathers
<1>2. \A b \in registered : CollectorId(IdsOf(b)) = CollectorId(IdsOf(c)) <=> IdsOf(b) = IdsOf(c)
  BY SumsAreDistinct, IdsOfCollector DEF TypeOK
<1>3. registered' = {b \in registered : IdsOf(b) # IdsOf(c)}
  BY <1>1, <1>2
<1>4. \E a \in registered : IdsOf(a) = IdsOf(c)
  BY <1>2 DEF Unregister
<1>5. \A b \in registered' : IdsOf(b) \cap IdsOf(c) = {}
  <2>1. PICK a \in registered : IdsOf(a) = IdsOf(c)
    BY <1>4
  <2>2. QED
    BY <1>3, <2>1 DEF RegistryInv, RegisteredInv
<1>6. DescIdsExact'
  BY <1>1, <1>3, <1>5 DEF RegistryInv, RegisteredInv, DescIdsExact
<1>7. RegisteredInv'
  BY <1>1, <1>3, <1>6 DEF RegistryInv, RegisteredInv, Remembered
<1>8. LoopInv'
  BY <1>1 DEF LoopInv
<1>9. SamplesInv'
  BY <1>1 DEF RegistryInv, SamplesInv, Unregister, gathers
<1>10. QED
  BY <1>7, <1>8, <1>9 DEF RegistryInv

LEMMA RegistryInvariance == Spec => []RegistryInv
<1>1. Init => RegistryInv
  BY DEF Init, RegistryInv, LoopInv, RegisteredInv, DescIdsExact, SamplesInv
<1>2. TypeOK /\ RegistryInv /\ [Next]_vars => RegistryInv'
  <2> SUFFICES ASSUME TypeOK, RegistryInv, [Next]_vars PROVE RegistryInv'
    OBVIOUS
  <2> USE RegistryAssumption DEF loop, gathers
  <2>1. ASSUME UNCHANGED <<registered, dimHashes, descIds>> PROVE RegisteredInv'
    BY <2>1 DEF RegistryInv, RegisteredInv, DescIdsExact, Remembered
  <2>2. ASSUME UNCHANGED <<loop, descIds, dimHashes>> PROVE LoopInv'
    BY <2>2 DEF RegistryInv, LoopInv, Remembered
  <2>3. ASSUME UNCHANGED <<registered, gathering, families>> PROVE SamplesInv'
    BY <2>3 DEF RegistryInv, SamplesInv
  <2>4. ASSUME NEW c \in Collector, BeginRegister(c) PROVE RegistryInv'
    <3>1. /\ registering' = c /\ next' = 1 /\ descIdSet' = {}
          /\ UNCHANGED <<registered, dimHashes, descIds, gathering, families>>
      BY <2>4 DEF BeginRegister
    <3>2. descs[c] \in Seq(Desc) /\ DOMAIN descs[c] = 1..Len(descs[c]) /\ Len(descs[c]) \in Nat
      OBVIOUS
    <3>3. Distinct(c, 1) /\ Remembered(c, 1)' /\ {id[descs[c][i]] : i \in 1..(1 - 1)} = {}
      BY <3>2 DEF Distinct, Remembered
    <3>4. LoopInv'
      BY <3>1, <3>2, <3>3 DEF LoopInv
    <3>5. QED
      BY <3>1, <3>4, <2>1, <2>3 DEF RegistryInv
  <2>5. CASE RefuseKnown \/ RefuseMismatch
    BY <2>5, <2>1, <2>3 DEF RefuseKnown, RefuseMismatch, Return, RegistryInv, LoopInv
  <2>6. CASE RefuseDuplicate
    <3>1. RememberName /\ registering' = None /\ UNCHANGED <<registered, gathering, families>>
      BY <2>6 DEF RefuseDuplicate, RememberName, Return
    <3>2. QED
      BY <3>1, <2>3, RegisteredStay DEF RegistryInv, LoopInv
  <2>7. CASE AcceptDesc
    <3>1. RememberName /\ UNCHANGED <<registered, gathering, families>>
      BY <2>7 DEF AcceptDesc, RememberName
    <3>2. QED
      BY <2>7, <3>1, <2>3, RegisteredStay, AcceptKeepsLoop DEF RegistryInv
  <2>8. ASSUME NEW g \in Gatherers, BeginGather(g) PROVE RegistryInv'
    <3>1. SamplesInv'
      BY <2>8 DEF BeginGather, SamplesInv, RegistryInv
    <3>2. QED
      BY <2>8, <3>1, <2>1, <2>2 DEF BeginGather, RegistryInv
  <2>9. ASSUME NEW g \in Gatherers, NEW c \in Collector, Collect(g, c) PROVE RegistryInv'
    <3>1. c \in registered /\ UNCHANGED <<registered, dimHashes, descIds, loop, gathering>>
      BY <2>9 DEF Collect, TypeOK
    <3>2. \A f \in Gatherers, n \in Name : \A x \in families'[f][n] :
             x \in families[f][n] \/ x \in SamplesOf(c, n)
      BY <2>9 DEF Collect, Merged, TypeOK
    <3>3. \A n \in Name : \A x \in SamplesOf(c, n) : x[1] = c /\ x[2] \in DOMAIN descs[c]
      BY DEF SamplesOf
    <3>4. SamplesInv'
      <4>1. \A f \in Gatherers : f \notin gathering => families'[f] = families[f]
        BY <2>9 DEF Collect, TypeOK
      <4>2. QED
        BY <3>1, <3>2, <3>3, <4>1 DEF SamplesInv, RegistryInv
    <3>5. QED
      BY <3>1, <3>4, <2>1, <2>2 DEF RegistryInv
  <2>10. ASSUME NEW g \in Gatherers, EndGather(g) PROVE RegistryInv'
    <3>1. SamplesInv'
      BY <2>10 DEF EndGather, SamplesInv, RegistryInv, TypeOK
    <3>2. QED
      BY <2>10, <3>1, <2>1, <2>2 DEF EndGather, RegistryInv
  <2>11. ASSUME NEW d \in Desc, Populate(d) \/ Empty(d) PROVE RegistryInv'
    BY <2>11, <2>1, <2>2, <2>3 DEF Populate, Empty, RegistryInv
  <2>12. CASE UNCHANGED vars
    BY <2>12, <2>1, <2>2, <2>3 DEF vars, RegistryInv
  <2>13. QED
    BY <2>4, <2>5, <2>6, <2>7, <2>8, <2>9, <2>10, <2>11, <2>12, EndKeeps, UnregisterKeeps DEF Next
<1>3. QED
  BY <1>1, <1>2, TypeCorrect, PTL DEF Spec

\* desc_ids is exactly the ids of the registered collectors.
THEOREM IdsExact == Spec => []DescIdsExact
<1>1. RegistryInv => DescIdsExact
  BY DEF RegistryInv, RegisteredInv
<1>2. QED
  BY <1>1, RegistryInvariance, PTL

\* No two registered descriptors of a name differ in label names or help.
THEOREM DimensionsSame == Spec => []DimensionsAgree
<1>1. TypeOK /\ RegistryInv => DimensionsAgree
  <2> SUFFICES ASSUME TypeOK, RegistryInv, NEW b \in registered, NEW c \in registered,
                      NEW i \in DOMAIN descs[b], NEW j \in DOMAIN descs[c],
                      fqName[descs[b][i]] = fqName[descs[c][j]]
               PROVE  dimHash[descs[b][i]] = dimHash[descs[c][j]]
    BY DEF DimensionsAgree
  <2>1. i < Len(descs[b]) + 1 /\ j < Len(descs[c]) + 1
    BY RegistryAssumption DEF TypeOK
  <2>2. QED
    BY <2>1 DEF RegistryInv, RegisteredInv, Remembered
<1>2. QED
  BY <1>1, RegistryInvariance, TypeCorrect, PTL

\* A gather never has two samples with the same name and labels.
THEOREM NoDuplicates == Spec => []NoDuplicateSamples
<1>1. TypeOK /\ RegistryInv => NoDuplicateSamples
  <2> SUFFICES ASSUME TypeOK, RegistryInv, NEW g \in gathering, NEW n \in Name,
                      NEW x \in families[g][n], NEW y \in families[g][n],
                      id[descs[x[1]][x[2]]] = id[descs[y[1]][y[2]]]
               PROVE  x = y
    BY DEF NoDuplicateSamples
  <2>1. /\ x[1] \in registered /\ x[2] \in DOMAIN descs[x[1]] /\ x = <<x[1], x[2]>>
        /\ y[1] \in registered /\ y[2] \in DOMAIN descs[y[1]] /\ y = <<y[1], y[2]>>
    BY DEF TypeOK, RegistryInv, SamplesInv
  <2>2. x[1] = y[1]
    BY <2>1 DEF RegistryInv, RegisteredInv, IdsOf
  <2>3. /\ x[2] < Len(descs[x[1]]) + 1 /\ y[2] < Len(descs[y[1]]) + 1
    BY <2>1, RegistryAssumption DEF TypeOK
  <2>4. x[2] = y[2]
    BY <2>1, <2>2, <2>3 DEF RegistryInv, RegisteredInv, Distinct
  <2>5. QED
    BY <2>1, <2>2, <2>4
<1>2. QED
  BY <1>1, RegistryInvariance, TypeCorrect, PTL

-----------------------------------------------------------------------------
\* Nothing is registered or unregistered while a thread gathers, so what the
\* thread has called and what it has still to call are all that is registered.
LEMMA RegisteredWhileGathering ==
    ASSUME TypeOK, NEW g \in gathering,
           \/ \E c \in Collector : BeginRegister(c) \/ Unregister(c)
           \/ RefuseKnown \/ RefuseMismatch \/ RefuseDuplicate \/ AcceptDesc \/ EndRegister
    PROVE  FALSE
<1>1. registering = None /\ gathering # {}
  BY DEF TypeOK
<1>2. QED
  BY <1>1 DEF BeginRegister, Unregister, Writable, RefuseKnown, RefuseMismatch, RefuseDuplicate,
              AcceptDesc, RememberName, InLoop, EndRegister

\* One more collector is called: what it has had all the while is among its
\* samples, and what the family had before stays.
LEMMA CollectKeepsGather ==
    ASSUME TypeOK, GatherInv, NEW g \in Gatherers, NEW c \in Collector, Collect(g, c)
    PROVE  GatherInv'
<1>1. /\ g \in gathering /\ c \in left[g] /\ c \in registered
      /\ UNCHANGED <<registered, gathering, populated, steady>>
      /\ left' = [left EXCEPT ![g] = @ \ {c}]
  BY DEF Collect, TypeOK
<1>2. \A f \in Gatherers, n \in Name :
         families'[f][n] = IF f = g THEN families[g][n] \cup SamplesOf(c, n) ELSE families[f][n]
  BY DEF Collect, Merged, TypeOK
<1>3. \A n \in Name : \A x \in SamplesOf(c, n) : x[1] = c
  BY DEF SamplesOf
<1>4. ASSUME NEW f \in gathering', NEW n \in Name, NEW x \in families'[f][n]
      PROVE  x[1] \in registered'
  <2>1. f \in gathering /\ f \in Gatherers
    BY <1>1 DEF TypeOK
  <2>2. x \in families[f][n] \/ x \in SamplesOf(c, n)
    BY <1>2, <1>4, <2>1
  <2>3. x \in families[f][n] => x[1] \in registered
    BY <2>1 DEF GatherInv, GatherIsComplete
  <2>4. QED
    BY <1>1, <1>3, <2>2, <2>3
<1>5. ASSUME NEW f \in gathering', NEW b \in registered' \ left'[f], NEW i \in DOMAIN descs[b],
             descs[b][i] \in steady'[f]
      PROVE  <<b, i>> \in families'[f][fqName[descs[b][i]]]
  <2>1. /\ f \in gathering /\ f \in Gatherers /\ b \in registered /\ b \in Collector
        /\ descs[b][i] \in steady[f] /\ descs[b][i] \in populated
        /\ fqName[descs[b][i]] \in Name
    BY <1>1, <1>5, RegistryAssumption DEF TypeOK, GatherInv
  <2>2. CASE b \notin left[f]
    <3>1. <<b, i>> \in families[f][fqName[descs[b][i]]]
      BY <2>1, <2>2 DEF GatherInv, GatherIsComplete
    <3>2. QED
      BY <1>2, <2>1, <3>1
  <2>3. CASE b \in left[f]
    <3>1. f = g /\ b = c
      BY <1>1, <1>5, <2>1, <2>3 DEF TypeOK
    <3>2. <<b, i>> \in SamplesOf(c, fqName[descs[b][i]])
      BY <2>1, <3>1 DEF SamplesOf
    <3>3. QED
      BY <1>2, <2>1, <3>1, <3>2
  <2>4. QED
    BY <2>2, <2>3
<1>6. \A f \in Gatherers : steady'[f] \subseteq populated'
  BY <1>1 DEF GatherInv
<1>7. QED
  BY <1>4, <1>5, <1>6 DEF GatherInv, GatherIsComplete

\* A gather has every metric that was there all the while of every collector it
\* has called, and nothing of a collector that is not registered.
THEOREM GatherComplete == Spec => []GatherIsComplete
<1>1. Init => GatherInv
  BY DEF Init, GatherInv, GatherIsComplete
<1>2. TypeOK /\ RegistryInv /\ GatherInv /\ [Next]_vars => GatherInv'
  <2> SUFFICES ASSUME TypeOK, RegistryInv, GatherInv, [Next]_vars PROVE GatherInv'
    OBVIOUS
  <2>1. ASSUME UNCHANGED <<registered, gathers, populated, steady>> PROVE GatherInv'
    BY <2>1 DEF GatherInv, GatherIsComplete, gathers
  <2>2. CASE \/ \E c \in Collector : BeginRegister(c) \/ Unregister(c)
             \/ RefuseKnown \/ RefuseMismatch \/ RefuseDuplicate \/ AcceptDesc \/ EndRegister
    <3>1. gathering = {}
      BY <2>2, RegisteredWhileGathering
    <3>2. UNCHANGED <<gathering, populated, steady>>
      BY <2>2 DEF BeginRegister, Unregister, RefuseKnown, RefuseMismatch, RefuseDuplicate,
                  AcceptDesc, RememberName, EndRegister, gathers
    <3>3. QED
      BY <3>1, <3>2 DEF GatherInv, GatherIsComplete
  <2>3. ASSUME NEW g \in Gatherers, BeginGather(g) PROVE GatherInv'
    <3>1. /\ gathering' = gathering \cup {g} /\ UNCHANGED <<registered, populated, families>>
          /\ left' = [left EXCEPT ![g] = registered]
          /\ steady' = [steady EXCEPT ![g] = populated] /\ g \notin gathering
      BY <2>3 DEF BeginGather
    <3>2. \A n \in Name : families[g][n] = {}
      BY <3>1, <2>3 DEF RegistryInv, SamplesInv
    <3>3. \A f \in Gatherers : steady'[f] \subseteq populated'
      BY <3>1 DEF GatherInv, TypeOK
    <3>4. \A f \in gathering' : f = g \/ (f \in gathering /\ left'[f] = left[f] /\ steady'[f] = steady[f])
      BY <3>1 DEF TypeOK
    <3>5. left'[g] = registered
      BY <3>1 DEF TypeOK
    <3>6. QED
      BY <3>1, <3>2, <3>3, <3>4, <3>5 DEF GatherInv, GatherIsComplete
  <2>4. ASSUME NEW g \in Gatherers, NEW c \in Collector, Collect(g, c) PROVE GatherInv'
    BY <2>4, CollectKeepsGather
  <2>5. ASSUME NEW g \in Gatherers, EndGather(g) PROVE GatherInv'
    <3>1. /\ gathering' = gathering \ {g} /\ UNCHANGED <<registered, populated, left>>
          /\ \A f \in Gatherers : f # g => families'[f] = families[f] /\ steady'[f] = steady[f]
          /\ steady'[g] = {}
      BY <2>5 DEF EndGather, TypeOK
    <3>2. \A f \in gathering' : f \in gathering /\ f # g /\ f \in Gatherers
      BY <3>1 DEF TypeOK
    <3>3. \A f \in Gatherers : steady'[f] \subseteq populated'
      BY <3>1 DEF GatherInv
    <3>4. QED
      BY <3>1, <3>2, <3>3 DEF GatherInv, GatherIsComplete
  <2>6. ASSUME NEW d \in Desc, Populate(d) PROVE GatherInv'
    BY <2>6 DEF Populate, gathers, GatherInv, GatherIsComplete
  <2>7. ASSUME NEW d \in Desc, Empty(d) PROVE GatherInv'
    <3>1. /\ UNCHANGED <<registered, gathers>> /\ populated' = populated \ {d}
          /\ \A f \in Gatherers : steady'[f] = steady[f] \ {d}
      BY <2>7 DEF Empty
    <3>2. \A f \in gathering : f \in Gatherers
      BY DEF TypeOK
    <3>3. QED
      BY <3>1, <3>2 DEF gathers, GatherInv, GatherIsComplete
  <2>8. CASE UNCHANGED vars
    BY <2>8, <2>1 DEF vars
  <2>9. QED
    BY <2>2, <2>3, <2>4, <2>5, <2>6, <2>7, <2>8 DEF Next
<1>3. GatherInv => GatherIsComplete
  BY DEF GatherInv
<1>4. QED
  BY <1>1, <1>2, <1>3, TypeCorrect, RegistryInvariance, PTL DEF Spec

-----------------------------------------------------------------------------
(***************************************************************************)
(* The process collector of the default registry: a scrape that nothing     *)
(* overlaps is exact, for any number of scrapers.                           *)
(***************************************************************************)

\* The wrapping difference is what brings the counter from b to a.
LEMMA WrapFacts ==
    ASSUME NEW a \in 0 .. CountRange - 1, NEW b \in 0 .. CountRange - 1
    PROVE  /\ Diff(a, b) \in 0 .. CountRange - 1
           /\ WrapAdd(b, Diff(a, b)) = a
           /\ WrapAdd(a, b) \in 0 .. CountRange - 1
BY ProcessAssumption DEF Diff, WrapAdd

\* The counter stays a word and the locals of collect keep their shapes.
THEOREM ProcessTypeCorrect == ProcessSpec => []ProcessTypeOK
<1>1. ProcessInit => ProcessTypeOK
  BY ProcessAssumption DEF ProcessInit, ProcessTypeOK
<1>2. ProcessTypeOK /\ [ProcessNext]_processVars => ProcessTypeOK'
  <2> SUFFICES ASSUME ProcessTypeOK, [ProcessNext]_processVars PROVE ProcessTypeOK'
    OBVIOUS
  <2> USE ProcessAssumption DEF ProcessTypeOK
  <2>1. CASE UseCpu
    BY <2>1 DEF UseCpu
  <2>2. ASSUME NEW s \in Scrapers, ReadStat(s) PROVE ProcessTypeOK'
    BY <2>2 DEF ReadStat
  <2>3. ASSUME NEW s \in Scrapers, ReadPast(s) PROVE ProcessTypeOK'
    BY <2>3 DEF ReadPast
  <2>4. ASSUME NEW s \in Scrapers, IncByDifference(s) PROVE ProcessTypeOK'
    <3>1. Diff(total[s], past[s]) \in 0 .. CountRange - 1
      <4>1. total[s] \in 0 .. CountRange - 1 /\ past[s] \in 0 .. CountRange - 1
        OBVIOUS
      <4>2. QED
        BY <4>1, WrapFacts
    <3>2. WrapAdd(cpuTotal, Diff(total[s], past[s])) \in 0 .. CountRange - 1
      BY <3>1, WrapFacts
    <3>3. QED
      BY <2>4, <3>2 DEF IncByDifference
  <2>5. ASSUME NEW s \in Scrapers, Export(s) PROVE ProcessTypeOK'
    BY <2>5 DEF Export
  <2>6. CASE UNCHANGED processVars
    BY <2>6 DEF processVars
  <2>7. QED
    BY <2>1, <2>2, <2>3, <2>4, <2>5, <2>6 DEF ProcessNext
<1>3. QED
  BY <1>1, <1>2, PTL DEF ProcessSpec

\* A collect that no other overlaps exports the CPU time it read, whatever the
\* counter held: it is alone from its first step to its last, so the counter
\* it adds to is the one it read, and the wrapping addition undoes the
\* wrapping difference.
THEOREM SoloScrape == ProcessSpec => []SoloScrapeIsExact
<1> DEFINE Inv == AloneInv /\ SoloScrapeIsExact
<1>1. ProcessInit => Inv
  BY DEF ProcessInit, AloneInv, SoloScrapeIsExact
<1>2. ProcessTypeOK /\ Inv /\ [ProcessNext]_processVars => Inv'
  <2> SUFFICES ASSUME ProcessTypeOK, Inv, [ProcessNext]_processVars PROVE Inv'
    OBVIOUS
  <2> USE DEF ProcessTypeOK, AloneInv, SoloScrapeIsExact
  <2>1. CASE UseCpu
    BY <2>1 DEF UseCpu
  <2>2. ASSUME NEW s \in Scrapers, ReadStat(s) PROVE Inv'
    BY <2>2 DEF ReadStat
  <2>3. ASSUME NEW s \in Scrapers, ReadPast(s) PROVE Inv'
    BY <2>3 DEF ReadPast
  <2>4. ASSUME NEW s \in Scrapers, IncByDifference(s) PROVE Inv'
    <3>1. alone[s] => cpuTotal' = total[s]
      <4>1. total[s] \in 0 .. CountRange - 1
        BY ProcessAssumption
      <4>2. QED
        BY <2>4, <4>1, WrapFacts DEF IncByDifference
    <3>2. QED
      BY <2>4, <3>1 DEF IncByDifference
  <2>5. ASSUME NEW s \in Scrapers, Export(s) PROVE Inv'
    BY <2>5 DEF Export
  <2>6. CASE UNCHANGED processVars
    BY <2>6 DEF processVars
  <2>7. QED
    BY <2>1, <2>2, <2>3, <2>4, <2>5, <2>6 DEF ProcessNext
<1>3. QED
  BY <1>1, <1>2, ProcessTypeCorrect, PTL DEF ProcessSpec

=============================================================================
