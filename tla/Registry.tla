------------------------------ MODULE Registry ------------------------------
(***************************************************************************)
(* RegistryCore of registry.rs under its read-write lock: collectors are     *)
(* registered descriptor by descriptor under the write lock, unregistered    *)
(* under the write lock, and gathered one by one under the read lock.        *)
(*                                                                          *)
(* register returns from the middle of its loop, so the loop is one step per *)
(* descriptor; an unregister returns before it changes anything and is one   *)
(* step.                                                                    *)
(***************************************************************************)
EXTENDS Naturals, Sequences, FiniteSetsExt

CONSTANTS
    Desc,       \* descriptors
    Name,       \* fully-qualified names
    Dim,        \* hashes of a help string and label names
    Collector,  \* collectors
    Gatherers,  \* threads that gather
    fqName,     \* Desc.fq_name
    id,         \* Desc.id, a hash of name and constant labels
    dimHash,    \* Desc.dim_hash
    descs,      \* descs[c]: what c.desc() returns, in its order
    WordSize,   \* 2^64 in the code
    None

ASSUME RegistryAssumption ==
    /\ fqName \in [Desc -> Name]
    /\ dimHash \in [Desc -> Dim]
    /\ id \in [Desc -> Nat]
    /\ descs \in [Collector -> Seq(Desc)]
    /\ None \notin Dim /\ None \notin Collector
    /\ WordSize \in Nat \ {0}

Ids == {id[d] : d \in Desc}
IdsOf(c) == {id[descs[c][i]] : i \in DOMAIN descs[c]}

\* The key of a collector in collectors_by_id: the wrapping sum of its ids.
CollectorId(S) == SumSet(S) % WordSize

\* The code takes collectors with the same sum to be the same collector.
ASSUME SumsAreDistinct ==
    \A S, T \in SUBSET Ids : CollectorId(S) = CollectorId(T) => S = T

VARIABLES
    registered,  \* the values of collectors_by_id
    dimHashes,   \* dim_hashes_by_name
    descIds,     \* desc_ids
    registering, \* the collector in register, which has the write lock, or None
    next,        \* its next descriptor
    descIdSet,   \* its desc_id_set
    gathering,   \* the threads in gather, which have the read lock
    left,        \* left[g]: the collectors g has still to call
    families,    \* families[g][n]: the samples of the family n, with their collector
    populated,   \* the descriptors whose metrics have at least one sample
    steady       \* history: steady[g], those populated ever since g began

loop == <<registering, next, descIdSet>>
gathers == <<gathering, left, families>>
vars == <<registered, dimHashes, descIds, loop, gathers, populated, steady>>

Init ==
    /\ registered = {}
    /\ dimHashes = [n \in Name |-> None]
    /\ descIds = {}
    /\ registering = None /\ next = 1 /\ descIdSet = {}
    /\ gathering = {}
    /\ left = [g \in Gatherers |-> {}]
    /\ families = [g \in Gatherers |-> [n \in Name |-> {}]]
    /\ populated = {}
    /\ steady = [g \in Gatherers |-> {}]

Readable == registering = None

\* Mutant: a writer does not wait for readers.
WritableAlways == registering = None

Writable == registering = None /\ gathering = {}

-----------------------------------------------------------------------------
BeginRegister(c) ==
    /\ Writable
    /\ registering' = c /\ next' = 1 /\ descIdSet' = {}
    /\ UNCHANGED <<registered, dimHashes, descIds, gathers, populated, steady>>

\* register returns and releases the lock.
Return == registering' = None /\ next' = 1 /\ descIdSet' = {}

\* The descriptor of this turn of the loop.
Current == descs[registering][next]

InLoop == registering # None /\ next \in DOMAIN descs[registering]

\* Mutant: desc_ids is not consulted.
KnownNever(d) == FALSE

Known(d) == id[d] \in descIds

Agrees(d) == dimHashes[fqName[d]] \in {None, dimHash[d]}

\* Error: AlreadyReg.
RefuseKnown ==
    /\ InLoop
    /\ Known(Current)
    /\ Return
    /\ UNCHANGED <<registered, dimHashes, descIds, gathers, populated, steady>>

\* Error: a previously registered descriptor with the same name has different
\* label names or a different help string.
RefuseMismatch ==
    /\ InLoop
    /\ ~Known(Current)
    /\ ~Agrees(Current)
    /\ Return
    /\ UNCHANGED <<registered, dimHashes, descIds, gathers, populated, steady>>

\* The name is remembered before the id is looked up in the collector's own.
RememberName ==
    /\ InLoop
    /\ ~Known(Current) /\ Agrees(Current)
    /\ dimHashes' = [dimHashes EXCEPT ![fqName[Current]] = dimHash[Current]]
    /\ UNCHANGED <<registered, descIds, gathers, populated, steady>>

\* Error: a duplicate descriptor within the same collector.
RefuseDuplicate ==
    /\ RememberName
    /\ id[Current] \in descIdSet
    /\ Return

AcceptDesc ==
    /\ RememberName
    /\ id[Current] \notin descIdSet
    /\ descIdSet' = descIdSet \cup {id[Current]}
    /\ next' = next + 1
    /\ UNCHANGED registering

\* Every descriptor is accepted; the entry of the collector id is vacant, or
\* occupied and the error is AlreadyReg.
EndRegister ==
    /\ registering # None /\ next \notin DOMAIN descs[registering]
    /\ \/ /\ \A c \in registered : CollectorId(IdsOf(c)) # CollectorId(descIdSet)
          /\ registered' = registered \cup {registering}
          /\ descIds' = descIds \cup descIdSet
       \/ /\ \E c \in registered : CollectorId(IdsOf(c)) = CollectorId(descIdSet)
          /\ UNCHANGED <<registered, descIds>>
    /\ Return
    /\ UNCHANGED <<dimHashes, gathers, populated, steady>>

\* Mutant: unregister forgets the names of the collector, too.
NamesAfterUnregisterForgotten(c) ==
    [n \in Name |-> IF \E i \in DOMAIN descs[c] : fqName[descs[c][i]] = n THEN None
                    ELSE dimHashes[n]]

\* dim_hashes_by_name is left untouched.
NamesAfterUnregister(c) == dimHashes

\* Without such a collector unregister returns an error and changes nothing.
Unregister(c) ==
    LET same == {b \in registered : CollectorId(IdsOf(b)) = CollectorId(IdsOf(c))} IN
    /\ Writable
    /\ same # {}
    /\ registered' = registered \ same
    /\ descIds' = descIds \ IdsOf(c)
    /\ dimHashes' = NamesAfterUnregister(c)
    /\ UNCHANGED <<loop, gathers, populated, steady>>

-----------------------------------------------------------------------------
BeginGather(g) ==
    /\ Readable
    /\ g \notin gathering
    /\ gathering' = gathering \cup {g}
    /\ left' = [left EXCEPT ![g] = registered]
    /\ steady' = [steady EXCEPT ![g] = populated]
    /\ UNCHANGED <<registered, dimHashes, descIds, loop, families, populated>>

\* What c.collect() gives for the family n; a family without samples is pruned.
SamplesOf(c, n) ==
    {<<c, i>> : i \in {j \in DOMAIN descs[c] :
                          fqName[descs[c][j]] = n /\ descs[c][j] \in populated}}

\* Samples are appended to a family of the same name.
Merged(old, new) == old \cup new

\* gather calls one more collector, in the order of the hash map.
Collect(g, c) ==
    /\ g \in gathering
    /\ c \in left[g]
    /\ families' = [families EXCEPT ![g] =
                      [n \in Name |-> Merged(families[g][n], SamplesOf(c, n))]]
    /\ left' = [left EXCEPT ![g] = @ \ {c}]
    /\ UNCHANGED <<registered, dimHashes, descIds, loop, gathering, populated, steady>>

EndGather(g) ==
    /\ g \in gathering
    /\ left[g] = {}
    /\ gathering' = gathering \ {g}
    /\ families' = [families EXCEPT ![g] = [n \in Name |-> {}]]
    /\ steady' = [steady EXCEPT ![g] = {}]
    /\ UNCHANGED <<registered, dimHashes, descIds, loop, left, populated>>

\* The first child of a vector is created, or its last one removed; neither
\* takes the registry's lock.
Populate(d) ==
    /\ d \notin populated
    /\ populated' = populated \cup {d}
    /\ UNCHANGED <<registered, dimHashes, descIds, loop, gathers, steady>>

Empty(d) ==
    /\ d \in populated
    /\ populated' = populated \ {d}
    /\ steady' = [g \in Gatherers |-> steady[g] \ {d}]
    /\ UNCHANGED <<registered, dimHashes, descIds, loop, gathers>>

Next ==
    \/ \E c \in Collector : BeginRegister(c) \/ Unregister(c)
    \/ RefuseKnown \/ RefuseMismatch \/ RefuseDuplicate \/ AcceptDesc \/ EndRegister
    \/ \E g \in Gatherers :
        \/ BeginGather(g)
        \/ \E c \in Collector : Collect(g, c)
        \/ EndGather(g)
    \/ \E d \in Desc : Populate(d) \/ Empty(d)

Spec == Init /\ [][Next]_vars

-----------------------------------------------------------------------------
\* The shapes of the maps, the loop and the gathers.
TypeOK ==
    /\ registered \in SUBSET Collector
    /\ dimHashes \in [Name -> Dim \cup {None}]
    /\ descIds \in SUBSET Ids
    /\ registering \in Collector \cup {None}
    /\ next \in Nat
    /\ descIdSet \in SUBSET Ids
    /\ gathering \in SUBSET Gatherers
    /\ left \in [Gatherers -> SUBSET Collector]
    /\ families \in [Gatherers -> [Name -> SUBSET (Collector \X Nat)]]
    /\ populated \in SUBSET Desc
    /\ steady \in [Gatherers -> SUBSET Desc]
    /\ \A g \in gathering : registering = None /\ left[g] \subseteq registered

\* desc_ids has exactly the ids of the registered collectors, whatever was
\* refused half way or unregistered in between.
DescIdsExact == descIds = UNION {IdsOf(c) : c \in registered}

\* Registered descriptors of the same name, of any collectors and registered
\* at any time, have the same label names and help string.
DimensionsAgree ==
    \A b, c \in registered : \A i \in DOMAIN descs[b], j \in DOMAIN descs[c] :
        fqName[descs[b][i]] = fqName[descs[c][j]]
            => dimHash[descs[b][i]] = dimHash[descs[c][j]]

\* gather, on two samples of a family with the same labels: "we should never
\* arrive here".
NoDuplicateSamples ==
    \A g \in gathering, n \in Name : \A x, y \in families[g][n] :
        id[descs[x[1]][x[2]]] = id[descs[y[1]][y[2]]] => x = y

\* A gather has, in the family of its name, every metric of the collectors it
\* has called that was there all the while, and nothing of an unregistered one.
GatherIsComplete ==
    \A g \in gathering :
        /\ \A n \in Name : \A x \in families[g][n] : x[1] \in registered
        /\ \A c \in registered \ left[g] : \A i \in DOMAIN descs[c] :
              descs[c][i] \in steady[g] => <<c, i>> \in families[g][fqName[descs[c][i]]]

-----------------------------------------------------------------------------
(***************************************************************************)
(* The inductive invariant behind them.                                     *)
(***************************************************************************)

\* A collector has no two descriptors with one id among its first k, and their
\* names have their dimensions.
Distinct(c, k) ==
    \A i, j \in DOMAIN descs[c] :
        (i < k /\ j < k /\ id[descs[c][i]] = id[descs[c][j]]) => i = j

Remembered(c, k) ==
    \A i \in DOMAIN descs[c] :
        i < k => dimHashes[fqName[descs[c][i]]] = dimHash[descs[c][i]]

LoopInv ==
    registering # None =>
        /\ next \in 1..(Len(descs[registering]) + 1)
        /\ descIdSet = {id[descs[registering][i]] : i \in 1..(next - 1)}
        /\ descIdSet \cap descIds = {}
        /\ Distinct(registering, next)
        /\ Remembered(registering, next)

RegisteredInv ==
    /\ DescIdsExact
    /\ \A b, c \in registered : b # c => IdsOf(b) \cap IdsOf(c) = {}
    /\ \A c \in registered : Distinct(c, Len(descs[c]) + 1) /\ Remembered(c, Len(descs[c]) + 1)

SamplesInv ==
    \A g \in Gatherers, n \in Name : \A x \in families[g][n] :
        g \in gathering /\ x[1] \in registered /\ x[2] \in DOMAIN descs[x[1]]

RegistryInv == LoopInv /\ RegisteredInv /\ SamplesInv

\* What was populated all the while is populated now.
GatherInv ==
    /\ \A g \in Gatherers : steady[g] \subseteq populated
    /\ GatherIsComplete

=============================================================================
