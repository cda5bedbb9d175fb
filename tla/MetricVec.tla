------------------------------ MODULE MetricVec ------------------------------
(***************************************************************************)
(* MetricVecCore of vec.rs: a map from the hash of label values to a child  *)
(* metric, under a read-write lock.  A user looks a child up under the read *)
(* lock and, when there is none, looks again and creates it under the write *)
(* lock; other users do the same, remove children, or reset the map; a      *)
(* scraper collects the children under the read lock.                       *)
(*                                                                          *)
(* A section under the write lock waits for nothing and is one step.  Only  *)
(* collect holds the read lock for more than one.  VecSpec is what all this *)
(* amounts to for a user.                                                   *)
(***************************************************************************)
EXTENDS Naturals, SequencesExt

CONSTANTS
    Users,      \* threads that use the vector
    Scrapers,   \* threads that collect it
    Labels,     \* the lists of label values in use, all of the right length
    Metric,     \* bound: the children that can be created
    MaxValue,   \* bound: how far a child is incremented
    None        \* no metric

ASSUME MetricVecAssumption == None \notin Metric /\ None \notin Labels /\ MaxValue \in Nat

\* hash_label_values writes the bytes of one value after the other to the
\* hasher, so the hash is that of their concatenation.  FNV itself is taken to
\* be injective.
HashLabelValues(vals) == FlattenSeq(vals)

Hash == {HashLabelValues(v) : v \in Labels}

VARIABLES
    children,   \* children[h]: the child with that hash, or None
    labelsOf,   \* labelsOf[m]: the labels m was created with, or None
    value,      \* value[m]: what the metric holds
    pc,         \* where each user is
    asked,      \* asked[u]: the label values of its last lookup
    handle,     \* handle[u]: the metric it returned
    scraping,   \* the scrapers that hold the read lock
    left,       \* left[s]: the children that s has still to visit
    sample,     \* sample[s][h]: what s has read of child h
    generation, \* history: how often a child with that hash was removed
    heldSince,  \* history: the generation of the user's handle
    credited,   \* history: the increments of the child's generation
    before      \* history: credited, when the scraper got the lock

users == <<pc, asked, handle, heldSince>>
scrapers == <<scraping, left, sample, before>>
vars == <<children, labelsOf, value, users, scrapers, generation, credited>>

\* MetricVec::create
Init ==
    /\ children = [h \in Hash |-> None]
    /\ labelsOf = [m \in Metric |-> None]
    /\ value = [m \in Metric |-> 0]
    /\ pc = [u \in Users |-> "idle"]
    /\ asked = [u \in Users |-> None]
    /\ handle = [u \in Users |-> None]
    /\ scraping = {}
    /\ left = [s \in Scrapers |-> {}]
    /\ sample = [s \in Scrapers |-> [h \in Hash |-> 0]]
    /\ generation = [h \in Hash |-> 0]
    /\ heldSince = [u \in Users |-> 0]
    /\ credited = [h \in Hash |-> 0]
    /\ before = [s \in Scrapers |-> [h \in Hash |-> 0]]

\* The call returns the child m of hash h.
Return(u, h, m) ==
    /\ handle' = [handle EXCEPT ![u] = m]
    /\ heldSince' = [heldSince EXCEPT ![u] = generation[h]]
    /\ pc' = [pc EXCEPT ![u] = "idle"]

\* get_metric_with_label_values under the read lock; get_metric_with puts the
\* values in the order of the variable labels and goes on the same way.
Lookup(u, vals) ==
    LET h == HashLabelValues(vals) IN
    /\ pc[u] = "idle"
    /\ asked' = [asked EXCEPT ![u] = vals]
    /\ \/ children[h] # None /\ Return(u, h, children[h])
       \/ /\ children[h] = None
          /\ handle' = [handle EXCEPT ![u] = None]
          /\ heldSince' = [heldSince EXCEPT ![u] = 0]
          /\ pc' = [pc EXCEPT ![u] = "create"]
    /\ UNCHANGED <<children, labelsOf, value, scrapers, generation, credited>>

Writable == scraping = {}

\* get_or_create_metric finds that another user has been faster.
FindCreated(u) ==
    LET h == HashLabelValues(asked[u]) IN
    /\ pc[u] = "create"
    /\ Writable
    /\ children[h] # None
    /\ Return(u, h, children[h])
    /\ UNCHANGED <<children, labelsOf, value, asked, scrapers, generation, credited>>

\* Mutant: get_or_create_metric does not look again.
MissingAlways(h) == TRUE

\* What get_or_create_metric finds under the write lock.
Missing(h) == children[h] = None

\* get_or_create_metric builds the child and inserts it.
Create(u, m) ==
    LET h == HashLabelValues(asked[u]) IN
    /\ pc[u] = "create"
    /\ Writable
    /\ Missing(h)
    /\ labelsOf[m] = None
    /\ labelsOf' = [labelsOf EXCEPT ![m] = asked[u]]
    /\ children' = [children EXCEPT ![h] = m]
    /\ Return(u, h, m)
    /\ UNCHANGED <<value, asked, scrapers, generation, credited>>

\* An increment through the handle: no lock, one atomic addition.
Inc(u) ==
    LET h == HashLabelValues(asked[u]) IN
    /\ pc[u] = "idle"
    /\ handle[u] # None
    /\ value[handle[u]] < MaxValue
    /\ value' = [value EXCEPT ![handle[u]] = @ + 1]
    /\ credited' = IF heldSince[u] = generation[h]
                   THEN [credited EXCEPT ![h] = @ + 1] ELSE credited
    /\ UNCHANGED <<children, labelsOf, users, scrapers, generation>>

\* Take the children with a hash of R out of the map.
Forget(R) ==
    /\ children' = [h \in Hash |-> IF h \in R THEN None ELSE children[h]]
    /\ generation' = [h \in Hash |-> IF h \in R THEN generation[h] + 1 ELSE generation[h]]
    /\ credited' = [h \in Hash |-> IF h \in R THEN 0 ELSE credited[h]]
    /\ UNCHANGED <<labelsOf, value, users, scrapers>>

\* delete_label_values and delete; without such a child they return an error
\* and change nothing.
DeleteLabelValues(vals) ==
    /\ Writable
    /\ children[HashLabelValues(vals)] # None
    /\ Forget({HashLabelValues(vals)})

Reset ==
    /\ Writable
    /\ Forget({h \in Hash : children[h] # None})

\* collect gets the read lock ...
BeginCollect(s) ==
    /\ s \notin scraping
    /\ scraping' = scraping \cup {s}
    /\ left' = [left EXCEPT ![s] = {h \in Hash : children[h] # None}]
    /\ before' = [before EXCEPT ![s] = credited]
    /\ UNCHANGED <<children, labelsOf, value, users, sample, generation, credited>>

\* ... reads the children in the order of the hash map ...
Visit(s, h) ==
    /\ s \in scraping
    /\ h \in left[s]
    /\ sample' = [sample EXCEPT ![s][h] = value[children[h]]]
    /\ left' = [left EXCEPT ![s] = @ \ {h}]
    /\ UNCHANGED <<children, labelsOf, value, users, scraping, before, generation, credited>>

\* ... and returns.
EndCollect(s) ==
    /\ s \in scraping
    /\ left[s] = {}
    /\ scraping' = scraping \ {s}
    /\ sample' = [sample EXCEPT ![s] = [h \in Hash |-> 0]]
    /\ before' = [before EXCEPT ![s] = [h \in Hash |-> 0]]
    /\ UNCHANGED <<children, labelsOf, value, users, left, generation, credited>>

Next ==
    \/ \E u \in Users :
        \/ \E vals \in Labels : Lookup(u, vals)
        \/ FindCreated(u)
        \/ \E m \in Metric : Create(u, m)
        \/ Inc(u)
    \/ \E vals \in Labels : DeleteLabelValues(vals)
    \/ Reset
    \/ \E s \in Scrapers :
        \/ BeginCollect(s)
        \/ \E h \in Hash : Visit(s, h)
        \/ EndCollect(s)

Spec == Init /\ [][Next]_vars

-----------------------------------------------------------------------------
\* The shapes of the map, of the metrics and of the calls' locals.
TypeOK ==
    /\ children \in [Hash -> Metric \cup {None}]
    /\ labelsOf \in [Metric -> Labels \cup {None}]
    /\ value \in [Metric -> Nat]
    /\ pc \in [Users -> {"idle", "create"}]
    /\ asked \in [Users -> Labels \cup {None}]
    /\ handle \in [Users -> Metric \cup {None}]
    /\ scraping \in SUBSET Scrapers
    /\ left \in [Scrapers -> SUBSET Hash]
    /\ sample \in [Scrapers -> [Hash -> Nat]]
    /\ generation \in [Hash -> Nat]
    /\ heldSince \in [Users -> Nat]
    /\ credited \in [Hash -> Nat]
    /\ before \in [Scrapers -> [Hash -> Nat]]
    /\ \A u \in Users : (pc[u] = "create" \/ handle[u] # None) => asked[u] \in Labels
    /\ \A s \in scraping : \A h \in left[s] : children[h] # None

\* A handle is the exported child for as long as no child of its labels is
\* removed: two users that look the same labels up at the same time never get
\* two metrics, one of which would not be exported.
HeldIsExported ==
    \A u \in Users : handle[u] # None =>
        LET h == HashLabelValues(asked[u]) IN
        heldSince[u] = generation[h] => children[h] = handle[u]

\* What a scrape reads of a child has every increment, by any user, that was
\* done on it before the scrape got the lock, and none from before the child
\* was created or after it was read.
ExportIsFresh ==
    \A s \in scraping, h \in Hash :
        (children[h] # None /\ h \notin left[s])
            => before[s][h] <= sample[s][h] /\ sample[s][h] <= credited[h]

\* vec.rs: the vector "returns the Metric for the given slice of label values".
HandleHasItsLabels ==
    \A u \in Users : handle[u] # None => labelsOf[handle[u]] = asked[u]

Vec == INSTANCE VecSpec

\* A call for a metric, with its lookup under one lock and its creation under
\* another, does what one at a single instant would: it returns the child that is
\* exported then, and creates it only if there is none and out of nothing.
ImplementsVec == Vec!VecSpecification

-----------------------------------------------------------------------------
(***************************************************************************)
(* The inductive invariant behind HeldIsExported and ExportIsFresh.         *)
(***************************************************************************)

\* A child holds what was added to it since its labels were last removed.
ChildInv ==
    \A h \in Hash :
        /\ children[h] = None => credited[h] = 0
        /\ children[h] # None => /\ value[children[h]] = credited[h]
                                 /\ labelsOf[children[h]] # None
                                 /\ HashLabelValues(labelsOf[children[h]]) = h

UncreatedInv == \A m \in Metric : labelsOf[m] = None => value[m] = 0

\* A handle is the child of its hash, or a removed one.
HandleInv ==
    \A u \in Users : handle[u] # None =>
        LET h == HashLabelValues(asked[u]) IN
        /\ labelsOf[handle[u]] # None
        /\ HashLabelValues(labelsOf[handle[u]]) = h
        /\ heldSince[u] <= generation[h]
        /\ heldSince[u] < generation[h] => children[h] # handle[u]
        /\ heldSince[u] = generation[h] => children[h] = handle[u]

ScrapeInv == \A s \in scraping, h \in Hash : before[s][h] <= credited[h]

VecInv == ChildInv /\ UncreatedInv /\ HandleInv /\ ScrapeInv /\ ExportIsFresh

=============================================================================
