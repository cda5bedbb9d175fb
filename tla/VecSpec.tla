------------------------------- MODULE VecSpec -------------------------------
(***************************************************************************)
(* What a metric vector promises its users, however its lookup is done: a   *)
(* call for a metric takes effect at one instant, at which it returns the   *)
(* child of its labels and creates it only if there is none; a child that   *)
(* is removed stays with those who hold it, and its successor is new.       *)
(***************************************************************************)
EXTENDS Naturals

CONSTANTS
    Users,      \* those who can hold a metric
    Hash,       \* hashes of label values
    Metric,
    None        \* no metric

VARIABLES
    children,   \* children[h]: the child with that hash, or None
    value,      \* value[m]: what the metric holds
    handle      \* handle[u]: the metric that u holds, or None

vecVars == <<children, value, handle>>

VecInit ==
    /\ children = [h \in Hash |-> None]
    /\ value = [m \in Metric |-> 0]
    /\ handle = [u \in Users |-> None]

\* A metric that nothing refers to and nothing was added to.
New(m) ==
    /\ \A h \in Hash : children[h] # m
    /\ \A u \in Users : handle[u] # m
    /\ value[m] = 0

\* The call of u for the metric with hash h returns m.
Get(u, h, m) ==
    /\ children[h] = m \/ (children[h] = None /\ New(m))
    /\ children' = [children EXCEPT ![h] = m]
    /\ handle' = [handle EXCEPT ![u] = m]
    /\ UNCHANGED value

Release(u) ==
    /\ handle' = [handle EXCEPT ![u] = None]
    /\ UNCHANGED <<children, value>>

Add(u) ==
    /\ handle[u] # None
    /\ value' = [value EXCEPT ![handle[u]] = @ + 1]
    /\ UNCHANGED <<children, handle>>

\* The children with a hash of R are removed.
Delete(R) ==
    /\ children' = [h \in Hash |-> IF h \in R THEN None ELSE children[h]]
    /\ UNCHANGED <<value, handle>>

VecNext ==
    \/ \E u \in Users :
        \/ \E h \in Hash, m \in Metric : Get(u, h, m)
        \/ Release(u) \/ Add(u)
    \/ \E R \in SUBSET Hash : Delete(R)

VecSpecification == VecInit /\ [][VecNext]_vecVars

=============================================================================
