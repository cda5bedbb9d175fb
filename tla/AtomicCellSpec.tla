--------------------------- MODULE AtomicCellSpec ---------------------------
(***************************************************************************)
(* What a cell of atomic64.rs promises: a store, a load and a swap happen   *)
(* at one instant, and an increment changes the value once, at an instant   *)
(* between its call and its return.                                         *)
(***************************************************************************)
CONSTANTS
    Threads,
    Values,     \* the bit patterns of a number
    Add(_, _),  \* the addition of the number's type, rounding included
    Zero,       \* its zero
    None        \* no increment is under way, no value was returned

VARIABLES
    value,
    pending,    \* pending[t]: what the inc_by running in t has still to add
    returned    \* returned[t]: what t's last load or swap returned

specVars == <<value, pending, returned>>

SpecInit ==
    /\ value = Zero
    /\ pending = [t \in Threads |-> None]
    /\ returned = [t \in Threads |-> None]

Begin(t, d) ==
    /\ pending[t] = None
    /\ pending' = [pending EXCEPT ![t] = d]
    /\ UNCHANGED <<value, returned>>

Apply(t) ==
    /\ pending[t] # None
    /\ value' = Add(value, pending[t])
    /\ pending' = [pending EXCEPT ![t] = None]
    /\ UNCHANGED returned

Store(t, v) ==
    /\ pending[t] = None
    /\ value' = v
    /\ UNCHANGED <<pending, returned>>

Load(t) ==
    /\ pending[t] = None
    /\ returned' = [returned EXCEPT ![t] = value]
    /\ UNCHANGED <<value, pending>>

Exchange(t, v) ==
    /\ pending[t] = None
    /\ returned' = [returned EXCEPT ![t] = value]
    /\ value' = v
    /\ UNCHANGED pending

SpecNext ==
    \E t \in Threads :
        \/ \E d \in Values : Begin(t, d)
        \/ Apply(t)
        \/ \E v \in Values : Store(t, v) \/ Exchange(t, v)
        \/ Load(t)

CellSpec == SpecInit /\ [][SpecNext]_specVars

=============================================================================
