---------------------------- MODULE HistogramSpec ----------------------------
(***************************************************************************)
(* What a histogram promises to its users, whatever its implementation: an  *)
(* observation (or a flushed batch of them) is recorded at one instant, a   *)
(* collect takes all that is recorded at one instant, and what the collect  *)
(* returns is the count, sum and cumulative buckets of exactly that set.    *)
(***************************************************************************)
EXTENDS HistogramData

CONSTANTS Collectors, NoResult

VARIABLES
    observed,   \* the observations recorded so far
    taken,      \* taken[c]: what the collect running in c returns
    result      \* result[c]: what the last collect of c returned

specVars == <<observed, taken, result>>

SpecInit ==
    /\ observed = {}
    /\ taken = [c \in Collectors |-> NoResult]
    /\ result = [c \in Collectors |-> NoResult]

Record(B) ==
    /\ B \cap observed = {}
    /\ observed' = observed \cup B
    /\ UNCHANGED <<taken, result>>

Begin(c) ==
    /\ taken' = [taken EXCEPT ![c] = NoResult]
    /\ result' = [result EXCEPT ![c] = NoResult]
    /\ UNCHANGED observed

Take(c) ==
    /\ taken[c] = NoResult
    /\ taken' = [taken EXCEPT ![c] = observed]
    /\ UNCHANGED <<observed, result>>

Return(c) ==
    /\ taken[c] # NoResult
    /\ result[c] = NoResult
    /\ result' = [result EXCEPT ![c] = Snapshot(taken[c])]
    /\ UNCHANGED <<observed, taken>>

SpecNext ==
    \/ \E B \in SUBSET Obs : Record(B)
    \/ \E c \in Collectors : Begin(c) \/ Take(c) \/ Return(c)

AbstractSpec == SpecInit /\ [][SpecNext]_specVars

=============================================================================
