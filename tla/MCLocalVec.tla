----------------------------- MODULE MCLocalVec -----------------------------
\* LocalVec on a small instance.
EXTENDS LocalVec, TLC

\* Metrics, label values and threads are interchangeable.
Alike == Permutations(Threads) \cup Permutations(Hash) \cup Permutations(Metric)

=============================================================================
