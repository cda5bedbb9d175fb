SPECIFICATION Spec
CONSTANTS
    Threads = {t1, t2}
    Counters = {1}
    Histograms = {2}
    Interval = 2
    Lag = 1
    MaxClock = 4
    MaxIncs = 3
SYMMETRY Alike
INVARIANTS
    Conserved
PROPERTIES
    StalenessBounded
    FlushesApart
