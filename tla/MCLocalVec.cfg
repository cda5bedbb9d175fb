SPECIFICATION Spec
CONSTANTS
    Threads = {t1, t2}
    Hash = {h1, h2}
    Metric = {m1, m2, m3}
    MaxAdded = 2
    MaxTimers = 1
    Kinds = {"counter", "histogram"}
    None = None
SYMMETRY Alike
INVARIANT NothingLost
INVARIANT LocalIsExported
