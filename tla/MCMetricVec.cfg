SPECIFICATION Spec
CONSTANTS
    Users = {u1, u2}
    Scrapers = {s1}
    Labels <- OneLabel
    Metric = {m1, m2, m3}
    MaxValue = 2
    None = None
SYMMETRY Alike
INVARIANTS
    HeldIsExported
    ExportIsFresh
PROPERTIES
    ImplementsVec
