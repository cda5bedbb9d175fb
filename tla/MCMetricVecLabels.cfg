SPECIFICATION Spec
CONSTANTS
    Users = {u1, u2}
    Scrapers = {}
    Labels <- TwoLabels
    Metric = {m1, m2}
    MaxValue = 1
    None = None
INVARIANTS
    HandleHasItsLabels
