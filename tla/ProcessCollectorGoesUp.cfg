SPECIFICATION ProcessSpec
CONSTANTS
    Scrapers = {s1, s2}
    CountRange = 8
    MaxTime = 3
PROPERTIES
    CpuOnlyGoesUp
