SPECIFICATION FairSpec
CONSTANTS
    Callers = {t1, t2, t3}
    Updater = updater
    MaxClock = 3
INVARIANTS
    RecentCoversAnswers
    OneUpdater
PROPERTIES
    ImplementsTimer
    RecentCatchesUp
