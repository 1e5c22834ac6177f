SPECIFICATION Spec
CONSTANTS
    Schedule = {1}
    Ticker = {t1}
    Interval = 1
    Deletion = Deletion
    None = None
INVARIANTS
    NeverWaitOnEachOther
CHECK_DEADLOCK FALSE
