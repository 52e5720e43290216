\* Two threads; quotas of 2 and 3 at a margin of 90% make capacities of 1 and 2.
CONSTANTS
    Callers = {t1, t2}
    Quotas = {2, 3}
    ConfiguredLimit = 3
    MarginPercent = 90
    WINDOW_SECONDS = 4
    WINDOW_OVERHANG_SECONDS = 1
    MAX_WAIT_SECONDS = 6
    MAX_TOTAL_WAIT_SECONDS = 10
SPECIFICATION FairSpec
INVARIANTS
    NoSleepPastASlot
PROPERTIES
    PacedGrants
    QuietAfterRefusal
    AcquireEnds
