\* Two polls outstanding, two messages under way.
CONSTANTS
    Requests = {r1, r2}
    MaxWire = 2
SPECIFICATION FairSpec
INVARIANTS
    StopsAfterTheRow
PROPERTIES
    TabSettles
    TabLearnsOfDeletion
CHECK_DEADLOCK FALSE
