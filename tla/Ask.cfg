\* Two documents, topics and views; every statement over them.
CONSTANTS
    Documents = {d1, d2}
    Topics = {t1, t2}
    Views = {v1, v2}
    Other = Other
    MaxRelinks = 1
SPECIFICATION Spec
SYMMETRY AskSymmetry
INVARIANTS
    ScopeIsHonest
    GuessesFindSomething
CHECK_DEADLOCK FALSE
