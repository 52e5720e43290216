\* Two documents of a batch, two topics, two requests at a time; the
\* schema of one document is edited.
CONSTANTS
    d1 = d1
    d2 = d2
    b1 = b1
    None = None
    Uncategorized = Uncategorized
    Documents = {d1, d2}
    Batches = {b1}
    BatchOf <- OneBatch
    WithSchema = {}
    Backfilled = {d1}
    Topics = {t1, t2}
    Requests = {r1, r2}
SPECIFICATION Spec
SYMMETRY LibrarySymmetry
INVARIANTS
    RowsHaveFiles
    ConfirmedAreFiled
    OnlyRacesAreRefused
    BatchesHaveDocuments
CHECK_DEADLOCK FALSE
