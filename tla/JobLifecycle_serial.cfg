\* Requests one at a time, two workers beside them; two documents in a batch.
CONSTANTS
    d1 = d1
    d2 = d2
    b1 = b1
    b2 = b2
    j1 = j1
    j2 = j2
    j3 = j3
    None = None
    Documents = {d1, d2}
    Batches = {b1}
    Jobs = {j1, j2}
    BatchOf <- OneBatch
    DocumentOf <- TwoJobs
    UploadJob <- TwoUploads
    Workers = {w1, w2}
    Clients = {c1}
    MAX_RATE_LIMIT_ATTEMPTS = 2
    MaxReextracts = 1
SPECIFICATION Spec
SYMMETRY WorkerSymmetry
INVARIANTS
    TypeOK
    ClaimExclusive
    AttemptsLeft
    FeedbackAppliedOnce
PROPERTIES
    WorkersWriteOnlyTheirRuns
    LivesAsPromised
CHECK_DEADLOCK FALSE
