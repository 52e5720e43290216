\* Eventual outcomes: one request at a time, two workers, a document with an extract and a backfill job.
CONSTANTS
    d1 = d1
    d2 = d2
    b1 = b1
    b2 = b2
    j1 = j1
    j2 = j2
    j3 = j3
    None = None
    Documents = {d1}
    Batches = {b1}
    Jobs = {j1, j3}
    BatchOf <- SingleBatch
    DocumentOf <- ExtractAndBackfill
    UploadJob <- SingleUpload
    Workers = {w1, w2}
    Clients = {c1}
    MAX_RATE_LIMIT_ATTEMPTS = 2
    MaxReextracts = 0
SPECIFICATION FairSpec
PROPERTIES
    JobsSettle
    RunsEnd
CHECK_DEADLOCK FALSE
