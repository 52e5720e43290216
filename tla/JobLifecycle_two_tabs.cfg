\* Two overlapping requests, two workers, one job: is the claim exclusive?
CONSTANTS
    d1 = d1
    d2 = d2
    b1 = b1
    b2 = b2
    j1 = j1
    j2 = j2
    j3 = j3
    None = None
    Documents = {d1}
    Batches = {b1}
    Jobs = {j1}
    BatchOf <- SingleBatch
    DocumentOf <- SingleJob
    UploadJob <- SingleUpload
    Workers = {w1, w2}
    Clients = {c1, c2}
    MAX_RATE_LIMIT_ATTEMPTS = 2
    MaxReextracts = 1
SPECIFICATION Spec
SYMMETRY WorkerAndClientSymmetry
INVARIANT ClaimExclusive
CHECK_DEADLOCK FALSE
