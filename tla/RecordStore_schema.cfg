\* One schema of two versions, two documents, one backfill, sets of up to two rows.
CONSTANTS
    d1 = d1
    d2 = d2
    u1 = u1
    u2 = u2
    k1 = k1
    None = None
    Schemas = {s1}
    Documents = {d1, d2}
    Uploads = {u1, u2}
    Backfills = {k1}
    DocumentOf <- OneBackfill
    MaxVersions = 2
    MaxRows = 2
SPECIFICATION Spec
INVARIANTS
    SchemaDeletesSucceed
    BackfillReachesEveryRow
PROPERTIES
    ConfirmFaultsAreDuplicates
    BackfillLeavesOneSet
    DocumentDeleteFaultsAreDuplicates
    ReplaceLeavesNoPartialSet
CHECK_DEADLOCK FALSE
