\* Three versions of up to two fields.
CONSTANTS
    Names = {A, B}
    Types = {t}
    Keys = {k1, k2, k3, k4}
    MaxFields = 2
    MaxIdentity = 1
    MaxVersions = 3
SPECIFICATION Spec
SYMMETRY FieldSymmetry
INVARIANTS
    ColumnsDistinct
    ViewReadsOwnField
    DedupComparesTheFieldNow
PROPERTIES
    QuietEditsKeepTheView
    ColumnsKeepTheirPlaces
CHECK_DEADLOCK FALSE
