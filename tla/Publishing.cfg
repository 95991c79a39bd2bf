SPECIFICATION Spec
CONSTANTS
    Merchants = {m1, m2}
    Admins = {a1}
    MerchantOps = {"publish", "rollback"}
    AdminOps = {"approve", "reject"}
    Content = {c1}
    Lines = {"one"}
    FirstLine = "one"
    Keys = {}
    None = None
    MaxReleases = 2
    MaxPatch = 1
    CanFail = TRUE
    Overlap = TRUE
SYMMETRY Symmetry
INVARIANTS TypeOK VersionSequence OneLive ActiveIsPublished
PROPERTIES LiveMovesForward
CHECK_DEADLOCK FALSE
