SPECIFICATION Spec
CONSTANTS
    Merchants = {m1}
    Admins = {a1}
    MerchantOps = {"appReview"}
    AdminOps = {"approve"}
    Content = {c1}
    Lines = {"one"}
    FirstLine = "one"
    Keys = {}
    None = None
    MaxReleases = 2
    MaxPatch = 0
    CanFail = FALSE
    Overlap = FALSE
INVARIANTS InReviewActionable
CHECK_DEADLOCK FALSE
