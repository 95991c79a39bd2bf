SPECIFICATION Spec
CONSTANTS
    Merchants = {m1}
    Admins = {a1}
    MerchantOps = {"publish"}
    AdminOps = {"approve"}
    Content = {c1}
    Lines = {"one"}
    FirstLine = "one"
    Keys = {}
    None = None
    MaxReleases = 2
    MaxPatch = 0
    CanFail = FALSE
    Overlap = TRUE
PROPERTIES SupersededNeverActivated
CHECK_DEADLOCK FALSE
