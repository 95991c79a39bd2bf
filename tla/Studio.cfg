SPECIFICATION StudioSpec
CONSTANTS
    Merchants = {m1}
    Admins = {a1}
    MerchantOps = {"publish", "rollback"}
    AdminOps = {"preview", "approve", "reject", "refuse", "status"}
    Content = {c1, c2}
    Lines = {"one"}
    FirstLine = "one"
    Keys = {k1}
    None = None
    MaxReleases = 2
    MaxPatch = 1
    CanFail = FALSE
    Overlap = FALSE
    Requests = {q1, q2}
    Sent = {"s1"}
    Questions <- MCQuestions
    Answers <- MCAnswers
    FormRivals <- MCFormRivals
    MaxSteps = 2
    MaxEdits = 2
    MaxApprovals = 2
    ThemeRivals <- MCThemeRivals
    MaxThemes = 3
    DraftPages = {"home", "shop"}
    Live = {"home"}
    DraftSections = {"s1", "s2"}
    DraftParts = {"c1", "c2"}
    DraftRivals <- MCDraftRivals
    MaxDrafts = 1
    Documents = {"s1", "s2"}
    Folders = {"f1", "f2"}
    Collections = {"c1"}
    Providers = {"p1", "p2"}
    Files = {"m1", "m2"}
    MaxDownloads = 2
    Horizon = 4
    Frames <- MCFrames
    Skeletons <- MCSkeletons
    Shapes <- MCShapes
    MaxNodes = 8
    SupportedTypes = {"button", "layout"}
    SupportedCapabilities = {"cart"}
    Limits <- MCLimits
    AssetIds = {"a1"}
    Tenants = {"t1", "t2"}
    Template <- MCTemplate
    MaxListings = 2
    Orders = {"o1", "o2"}
    Bookings = {"b1"}
    Widgets = {"w1"}
    Amounts = {2}
    Days = {6, 7, 8}
    Month = 8
    Take = 1
SYMMETRY Symmetry
INVARIANTS ReviewConsistent ContentTyped ViewsAgree
PROPERTIES ContentWhole
CHECK_DEADLOCK FALSE
