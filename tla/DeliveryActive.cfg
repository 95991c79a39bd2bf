SPECIFICATION FairSpec
CONSTANTS
    BffReaders = {}
    AppReaders = {r1, r2}
    MaxReleases = 2
    Identifiers = {"slug"}
    None = None
    CanFail = FALSE
INVARIANTS ServesActive
CHECK_DEADLOCK FALSE
