SPECIFICATION FairSpec
CONSTANTS
    BffReaders = {b1}
    AppReaders = {r1}
    MaxReleases = 2
    Identifiers = {"slug"}
    None = None
    CanFail = TRUE
INVARIANTS TypeOK OnlyApprovedServed NeverDark SuspendedNotServed
PROPERTIES Converges
CHECK_DEADLOCK FALSE
