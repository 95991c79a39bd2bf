SPECIFICATION ServicesSpec
CONSTANTS
    Requests = {q1, q2}
    Intents = {i1}
    Settlements = {s1}
    MaxRefunds = 2
    MaxEvents = 2
    Policies = {"k1"}
    Tickets = {"t1"}
    Metered = {"b1"}
    MaxEdits = 3
    MaxHistory = 3
    Limit = 2
    Windows = 2
    Invites = {"i1"}
    Spellings = {"A@x", "a@x"}
    Plans = {"basic", "pro"}
    Rivals <- MCRivals
    MaxSubmissions = 2
    MaxWrites = 2
    Posts = {"p1", "p2"}
    Visitors = {"user", "device"}
    Readership = {"user"}
    FreeLimit = 1
    PlanLimits = {0, 2}
    Days = 3
    MaxVisits = 1
    Messages = {"m1"}
    Merchants = {"t1", "t2"}
    People = {"a1"}
    MaxReplies = 1
    MaxReads = 1
    Targets = {"u1", "u2"}
    Emailed = {"u1"}
    Tokens = {"d1"}
    MaxSends = 1
    Connected = {"t1", "t2"}
    Webhooks = {"w1"}
    Endpoints = {"e1"}
    MaxJobs = 2
    MaxLogs = 2
    Staff = {"u1", "u2"}
    Bootstrap = "u1"
    Stores = {"t1"}
    Seeders = {"s1", "s2"}
    Sought = {"operations", "support_agent"}
    MaxCopies = 2
    MaxRows = 3
    MaxDenials = 1
    Keys = {"k1"}
    Servers = {"db", "api"}
    Addresses = {"a1", "a2"}
    MaxChecks = 3
    MaxSteps = 1
    Entities = {"e1", "e2"}
    Terms = {"red", "hat"}
    Contents <- MCContents
    TagFilters = {{}, {"hat"}}
    PageSize = 1
    MaxQueries = 1
    MaxCompletions = 3
    MaxIndexed = 1
SYMMETRY Symmetry
INVARIANTS TypeOK ReceivedWasPaid RefundsBacked SettledBeforeRecorded
           ServicesTyped DecisionsBacked 
PROPERTIES OwnersKeepTheirs
CHECK_DEADLOCK FALSE
