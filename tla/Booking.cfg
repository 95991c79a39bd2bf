SPECIFICATION Spec
CONSTANTS
    Requests = {q1, q2}
    Staff = {w1}
    NoStaff = NoStaff
    Capacity = 1
    Duration = 2
    DayLength = 4
    Opens = 0
    Closes = 4
    Starts = {1, 3}
    Leads = {1}
    Horizon = 1
    MaxBookings = 2
    MaxEntries = 2
    MaxShared = 1
SYMMETRY Symmetry
INVARIANTS TypeOK CapacityRespected ConfirmedFirst OneCallPerCancellation OfferedCanBeBooked
PROPERTY RemindedWhileActive
CHECK_DEADLOCK FALSE
