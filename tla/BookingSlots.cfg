SPECIFICATION Spec
CONSTANTS
    Requests = {q1}
    Staff = {w1}
    NoStaff = NoStaff
    Capacity = 1
    Duration = 2
    DayLength = 4
    Opens = 0
    Closes = 4
    Starts = {1, 3}
    Leads = {1}
    Horizon = 1
    MaxBookings = 2
    MaxEntries = 1
    MaxShared = 1
INVARIANT SlotsRespectCapacity
CHECK_DEADLOCK FALSE
