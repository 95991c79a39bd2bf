------------------------------ MODULE Booking ------------------------------
(***************************************************************************)
(* Bookings of one service of a tenant: creation against the service's     *)
(* capacity, the status machine, reminders and the waiting list, with each *)
(* await of a request a step. Nothing here runs in a transaction. Times    *)
(* count in a unit of which a day has DayLength.                           *)
(***************************************************************************)
EXTENDS Naturals, FiniteSets

CONSTANTS
    Requests,    \* request slots: customers, staff, the caller of reminders/process
    Staff,       \* staff members
    NoStaff,     \* a booking or a schedule without one
    Capacity,    \* BookingService.capacity
    Duration,    \* BookingService.duration
    DayLength,   \* a day
    Opens, Closes, \* the recurring schedules, within a day
    Starts,      \* times bookings are asked for
    Leads,       \* BookingReminder.minutesBefore
    Horizon,     \* bound: the clock
    MaxBookings, MaxEntries, \* bounds: rows of the tables
    MaxShared    \* bound: bookings, and entries, when requests overlap

Bookings == 1 .. MaxBookings
Entries == 1 .. MaxEntries

ASSUME BookingAssumption ==
    /\ NoStaff \notin Staff
    /\ {Capacity, Opens, Closes, Horizon, MaxBookings, MaxEntries, MaxShared} \subseteq Nat
    /\ Duration \in Nat \ {0} /\ DayLength \in Nat \ {0}
    /\ Starts \subseteq Nat /\ Leads \subseteq Nat

VARIABLES
    alone,    \* whether requests run one at a time (fixed)
    now,      \* the clock
    booking,  \* Booking: staff, start, status, the "to" of its BookingHistory
    reminder, \* status of each booking's BookingReminder per lead
    waiting,  \* WaitingListEntry: status, the cancelled booking it was called for
    pc,       \* where each request is
    job       \* what it has read

vars == <<alone, now, booking, reminder, waiting, pc, job>>

NoJob == [id |-> 0, staff |-> NoStaff, start |-> 0, to |-> "none", entry |-> 0,
          todo |-> {}, due |-> {}]

\* A booking status and those updateBookingStatus accepts after it.
AfterRetry ==                            \* mutant: a cancellation may be repeated
         [requested   |-> {"confirmed", "cancelled"},
          confirmed   |-> {"in_progress", "cancelled", "rescheduled"},
          in_progress |-> {"completed", "no_show"},
          completed   |-> {},
          cancelled   |-> {"cancelled"},
          no_show     |-> {},
          rescheduled |-> {"confirmed", "cancelled"}]
AfterWalkIn == [AfterRetry EXCEPT        \* mutant: service without confirmation
                    !.cancelled = {}, !.requested = @ \cup {"in_progress"}]
After == [requested   |-> {"confirmed", "cancelled"},
          confirmed   |-> {"in_progress", "cancelled", "rescheduled"},
          in_progress |-> {"completed", "no_show"},
          completed   |-> {},
          cancelled   |-> {},
          no_show     |-> {},
          rescheduled |-> {"confirmed", "cancelled"}]
Status == DOMAIN After

Init ==
    /\ alone \in BOOLEAN
    /\ now = 0
    /\ booking = [k \in Bookings |-> [staff |-> NoStaff, start |-> 0, status |-> "absent", was |-> {}]]
    /\ reminder = [k \in Bookings |-> [m \in Leads |-> "absent"]]
    /\ waiting = [e \in Entries |-> [status |-> "absent", freed |-> 0]]
    /\ pc = [p \in Requests |-> "idle"]
    /\ job = [p \in Requests |-> NoJob]

Goto(p, loc, j) == pc' = [pc EXCEPT ![p] = loc] /\ job' = [job EXCEPT ![p] = j]
Done(p) == Goto(p, "idle", NoJob)
Ready(p) == pc[p] = "idle" /\ (alone => \A q \in Requests : pc[q] = "idle")

Made == {k \in Bookings : booking[k].status # "absent"}
Queued == {e \in Entries : waiting[e].status # "absent"}
Ends(k) == booking[k].start + Duration

-----------------------------------------------------------------------------
(* Availability.                                                           *)

\* Bookings that count against the capacity, for one member of staff or for all.
HeldConfirmed(s) ==                      \* mutant: rescheduled bookings free their slot
    {k \in Made : /\ booking[k].status \notin {"cancelled", "no_show", "rescheduled"}
                  /\ s \in {NoStaff, booking[k].staff}}
Held(s) ==
    {k \in Made : /\ booking[k].status \notin {"cancelled", "no_show"}
                  /\ s \in {NoStaff, booking[k].staff}}

Overlapping(S, from, to) == {k \in S : booking[k].start < to /\ Ends(k) > from}

\* The bookings getAvailableSlots looks at: those that begin and end on the day,
\* whose last millisecond is before the next midnight.
OnDay(S, d) ==
    {k \in S : booking[k].start >= d * DayLength /\ Ends(k) < (d + 1) * DayLength}

\* What getAvailableSlots offers on day d for staff s: the starts of its slots
\* with no booking at all, one schedule alike for every member of staff.
SlotStarts(d) ==
    {t \in d * DayLength + Opens .. d * DayLength + Closes :
        /\ (t - (d * DayLength + Opens)) % Duration = 0
        /\ t + Duration <= d * DayLength + Closes}
OfferedAny(d, s) ==                      \* mutant: bookings that begin with the slot only
    {t \in SlotStarts(d) : \A k \in OnDay(Held(s), d) : booking[k].start # t}
Offered(d, s) ==
    {t \in SlotStarts(d) :
        /\ Overlapping(OnDay(Held(s), d), t, t + Duration) = {}
        /\ 0 < Capacity}

-----------------------------------------------------------------------------
(* createBooking: the overlap is counted, then the row inserted.           *)

CreateBooking(p, s, t) ==
    /\ Ready(p)
    /\ Cardinality(Overlapping(Held(s), t, t + Duration)) < Capacity
    /\ Goto(p, "insert", [NoJob EXCEPT !.staff = s, !.start = t])
    /\ UNCHANGED <<alone, now, booking, reminder, waiting>>

InsertBooking(p) ==
    /\ pc[p] = "insert"
    /\ LET k == Cardinality(Made) + 1 IN
       /\ k \in Bookings /\ (alone \/ k <= MaxShared)
       /\ booking' = [booking EXCEPT ![k] = [staff |-> job[p].staff, start |-> job[p].start,
                                             status |-> "requested", was |-> {"requested"}]]
       /\ Goto(p, "schedule", [NoJob EXCEPT !.id = k, !.todo = Leads])
    /\ UNCHANGED <<alone, now, reminder, waiting>>

\* The reminders are inserted side by side.
ScheduleReminder(p) ==
    /\ pc[p] = "schedule"
    /\ \E m \in job[p].todo :
       /\ reminder' = [reminder EXCEPT ![job[p].id][m] = "pending"]
       /\ IF job[p].todo = {m} THEN Done(p)
          ELSE Goto(p, "schedule", [job[p] EXCEPT !.todo = @ \ {m}])
    /\ UNCHANGED <<alone, now, booking, waiting>>

RemindAny(p, k, m) ==                    \* mutant: the booking is not looked up
    /\ Ready(p)
    /\ reminder[k][m] = "absent"
    /\ Goto(p, "schedule", [NoJob EXCEPT !.id = k, !.todo = {m}])
    /\ UNCHANGED <<alone, now, booking, reminder, waiting>>

\* Staff add a reminder (bound: one per booking and lead).
AddReminder(p, k, m) ==
    /\ Ready(p)
    /\ k \in Made /\ reminder[k][m] = "absent"
    /\ Goto(p, "schedule", [NoJob EXCEPT !.id = k, !.todo = {m}])
    /\ UNCHANGED <<alone, now, booking, reminder, waiting>>

-----------------------------------------------------------------------------
(* processReminders: the pending ones are read, then sent one by one.      *)

DueAny ==                                \* mutant: the booking's status left out
    {r \in Bookings \X Leads :
        /\ reminder[r[1]][r[2]] = "pending"
        /\ booking[r[1]].start > now /\ booking[r[1]].start <= now + r[2]}
Due ==
    {r \in Bookings \X Leads :
        /\ reminder[r[1]][r[2]] = "pending"
        /\ booking[r[1]].status \notin {"cancelled", "no_show", "completed"}
        /\ booking[r[1]].start > now /\ booking[r[1]].start <= now + r[2]}

ProcessReminders(p) ==
    /\ Ready(p)
    /\ Due # {}
    /\ Goto(p, "send", [NoJob EXCEPT !.due = Due])
    /\ UNCHANGED <<alone, now, booking, reminder, waiting>>

SendReminder(p) ==
    /\ pc[p] = "send"
    /\ \E r \in job[p].due :
       /\ reminder' = [reminder EXCEPT ![r[1]][r[2]] = "sent"]
       /\ IF job[p].due = {r} THEN Done(p)
          ELSE Goto(p, "send", [job[p] EXCEPT !.due = @ \ {r}])
    /\ UNCHANGED <<alone, now, booking, waiting>>

-----------------------------------------------------------------------------
(* updateBookingStatus                                                     *)

UpdateBookingStatus(p, k, to) ==
    /\ Ready(p)
    /\ k \in Made /\ to \in After[booking[k].status]
    /\ Goto(p, "status", [NoJob EXCEPT !.id = k, !.to = to])
    /\ UNCHANGED <<alone, now, booking, reminder, waiting>>

\* Status and history in one statement, whatever the booking has become.
WriteStatus(p) ==
    /\ pc[p] = "status"
    /\ booking' = [booking EXCEPT ![job[p].id].status = job[p].to,
                                  ![job[p].id].was = @ \cup {job[p].to}]
    /\ IF job[p].to = "cancelled" THEN Goto(p, "queue", job[p]) ELSE Done(p)
    /\ UNCHANGED <<alone, now, reminder, waiting>>

\* After the refund was computed: the entry that waits longest.
NextInQueue(p) ==
    /\ pc[p] = "queue"
    /\ LET free == {e \in Entries : waiting[e].status = "waiting"} IN
       \/ free = {} /\ Done(p)
       \/ \E e \in free : /\ \A f \in free : e <= f
                         /\ Goto(p, "notify", [job[p] EXCEPT !.entry = e])
    /\ UNCHANGED <<alone, now, booking, reminder, waiting>>

NotifyNext(p) ==
    /\ pc[p] = "notify"
    /\ waiting' = [waiting EXCEPT ![job[p].entry] = [status |-> "notified", freed |-> job[p].id]]
    /\ Done(p)
    /\ UNCHANGED <<alone, now, booking, reminder>>

-----------------------------------------------------------------------------
(* The waiting list by hand, the clock, failures.                          *)

AddToWaitingList ==
    /\ LET e == Cardinality(Queued) + 1 IN
       /\ e \in Entries /\ (alone \/ e <= MaxShared)
       /\ waiting' = [waiting EXCEPT ![e].status = "waiting"]
    /\ UNCHANGED <<alone, now, booking, reminder, pc, job>>

MarkNotified(e) ==
    /\ waiting[e].status = "waiting"
    /\ waiting' = [waiting EXCEPT ![e].status = "notified"]
    /\ UNCHANGED <<alone, now, booking, reminder, pc, job>>

Tick ==
    /\ now < Horizon
    /\ now' = now + 1
    /\ UNCHANGED <<alone, booking, reminder, waiting, pc, job>>

\* A failed query or a restart between two steps.
Fail(p) ==
    /\ pc[p] # "idle"
    /\ Done(p)
    /\ UNCHANGED <<alone, now, booking, reminder, waiting>>

Step(p) ==
    \/ \E s \in Staff \cup {NoStaff} : \E t \in Starts : CreateBooking(p, s, t)
    \/ InsertBooking(p) \/ ScheduleReminder(p)
    \/ \E k \in Bookings : \/ \E m \in Leads : AddReminder(p, k, m)
                           \/ \E to \in Status : UpdateBookingStatus(p, k, to)
    \/ ProcessReminders(p) \/ SendReminder(p)
    \/ WriteStatus(p) \/ NextInQueue(p) \/ NotifyNext(p)
    \/ Fail(p)

Next ==
    \/ \E p \in Requests : Step(p)
    \/ AddToWaitingList \/ Tick
    \/ \E e \in Entries : MarkNotified(e)

Spec == Init /\ [][Next]_vars

-----------------------------------------------------------------------------
BookingType == [staff : Staff \cup {NoStaff}, start : Starts \cup {0},
                status : Status \cup {"absent"}, was : SUBSET Status]
JobType == [id : Bookings \cup {0}, staff : Staff \cup {NoStaff}, start : Starts \cup {0},
            to : Status \cup {"none"}, entry : Entries \cup {0},
            todo : SUBSET Leads, due : SUBSET (Bookings \X Leads)]

\* Every column and local has its type; ids are given in order; reminders and
\* calls of the waiting list are of bookings that exist.
TypeOK ==
    /\ alone \in BOOLEAN /\ now \in 0 .. Horizon
    /\ booking \in [Bookings -> BookingType]
    /\ reminder \in [Bookings -> [Leads -> {"absent", "pending", "sent"}]]
    /\ waiting \in [Entries -> [status : {"absent", "waiting", "notified"}, freed : Bookings \cup {0}]]
    /\ pc \in [Requests -> {"idle", "insert", "schedule", "send", "status", "queue", "notify"}]
    /\ job \in [Requests -> JobType]
    /\ Made = 1 .. Cardinality(Made) /\ Queued = 1 .. Cardinality(Queued)
    /\ \A k \in Bookings : \A m \in Leads : reminder[k][m] # "absent" => k \in Made

\* Requests one at a time never have more bookings of one member of staff under
\* way at a time than the service's capacity, whatever was cancelled,
\* rescheduled or missed before.
CapacityRespected ==
    alone => \A s \in Staff : \A t \in Starts :
                 Cardinality({k \in Held(NoStaff) : /\ booking[k].staff = s
                                                   /\ booking[k].start <= t /\ t < Ends(k)}) <= Capacity

\* However requests overlap, no service begins, ends or is missed that was not
\* requested and confirmed, and a status is the last or an earlier entry of the
\* booking's history.
ConfirmedFirst ==
    \A k \in Made :
        /\ {"requested", booking[k].status} \subseteq booking[k].was
        /\ booking[k].was \cap {"in_progress", "completed", "no_show", "rescheduled"} # {}
               => "confirmed" \in booking[k].was
        /\ booking[k].was \cap {"completed", "no_show"} # {} => "in_progress" \in booking[k].was

\* A place of the waiting list is called only for a booking that was cancelled,
\* and, requests one at a time, one place for each.
OneCallPerCancellation ==
    \A e \in Entries : waiting[e].freed # 0 =>
        /\ "cancelled" \in booking[waiting[e].freed].was
        /\ alone => \A f \in Entries : waiting[f].freed = waiting[e].freed => f = e

\* Requests one at a time remind nobody of a booking that was cancelled, missed
\* or served, nor of the same one twice.
RemindedWhileActive ==
    [][ \A k \in Bookings : \A m \in Leads :
            alone /\ reminder'[k][m] = "sent" /\ reminder[k][m] # "sent"
                => /\ booking[k].status \notin {"cancelled", "no_show", "completed"}
                   /\ reminder[k][m] = "pending" ]_vars

Day == 0 .. (Horizon \div DayLength) + 1
Full(s, t) == Cardinality(Overlapping(Held(s), t, t + Duration)) >= Capacity

\* A slot offered on a day no booking enters or leaves over midnight can be had.
OfferedCanBeBooked ==
    \A d \in Day : \A s \in Staff \cup {NoStaff} :
        (\A k \in Made : booking[k].start \div DayLength = Ends(k) \div DayLength)
            => \A t \in Offered(d, s) : ~ Full(s, t)

-----------------------------------------------------------------------------
\* IMPLEMENTATION.md:309 "Respects service capacity": a slot the availability
\* engine offers has room.
SlotsRespectCapacity ==
    \A d \in Day : \A s \in Staff \cup {NoStaff} : \A t \in Offered(d, s) : ~ Full(s, t)
=============================================================================
