--------------------------- MODULE Booking_proofs ---------------------------
(***************************************************************************)
(* Safety of bookings for any number of requests, staff and bookings: the  *)
(* status machine and the slots offered however requests overlap, and, for *)
(* requests one at a time, the capacity, the reminders and the calls of    *)
(* the waiting list.                                                       *)
(***************************************************************************)
EXTENDS Booking, FiniteSetTheorems, TLAPS

\* A row whose history backs its status.
Backed(b) ==
    b.status # "absent" =>
        /\ {"requested", b.status} \subseteq b.was
        /\ b.was \cap {"in_progress", "completed", "no_show", "rescheduled"} # {}
               => "confirmed" \in b.was
        /\ b.was \cap {"completed", "no_show"} # {} => "in_progress" \in b.was

\* What a request knows wherever it stands, whatever overlaps.
Knows(at, j, bk, wt) ==
    /\ at \in {"schedule", "status", "queue", "notify"} =>
           j.id \in Bookings /\ bk[j.id].status # "absent"
    /\ at = "status" => j.to \in Status /\ \E s \in bk[j.id].was : j.to \in After[s]
    /\ at \in {"queue", "notify"} => "cancelled" \in bk[j.id].was
    /\ at = "notify" => j.entry \in Entries /\ wt[j.entry].status # "absent"
    /\ at = "send" => \A r \in j.due : bk[r[1]].status # "absent"

BookInv ==
    /\ TypeOK
    /\ \A k \in Bookings : Backed(booking[k])
    /\ \A e \in Entries : waiting[e].freed # 0 =>
           /\ booking[waiting[e].freed].status # "absent"
           /\ "cancelled" \in booking[waiting[e].freed].was
    /\ \A q \in Requests : Knows(pc[q], job[q], booking, waiting)

-----------------------------------------------------------------------------
(* The status machine.                                                     *)

LEMMA Statuses ==
    Status = {"requested", "confirmed", "in_progress", "completed", "cancelled", "no_show",
              "rescheduled"}
BY DEF Status, After

LEMMA Transitions ==
    ASSUME NEW s \in Status, NEW to \in After[s]
    PROVE  /\ to \in Status
           /\ to \in {"in_progress", "rescheduled"} => s = "confirmed"
           /\ to \in {"completed", "no_show"} => s = "in_progress"
           /\ s \notin {"cancelled", "completed", "no_show"}
BY Statuses DEF After

LEMMA BackedType == \A b \in BookingType :
    b.status \in Status \cup {"absent"} /\ b.was \subseteq Status
BY DEF BookingType

-----------------------------------------------------------------------------
(* The tables are filled in order.                                         *)

LEMMA FilledInit == {} = 1 .. Cardinality({})
BY FS_EmptySet

LEMMA FilledNext ==
    ASSUME NEW S, S = 1 .. Cardinality(S), Cardinality(S) \in Nat, NEW T,
           T = S \cup {Cardinality(S) + 1}
    PROVE  T = 1 .. Cardinality(T)
<1>1. T = 1 .. Cardinality(S) + 1
    OBVIOUS
<1>2. Cardinality(1 .. Cardinality(S) + 1) = Cardinality(S) + 1
    BY FS_Interval
<1> QED
    BY <1>1, <1>2

LEMMA Counted ==
    ASSUME NEW n \in Nat, NEW S, S \subseteq 1 .. n
    PROVE  IsFiniteSet(S) /\ Cardinality(S) \in Nat
<1>1. IsFiniteSet(1 .. n)
    BY FS_Interval
<1> QED
    BY <1>1, FS_Subset, FS_CardinalityType

-----------------------------------------------------------------------------
LEMMA InitHolds == Init => BookInv
<1> SUFFICES ASSUME Init PROVE BookInv
    OBVIOUS
<1>1. Made = {} /\ Queued = {}
    BY DEF Made, Queued, Init
<1>2. NoJob \in JobType
    BY DEF NoJob, JobType
<1>3. [staff |-> NoStaff, start |-> 0, status |-> "absent", was |-> {}] \in BookingType
    BY DEF BookingType
<1>4. TypeOK
    <2>1. alone \in BOOLEAN /\ now \in 0 .. Horizon
        BY BookingAssumption DEF Init
    <2>2. booking \in [Bookings -> BookingType]
        BY <1>3 DEF Init
    <2>3. reminder \in [Bookings -> [Leads -> {"absent", "pending", "sent"}]]
        BY DEF Init
    <2>4. waiting \in [Entries -> [status : {"absent", "waiting", "notified"},
                                   freed : Bookings \cup {0}]]
        BY DEF Init
    <2>5. /\ pc \in [Requests -> {"idle", "insert", "schedule", "send", "status", "queue", "notify"}]
          /\ job \in [Requests -> JobType]
        BY <1>2 DEF Init
    <2>6. \A k \in Bookings : \A m \in Leads : reminder[k][m] # "absent" => k \in Made
        BY DEF Init
    <2> QED
        BY <1>1, <2>1, <2>2, <2>3, <2>4, <2>5, <2>6, FilledInit DEF TypeOK
<1>5. \A k \in Bookings : Backed(booking[k])
    BY DEF Init, Backed
<1>6. \A e \in Entries : waiting[e].freed = 0
    BY DEF Init
<1>7. \A q \in Requests : Knows(pc[q], job[q], booking, waiting)
    BY DEF Init, Knows
<1> QED
    BY <1>4, <1>5, <1>6, <1>7 DEF BookInv

-----------------------------------------------------------------------------
(* Every action, whatever overlaps.                                        *)

Loc == {"idle", "insert", "schedule", "send", "status", "queue", "notify"}

\* Rows stay and histories only grow.
Grown(bk, bkNext, wt, wtNext) ==
    /\ \A k \in Bookings : bk[k].status # "absent" => /\ bkNext[k].status # "absent"
                                                      /\ bk[k].was \subseteq bkNext[k].was
    /\ \A e \in Entries : wt[e].status # "absent" => wtNext[e].status # "absent"

\* What a request knows outlives what the others write.
LEMMA KnowsOn ==
    ASSUME NEW at, NEW j \in JobType, NEW bk, NEW bkNext, NEW wt, NEW wtNext,
           Grown(bk, bkNext, wt, wtNext), Knows(at, j, bk, wt)
    PROVE  Knows(at, j, bkNext, wtNext)
<1>1. \A r \in j.due : r[1] \in Bookings
    BY DEF JobType
<1> QED
    BY <1>1 DEF Grown, Knows

LEMMA Moves ==
    ASSUME BookInv, NEW p \in Requests, NEW loc \in Loc, NEW j \in JobType,
           Goto(p, loc, j), Grown(booking, booking', waiting, waiting'),
           Knows(loc, j, booking', waiting')
    PROVE  /\ pc' \in [Requests -> Loc] /\ job' \in [Requests -> JobType]
           /\ \A q \in Requests : Knows(pc'[q], job'[q], booking', waiting')
<1>1. pc \in [Requests -> Loc] /\ job \in [Requests -> JobType]
    BY DEF BookInv, TypeOK, Loc
<1>2. pc' = [pc EXCEPT ![p] = loc] /\ job' = [job EXCEPT ![p] = j]
    BY DEF Goto
<1>3. \A q \in Requests : Knows(pc[q], job[q], booking', waiting')
    BY <1>1, KnowsOn DEF BookInv
<1> QED
    BY <1>1, <1>2, <1>3

LEMMA Stays ==
    ASSUME BookInv, UNCHANGED <<pc, job>>, Grown(booking, booking', waiting, waiting')
    PROVE  /\ pc' \in [Requests -> Loc] /\ job' \in [Requests -> JobType]
           /\ \A q \in Requests : Knows(pc'[q], job'[q], booking', waiting')
<1>1. pc \in [Requests -> Loc] /\ job \in [Requests -> JobType]
    BY DEF BookInv, TypeOK, Loc
<1>2. \A q \in Requests : Knows(pc[q], job[q], booking', waiting')
    BY <1>1, KnowsOn DEF BookInv
<1> QED
    BY <1>1, <1>2

\* A request takes a step and no table changes.
LEMMA OnlyMoves ==
    ASSUME BookInv, NEW p \in Requests, NEW loc \in Loc, NEW j \in JobType,
           Goto(p, loc, j), Knows(loc, j, booking, waiting),
           UNCHANGED <<alone, now, booking, reminder, waiting>>
    PROVE  BookInv'
<1>1. /\ pc' \in [Requests -> Loc] /\ job' \in [Requests -> JobType]
      /\ \A q \in Requests : Knows(pc'[q], job'[q], booking', waiting')
    BY Moves DEF Grown
<1>2. Made' = Made /\ Queued' = Queued
    BY DEF Made, Queued
<1> QED
    BY <1>1, <1>2 DEF BookInv, TypeOK, Loc

LEMMA NoJobFits == NoJob \in JobType /\ \A bk, wt : Knows("idle", NoJob, bk, wt)
BY DEF NoJob, JobType, Knows

LEMMA DoneKeeps ==
    ASSUME BookInv, NEW p \in Requests, Done(p),
           UNCHANGED <<alone, now, booking, reminder, waiting>>
    PROVE  BookInv'
<1>1. "idle" \in Loc /\ NoJob \in JobType /\ Knows("idle", NoJob, booking, waiting)
    BY NoJobFits DEF Loc
<1>2. Goto(p, "idle", NoJob)
    BY DEF Done
<1> QED
    BY <1>1, <1>2, OnlyMoves

LEMMA CreateBookingKeeps ==
    ASSUME BookInv, NEW p \in Requests, NEW s \in Staff \cup {NoStaff}, NEW t \in Starts,
           CreateBooking(p, s, t)
    PROVE  BookInv'
<1> DEFINE j == [NoJob EXCEPT !.staff = s, !.start = t]
<1>1. j \in JobType
    BY DEF NoJob, JobType
<1>2. "insert" \in Loc /\ Knows("insert", j, booking, waiting)
    BY DEF Loc, Knows
<1>3. Goto(p, "insert", j) /\ UNCHANGED <<alone, now, booking, reminder, waiting>>
    BY DEF CreateBooking
<1> HIDE DEF j
<1> QED
    BY <1>1, <1>2, <1>3, OnlyMoves

LEMMA AddReminderKeeps ==
    ASSUME BookInv, NEW p \in Requests, NEW k \in Bookings, NEW m \in Leads,
           AddReminder(p, k, m)
    PROVE  BookInv'
<1> DEFINE j == [NoJob EXCEPT !.id = k, !.todo = {m}]
<1>1. j \in JobType /\ j.id = k
    BY DEF NoJob, JobType
<1>2. "schedule" \in Loc /\ Knows("schedule", j, booking, waiting)
    BY <1>1 DEF Loc, Knows, AddReminder, Made
<1>3. Goto(p, "schedule", j) /\ UNCHANGED <<alone, now, booking, reminder, waiting>>
    BY DEF AddReminder
<1> HIDE DEF j
<1> QED
    BY <1>1, <1>2, <1>3, OnlyMoves

LEMMA UpdateBookingStatusKeeps ==
    ASSUME BookInv, NEW p \in Requests, NEW k \in Bookings, NEW to \in Status,
           UpdateBookingStatus(p, k, to)
    PROVE  BookInv'
<1> DEFINE j == [NoJob EXCEPT !.id = k, !.to = to]
<1>1. j \in JobType /\ j.id = k /\ j.to = to
    BY DEF NoJob, JobType
<1>2. booking[k].status # "absent" /\ booking[k].status \in booking[k].was
    BY DEF UpdateBookingStatus, Made, BookInv, Backed
<1>3. to \in After[booking[k].status]
    BY DEF UpdateBookingStatus
<1> HIDE DEF j
<1>4. "status" \in Loc /\ Knows("status", j, booking, waiting)
    BY <1>1, <1>2, <1>3 DEF Loc, Knows
<1>5. Goto(p, "status", j) /\ UNCHANGED <<alone, now, booking, reminder, waiting>>
    BY DEF UpdateBookingStatus, j
<1> QED
    BY <1>1, <1>4, <1>5, OnlyMoves

LEMMA ProcessRemindersKeeps ==
    ASSUME BookInv, NEW p \in Requests, ProcessReminders(p)
    PROVE  BookInv'
<1> DEFINE j == [NoJob EXCEPT !.due = Due]
<1>1. Due \subseteq Bookings \X Leads /\ \A r \in Due : booking[r[1]].status # "absent"
    BY DEF Due, BookInv, TypeOK, Made
<1>2. j \in JobType /\ j.due = Due
    BY <1>1 DEF NoJob, JobType
<1>3. "send" \in Loc /\ Knows("send", j, booking, waiting)
    BY <1>1, <1>2 DEF Loc, Knows
<1>4. Goto(p, "send", j) /\ UNCHANGED <<alone, now, booking, reminder, waiting>>
    BY DEF ProcessReminders
<1> HIDE DEF j
<1> QED
    BY <1>2, <1>3, <1>4, OnlyMoves

LEMMA NextInQueueKeeps ==
    ASSUME BookInv, NEW p \in Requests, NextInQueue(p)
    PROVE  BookInv'
<1>1. UNCHANGED <<alone, now, booking, reminder, waiting>> /\ pc[p] = "queue"
    BY DEF NextInQueue
<1>2. CASE Done(p)
    BY <1>1, <1>2, DoneKeeps
<1>3. ASSUME NEW e \in Entries, waiting[e].status = "waiting",
             Goto(p, "notify", [job[p] EXCEPT !.entry = e])
      PROVE  BookInv'
    <2> DEFINE j == [job[p] EXCEPT !.entry = e]
    <2>1. job[p] \in JobType /\ Knows("queue", job[p], booking, waiting)
        BY <1>1 DEF BookInv, TypeOK
    <2>2. j \in JobType /\ j.id = job[p].id /\ j.entry = e
        BY <2>1 DEF JobType
    <2>3. Goto(p, "notify", j)
        BY <1>3
    <2> HIDE DEF j
    <2>4. "notify" \in Loc /\ Knows("notify", j, booking, waiting)
        BY <1>3, <2>1, <2>2 DEF Loc, Knows
    <2> QED
        BY <1>1, <2>2, <2>3, <2>4, OnlyMoves
<1> QED
    BY <1>2, <1>3 DEF NextInQueue

\* A new booking is the next of the table.
LEMMA NewBooking ==
    ASSUME BookInv, NEW k \in Bookings, k = Cardinality(Made) + 1
    PROVE  k \notin Made /\ booking[k].status = "absent"
<1>1. Made \subseteq 1 .. MaxBookings /\ MaxBookings \in Nat
    BY BookingAssumption DEF Made, Bookings
<1>2. Cardinality(Made) \in Nat
    BY <1>1, Counted
<1>3. Made = 1 .. Cardinality(Made)
    BY DEF BookInv, TypeOK
<1>4. k \notin Made
    BY <1>2, <1>3
<1> QED
    BY <1>4 DEF Made

LEMMA InsertBookingKeeps ==
    ASSUME BookInv, NEW p \in Requests, InsertBooking(p)
    PROVE  BookInv'
<1> DEFINE k == Cardinality(Made) + 1
           b == [staff |-> job[p].staff, start |-> job[p].start,
                 status |-> "requested", was |-> {"requested"}]
           j == [NoJob EXCEPT !.id = k, !.todo = Leads]
<1>1. /\ k \in Bookings /\ booking' = [booking EXCEPT ![k] = b]
      /\ Goto(p, "schedule", j) /\ UNCHANGED <<alone, now, reminder, waiting>>
    BY DEF InsertBooking
<1>2. k \notin Made /\ booking[k].status = "absent"
    BY <1>1, NewBooking
<1>3. job[p] \in JobType
    BY DEF BookInv, TypeOK
<1>4. b \in BookingType /\ b.status = "requested" /\ Backed(b)
    BY <1>3, Statuses DEF BookingType, JobType, Backed
<1>5. j \in JobType /\ j.id = k
    BY <1>1 DEF NoJob, JobType
<1>6. Made \subseteq 1 .. MaxBookings /\ MaxBookings \in Nat
    BY BookingAssumption DEF Made, Bookings
<1>7. Cardinality(Made) \in Nat
    BY <1>6, Counted
<1> HIDE DEF b, j
<1>8. booking \in [Bookings -> BookingType]
    BY DEF BookInv, TypeOK
<1>9. /\ booking' \in [Bookings -> BookingType] /\ booking'[k] = b
      /\ \A i \in Bookings : i # k => booking'[i] = booking[i]
    BY <1>1, <1>4, <1>8
<1>10. Made' = Made \cup {k}
    BY <1>1, <1>4, <1>9 DEF Made
<1>11. Made' = 1 .. Cardinality(Made')
    <2>1. Made = 1 .. Cardinality(Made)
        BY DEF BookInv, TypeOK
    <2> QED
        BY <1>7, <1>10, <2>1, FilledNext
<1>12. Grown(booking, booking', waiting, waiting')
    BY <1>1, <1>2, <1>9 DEF Grown
<1>13. Knows("schedule", j, booking', waiting')
    BY <1>1, <1>4, <1>5, <1>9 DEF Knows
<1>14. "schedule" \in Loc
    BY DEF Loc
<1>15. /\ pc' \in [Requests -> Loc] /\ job' \in [Requests -> JobType]
       /\ \A q \in Requests : Knows(pc'[q], job'[q], booking', waiting')
    BY <1>1, <1>5, <1>12, <1>13, <1>14, Moves
<1>16. Queued' = Queued
    BY <1>1 DEF Queued
<1>17. TypeOK'
    BY <1>1, <1>9, <1>10, <1>11, <1>15, <1>16 DEF BookInv, TypeOK, Loc
<1>18. \A i \in Bookings : Backed(booking'[i])
    BY <1>4, <1>9 DEF BookInv
<1>19. \A e \in Entries : waiting'[e].freed # 0 =>
           /\ booking'[waiting'[e].freed].status # "absent"
           /\ "cancelled" \in booking'[waiting'[e].freed].was
    <2> SUFFICES ASSUME NEW e \in Entries, waiting[e].freed # 0
                 PROVE  /\ booking'[waiting[e].freed].status # "absent"
                        /\ "cancelled" \in booking'[waiting[e].freed].was
        BY <1>1
    <2>1. waiting[e].freed \in Bookings
        BY DEF BookInv, TypeOK
    <2> QED
        BY <1>12, <2>1 DEF BookInv, Grown
<1> QED
    BY <1>15, <1>17, <1>18, <1>19 DEF BookInv

\* A request writes a reminder of a booking that exists.
LEMMA RemindsKeeps ==
    ASSUME BookInv, NEW p \in Requests, NEW loc \in Loc, NEW j \in JobType,
           Goto(p, loc, j), Knows(loc, j, booking, waiting),
           UNCHANGED <<alone, now, booking, waiting>>,
           NEW k \in Made, NEW m \in Leads, NEW w \in {"pending", "sent"},
           reminder' = [reminder EXCEPT ![k][m] = w]
    PROVE  BookInv'
<1>1. Grown(booking, booking', waiting, waiting') /\ Knows(loc, j, booking', waiting')
    BY DEF Grown
<1>2. /\ pc' \in [Requests -> Loc] /\ job' \in [Requests -> JobType]
      /\ \A q \in Requests : Knows(pc'[q], job'[q], booking', waiting')
    BY <1>1, Moves
<1>3. Made' = Made /\ Queued' = Queued
    BY DEF Made, Queued
<1>4. /\ reminder \in [Bookings -> [Leads -> {"absent", "pending", "sent"}]]
      /\ \A i \in Bookings : \A n \in Leads : reminder[i][n] # "absent" => i \in Made
      /\ k \in Bookings
    BY DEF BookInv, TypeOK, Made
<1>5. /\ reminder' \in [Bookings -> [Leads -> {"absent", "pending", "sent"}]]
      /\ \A i \in Bookings : i # k => reminder'[i] = reminder[i]
    BY <1>4
<1>6. \A i \in Bookings : \A n \in Leads : reminder'[i][n] # "absent" => i \in Made
    BY <1>4, <1>5
<1>7. TypeOK'
    BY <1>2, <1>3, <1>5, <1>6 DEF BookInv, TypeOK, Loc
<1> QED
    BY <1>2, <1>7 DEF BookInv

LEMMA ScheduleReminderKeeps ==
    ASSUME BookInv, NEW p \in Requests, ScheduleReminder(p)
    PROVE  BookInv'
<1>1. /\ pc[p] = "schedule" /\ job[p] \in JobType /\ Knows("schedule", job[p], booking, waiting)
      /\ UNCHANGED <<alone, now, booking, waiting>>
    BY DEF ScheduleReminder, BookInv, TypeOK
<1>2. job[p].id \in Made
    BY <1>1 DEF Knows, Made
<1>3. PICK m \in job[p].todo :
          /\ reminder' = [reminder EXCEPT ![job[p].id][m] = "pending"]
          /\ IF job[p].todo = {m} THEN Done(p)
             ELSE Goto(p, "schedule", [job[p] EXCEPT !.todo = @ \ {m}])
    BY DEF ScheduleReminder
<1>4. m \in Leads
    BY <1>1, <1>3 DEF JobType
<1>5. CASE Done(p)
    <2>1. "idle" \in Loc /\ NoJob \in JobType /\ Knows("idle", NoJob, booking, waiting)
          /\ Goto(p, "idle", NoJob)
        BY <1>5, NoJobFits DEF Loc, Done
    <2> QED
        BY <1>1, <1>2, <1>3, <1>4, <2>1, RemindsKeeps
<1>6. CASE Goto(p, "schedule", [job[p] EXCEPT !.todo = @ \ {m}])
    <2> DEFINE j == [job[p] EXCEPT !.todo = @ \ {m}]
    <2>1. j \in JobType /\ j.id = job[p].id
        BY <1>1 DEF JobType
    <2>2. Goto(p, "schedule", j)
        BY <1>6
    <2> HIDE DEF j
    <2>3. "schedule" \in Loc /\ Knows("schedule", j, booking, waiting)
        BY <1>1, <2>1 DEF Loc, Knows
    <2> QED
        BY <1>1, <1>2, <1>3, <1>4, <2>1, <2>2, <2>3, RemindsKeeps
<1> QED
    BY <1>3, <1>5, <1>6

LEMMA FailKeeps ==
    ASSUME BookInv, NEW p \in Requests, Fail(p)
    PROVE  BookInv'
BY DoneKeeps DEF Fail

LEMMA TickKeeps ==
    ASSUME BookInv, Tick
    PROVE  BookInv'
<1>1. UNCHANGED <<alone, booking, reminder, waiting, pc, job>> /\ now' \in 0 .. Horizon
    BY BookingAssumption DEF Tick, BookInv, TypeOK
<1>2. /\ pc' \in [Requests -> Loc] /\ job' \in [Requests -> JobType]
      /\ \A q \in Requests : Knows(pc'[q], job'[q], booking', waiting')
    BY <1>1, Stays DEF Grown
<1>3. Made' = Made /\ Queued' = Queued
    BY <1>1 DEF Made, Queued
<1> QED
    BY <1>1, <1>2, <1>3 DEF BookInv, TypeOK, Loc

LEMMA SendReminderKeeps ==
    ASSUME BookInv, NEW p \in Requests, SendReminder(p)
    PROVE  BookInv'
<1>1. /\ pc[p] = "send" /\ job[p] \in JobType /\ Knows("send", job[p], booking, waiting)
      /\ UNCHANGED <<alone, now, booking, waiting>>
    BY DEF SendReminder, BookInv, TypeOK
<1>2. PICK r \in job[p].due :
          /\ reminder' = [reminder EXCEPT ![r[1]][r[2]] = "sent"]
          /\ IF job[p].due = {r} THEN Done(p)
             ELSE Goto(p, "send", [job[p] EXCEPT !.due = @ \ {r}])
    BY DEF SendReminder
<1>3. r[1] \in Bookings /\ r[2] \in Leads
    BY <1>1, <1>2 DEF JobType
<1>4. r[1] \in Made
    BY <1>1, <1>2, <1>3 DEF Knows, Made
<1>5. CASE Done(p)
    <2>1. "idle" \in Loc /\ NoJob \in JobType /\ Knows("idle", NoJob, booking, waiting)
          /\ Goto(p, "idle", NoJob)
        BY <1>5, NoJobFits DEF Loc, Done
    <2> QED
        BY <1>1, <1>2, <1>3, <1>4, <2>1, RemindsKeeps
<1>6. CASE Goto(p, "send", [job[p] EXCEPT !.due = @ \ {r}])
    <2> DEFINE j == [job[p] EXCEPT !.due = @ \ {r}]
    <2>1. j \in JobType /\ j.due \subseteq job[p].due
        BY <1>1 DEF JobType
    <2>2. Goto(p, "send", j)
        BY <1>6
    <2> HIDE DEF j
    <2>3. "send" \in Loc /\ Knows("send", j, booking, waiting)
        BY <1>1, <2>1 DEF Loc, Knows
    <2> QED
        BY <1>1, <1>2, <1>3, <1>4, <2>1, <2>2, <2>3, RemindsKeeps
<1> QED
    BY <1>2, <1>5, <1>6

\* The new status follows one the booking had: what it needs is in the history.
LEMMA WriteStatusKeeps ==
    ASSUME BookInv, NEW p \in Requests, WriteStatus(p)
    PROVE  BookInv'
<1> DEFINE k == job[p].id
           to == job[p].to
           b == [booking[k] EXCEPT !.status = to, !.was = @ \cup {to}]
<1>1. /\ pc[p] = "status" /\ job[p] \in JobType /\ Knows("status", job[p], booking, waiting)
      /\ booking \in [Bookings -> BookingType] /\ UNCHANGED <<alone, now, reminder, waiting>>
    BY DEF WriteStatus, BookInv, TypeOK
<1>2. /\ k \in Bookings /\ booking[k].status # "absent" /\ to \in Status
      /\ \E s \in booking[k].was : to \in After[s]
    BY <1>1 DEF Knows
<1>3. booking[k] \in BookingType /\ Backed(booking[k])
    BY <1>1, <1>2 DEF BookInv
<1>4. /\ b \in BookingType /\ b.status = to /\ b.was = booking[k].was \cup {to}
      /\ b.staff = booking[k].staff /\ b.start = booking[k].start
    BY <1>2, <1>3 DEF BookingType
<1>5. booking' = [booking EXCEPT ![k] = b]
    BY <1>1, <1>2 DEF WriteStatus
<1>6. Backed(b)
    <2>1. PICK s \in booking[k].was : to \in After[s]
        BY <1>2
    <2>2. s \in Status
        BY <1>3, <2>1, BackedType
    <2>3. /\ to \in {"in_progress", "rescheduled"} => s = "confirmed"
          /\ to \in {"completed", "no_show"} => s = "in_progress"
        BY <2>1, <2>2, Transitions
    <2>4. /\ "requested" \in booking[k].was
          /\ booking[k].was \cap {"in_progress", "completed", "no_show", "rescheduled"} # {}
                 => "confirmed" \in booking[k].was
          /\ booking[k].was \cap {"completed", "no_show"} # {} => "in_progress" \in booking[k].was
        BY <1>2, <1>3 DEF Backed
    <2>5. /\ to \in {"in_progress", "rescheduled"} => "confirmed" \in booking[k].was
          /\ to \in {"completed", "no_show"} => "in_progress" \in booking[k].was
        BY <2>1, <2>3
    <2> HIDE DEF b, k, to
    <2>6. {"requested", b.status} \subseteq b.was
        BY <1>4, <2>4
    <2>7. b.was \cap {"in_progress", "completed", "no_show", "rescheduled"} # {}
              => "confirmed" \in b.was
        BY <1>4, <2>4, <2>5
    <2>8. b.was \cap {"completed", "no_show"} # {} => "in_progress" \in b.was
        BY <1>4, <2>4, <2>5
    <2> QED
        BY <2>6, <2>7, <2>8 DEF Backed
<1>7. (Goto(p, "queue", job[p]) /\ to = "cancelled") \/ Done(p)
    BY DEF WriteStatus
<1>8. to # "absent"
    BY <1>2, Statuses
<1> HIDE DEF b, k, to
<1>9. /\ booking' \in [Bookings -> BookingType] /\ booking'[k] = b
      /\ \A i \in Bookings : i # k => booking'[i] = booking[i]
    BY <1>1, <1>2, <1>4, <1>5
<1>10. Grown(booking, booking', waiting, waiting')
    BY <1>1, <1>2, <1>4, <1>8, <1>9 DEF Grown
<1>11. /\ pc' \in [Requests -> Loc] /\ job' \in [Requests -> JobType]
       /\ \A q \in Requests : Knows(pc'[q], job'[q], booking', waiting')
    <2>1. CASE Goto(p, "queue", job[p]) /\ to = "cancelled"
        <3>1. Knows("queue", job[p], booking', waiting')
            BY <1>2, <1>4, <1>8, <1>9, <2>1 DEF Knows, k
        <3>2. "queue" \in Loc
            BY DEF Loc
        <3> QED
            BY <1>1, <1>10, <2>1, <3>1, <3>2, Moves
    <2>2. CASE Done(p)
        <3>1. "idle" \in Loc /\ NoJob \in JobType /\ Goto(p, "idle", NoJob)
              /\ Knows("idle", NoJob, booking', waiting')
            BY <2>2, NoJobFits DEF Loc, Done
        <3> QED
            BY <1>10, <3>1, Moves
    <2> QED
        BY <1>7, <2>1, <2>2
<1>12. Made' = Made /\ Queued' = Queued
    BY <1>1, <1>2, <1>4, <1>8, <1>9 DEF Made, Queued
<1>13. TypeOK'
    BY <1>1, <1>9, <1>11, <1>12 DEF BookInv, TypeOK, Loc
<1>14. \A i \in Bookings : Backed(booking'[i])
    BY <1>6, <1>9 DEF BookInv
<1>15. \A e \in Entries : waiting'[e].freed # 0 =>
           /\ booking'[waiting'[e].freed].status # "absent"
           /\ "cancelled" \in booking'[waiting'[e].freed].was
    <2> SUFFICES ASSUME NEW e \in Entries, waiting[e].freed # 0
                 PROVE  /\ booking'[waiting[e].freed].status # "absent"
                        /\ "cancelled" \in booking'[waiting[e].freed].was
        BY <1>1
    <2>1. waiting[e].freed \in Bookings
        BY DEF BookInv, TypeOK
    <2> QED
        BY <1>10, <2>1 DEF BookInv, Grown
<1> QED
    BY <1>11, <1>13, <1>14, <1>15 DEF BookInv

\* The waiting list changes and no booking does.
LEMMA ListChanges ==
    ASSUME BookInv, UNCHANGED <<alone, now, booking, reminder>>,
           NEW e \in Entries, NEW w, w \in [status : {"waiting", "notified"},
                                            freed : Bookings \cup {0}],
           waiting' = [waiting EXCEPT ![e] = w],
           Queued' = 1 .. Cardinality(Queued'),
           w.freed # 0 => /\ booking[w.freed].status # "absent"
                          /\ "cancelled" \in booking[w.freed].was,
           /\ pc' \in [Requests -> Loc] /\ job' \in [Requests -> JobType]
           /\ \A q \in Requests : Knows(pc'[q], job'[q], booking', waiting')
    PROVE  BookInv'
<1>1. waiting \in [Entries -> [status : {"absent", "waiting", "notified"},
                               freed : Bookings \cup {0}]]
    BY DEF BookInv, TypeOK
<1>2. /\ waiting' \in [Entries -> [status : {"absent", "waiting", "notified"},
                                   freed : Bookings \cup {0}]]
      /\ waiting'[e] = w /\ \A f \in Entries : f # e => waiting'[f] = waiting[f]
    BY <1>1
<1>3. Made' = Made
    BY DEF Made
<1>4. TypeOK'
    BY <1>2, <1>3 DEF BookInv, TypeOK, Loc
<1>5. \A f \in Entries : waiting'[f].freed # 0 =>
           /\ booking'[waiting'[f].freed].status # "absent"
           /\ "cancelled" \in booking'[waiting'[f].freed].was
    BY <1>2 DEF BookInv
<1> QED
    BY <1>4, <1>5 DEF BookInv

LEMMA NotifyNextKeeps ==
    ASSUME BookInv, NEW p \in Requests, NotifyNext(p)
    PROVE  BookInv'
<1> DEFINE e == job[p].entry
           w == [status |-> "notified", freed |-> job[p].id]
<1>1. /\ pc[p] = "notify" /\ job[p] \in JobType /\ Knows("notify", job[p], booking, waiting)
      /\ waiting' = [waiting EXCEPT ![e] = w] /\ Done(p)
      /\ UNCHANGED <<alone, now, booking, reminder>>
    BY DEF NotifyNext, BookInv, TypeOK
<1>2. /\ e \in Entries /\ waiting[e].status # "absent" /\ job[p].id \in Bookings
      /\ booking[job[p].id].status # "absent" /\ "cancelled" \in booking[job[p].id].was
    BY <1>1 DEF Knows
<1>3. w \in [status : {"waiting", "notified"}, freed : Bookings \cup {0}] /\ w.freed = job[p].id
      /\ w.status = "notified"
    BY <1>2
<1> HIDE DEF e, w
<1>4. waiting \in [Entries -> [status : {"absent", "waiting", "notified"},
                               freed : Bookings \cup {0}]]
    BY DEF BookInv, TypeOK
<1>5. DOMAIN waiting' = Entries /\ waiting'[e] = w
      /\ \A f \in Entries : f # e => waiting'[f] = waiting[f]
    BY <1>1, <1>2, <1>4
<1>6. Queued' = Queued
    BY <1>2, <1>3, <1>5 DEF Queued
<1>7. Queued' = 1 .. Cardinality(Queued')
    BY <1>6 DEF BookInv, TypeOK
<1>8. Grown(booking, booking', waiting, waiting')
    BY <1>1, <1>3, <1>5 DEF Grown
<1>9. "idle" \in Loc /\ NoJob \in JobType /\ Goto(p, "idle", NoJob)
      /\ Knows("idle", NoJob, booking', waiting')
    BY <1>1, NoJobFits DEF Loc, Done
<1>10. /\ pc' \in [Requests -> Loc] /\ job' \in [Requests -> JobType]
       /\ \A q \in Requests : Knows(pc'[q], job'[q], booking', waiting')
    BY <1>8, <1>9, Moves
<1>11. w.freed # 0 => booking[w.freed].status # "absent" /\ "cancelled" \in booking[w.freed].was
    BY <1>2, <1>3
<1> QED
    BY <1>1, <1>2, <1>3, <1>7, <1>10, <1>11, ListChanges

\* The waiting list is changed by hand.
LEMMA ByHand ==
    ASSUME BookInv, NEW e \in Entries, NEW s \in {"waiting", "notified"},
           waiting' = [waiting EXCEPT ![e].status = s],
           Queued' = 1 .. Cardinality(Queued'),
           UNCHANGED <<alone, now, booking, reminder, pc, job>>
    PROVE  BookInv'
<1> DEFINE w == [waiting[e] EXCEPT !.status = s]
<1>1. waiting \in [Entries -> [status : {"absent", "waiting", "notified"},
                               freed : Bookings \cup {0}]]
    BY DEF BookInv, TypeOK
<1>2. w \in [status : {"waiting", "notified"}, freed : Bookings \cup {0}]
      /\ w.freed = waiting[e].freed /\ w.status = s
    BY <1>1
<1>3. waiting' = [waiting EXCEPT ![e] = w]
    BY <1>1
<1> HIDE DEF w
<1>4. waiting'[e] = w /\ \A f \in Entries : f # e => waiting'[f] = waiting[f]
    BY <1>1, <1>3
<1>5. Grown(booking, booking', waiting, waiting')
    BY <1>2, <1>4 DEF Grown
<1>6. /\ pc' \in [Requests -> Loc] /\ job' \in [Requests -> JobType]
      /\ \A q \in Requests : Knows(pc'[q], job'[q], booking', waiting')
    BY <1>5, Stays
<1>7. w.freed # 0 => booking[w.freed].status # "absent" /\ "cancelled" \in booking[w.freed].was
    BY <1>2 DEF BookInv
<1> QED
    BY <1>2, <1>3, <1>6, <1>7, ListChanges

LEMMA AddToWaitingListKeeps ==
    ASSUME BookInv, AddToWaitingList
    PROVE  BookInv'
<1> DEFINE e == Cardinality(Queued) + 1
<1>1. /\ e \in Entries /\ waiting' = [waiting EXCEPT ![e].status = "waiting"]
      /\ UNCHANGED <<alone, now, booking, reminder, pc, job>>
    BY DEF AddToWaitingList
<1>2. Queued \subseteq 1 .. MaxEntries /\ MaxEntries \in Nat
    BY BookingAssumption DEF Queued, Entries
<1>3. Cardinality(Queued) \in Nat
    BY <1>2, Counted
<1>4. waiting \in [Entries -> [status : {"absent", "waiting", "notified"},
                               freed : Bookings \cup {0}]]
    BY DEF BookInv, TypeOK
<1> HIDE DEF e
<1>5. waiting'[e].status = "waiting" /\ \A f \in Entries : f # e => waiting'[f] = waiting[f]
    BY <1>1, <1>4
<1>6. Queued' = Queued \cup {e}
    BY <1>1, <1>5 DEF Queued
<1>7. Queued = 1 .. Cardinality(Queued)
    BY DEF BookInv, TypeOK
<1>8. Queued' = 1 .. Cardinality(Queued')
    BY <1>3, <1>6, <1>7, FilledNext DEF e
<1>9. "waiting" \in {"waiting", "notified"}
    OBVIOUS
<1> QED
    BY <1>1, <1>8, <1>9, ByHand

LEMMA MarkNotifiedKeeps ==
    ASSUME BookInv, NEW e \in Entries, MarkNotified(e)
    PROVE  BookInv'
<1>1. /\ waiting[e].status = "waiting" /\ waiting' = [waiting EXCEPT ![e].status = "notified"]
      /\ UNCHANGED <<alone, now, booking, reminder, pc, job>>
    BY DEF MarkNotified
<1>2. waiting \in [Entries -> [status : {"absent", "waiting", "notified"},
                               freed : Bookings \cup {0}]]
    BY DEF BookInv, TypeOK
<1>3. waiting'[e].status = "notified" /\ \A f \in Entries : f # e => waiting'[f] = waiting[f]
    BY <1>1, <1>2
<1>4. Queued' = Queued
    BY <1>1, <1>3 DEF Queued
<1>5. Queued' = 1 .. Cardinality(Queued')
    BY <1>4 DEF BookInv, TypeOK
<1>6. "notified" \in {"waiting", "notified"}
    OBVIOUS
<1> QED
    BY <1>1, <1>5, <1>6, ByHand

-----------------------------------------------------------------------------
LEMMA StepKeeps == BookInv /\ [Next]_vars => BookInv'
<1> SUFFICES ASSUME BookInv, [Next]_vars PROVE BookInv'
    OBVIOUS
<1>1. ASSUME NEW p \in Requests, Step(p) PROVE BookInv'
    <2>1. CASE \E s \in Staff \cup {NoStaff} : \E t \in Starts : CreateBooking(p, s, t)
        BY <2>1, CreateBookingKeeps
    <2>2. CASE \E k \in Bookings : \/ \E m \in Leads : AddReminder(p, k, m)
                                   \/ \E to \in Status : UpdateBookingStatus(p, k, to)
        BY <2>2, AddReminderKeeps, UpdateBookingStatusKeeps
    <2>3. CASE InsertBooking(p) \/ ScheduleReminder(p) \/ ProcessReminders(p) \/ SendReminder(p)
        BY <2>3, InsertBookingKeeps, ScheduleReminderKeeps, ProcessRemindersKeeps,
           SendReminderKeeps
    <2>4. CASE WriteStatus(p) \/ NextInQueue(p) \/ NotifyNext(p) \/ Fail(p)
        BY <2>4, WriteStatusKeeps, NextInQueueKeeps, NotifyNextKeeps, FailKeeps
    <2> QED
        BY <1>1, <2>1, <2>2, <2>3, <2>4 DEF Step
<1>2. CASE AddToWaitingList \/ Tick \/ \E e \in Entries : MarkNotified(e)
    BY <1>2, AddToWaitingListKeeps, TickKeeps, MarkNotifiedKeeps
<1>3. CASE UNCHANGED vars
    <2>1. UNCHANGED <<alone, now, booking, reminder, waiting, pc, job>>
        BY <1>3 DEF vars
    <2>2. Made' = Made /\ Queued' = Queued
        BY <2>1 DEF Made, Queued
    <2>3. /\ pc' \in [Requests -> Loc] /\ job' \in [Requests -> JobType]
          /\ \A q \in Requests : Knows(pc'[q], job'[q], booking', waiting')
        BY <2>1, Stays DEF Grown
    <2> QED
        BY <2>1, <2>2, <2>3 DEF BookInv, TypeOK, Loc
<1> QED
    BY <1>1, <1>2, <1>3 DEF Next

LEMMA AlwaysBooks == Spec => []BookInv
<1>1. Init => BookInv
    BY InitHolds
<1>2. BookInv /\ [Next]_vars => BookInv'
    BY StepKeeps
<1> QED
    BY <1>1, <1>2, PTL DEF Spec

\* Rows and requests keep their types, tables are filled in order and reminders
\* are of bookings that exist, for any numbers of all of them.
THEOREM TypeCorrect == Spec => []TypeOK
<1>1. BookInv => TypeOK
    BY DEF BookInv
<1> QED
    BY <1>1, AlwaysBooks, PTL

\* A status is written on a read awaits before, so a booking may take a
\* transition from a status it has left; it never takes one that needed a
\* status it never had.
THEOREM NeverUnconfirmed == Spec => []ConfirmedFirst
<1>1. BookInv => ConfirmedFirst
    BY DEF BookInv, Backed, ConfirmedFirst, Made
<1> QED
    BY <1>1, AlwaysBooks, PTL

-----------------------------------------------------------------------------
(* The slots that are offered.                                             *)

\* Quotient and remainder by the length of a day.
LEMMA DayOf ==
    ASSUME NEW x \in Nat
    PROVE  /\ x \div DayLength \in Nat
           /\ (x \div DayLength) * DayLength <= x
           /\ x < (x \div DayLength) * DayLength + DayLength
BY BookingAssumption

LEMMA TimesMonotone ==
    ASSUME NEW a \in Nat, NEW b \in Nat, a < b
    PROVE  a * DayLength + DayLength <= b * DayLength
BY BookingAssumption

\* Two times between which no midnight lies are on one day.
LEMMA SameDay ==
    ASSUME NEW d \in Nat, NEW x \in Nat, NEW y \in Nat,
           x \div DayLength = y \div DayLength,
           x < d * DayLength + DayLength, y > d * DayLength
    PROVE  x >= d * DayLength /\ y < d * DayLength + DayLength
<1>1. PICK e \in Nat : e = x \div DayLength BY DayOf
<1>2. /\ e * DayLength <= x /\ y < e * DayLength + DayLength
      /\ e * DayLength \in Nat /\ d * DayLength \in Nat
  BY <1>1, DayOf, BookingAssumption
<1>3. ~ d < e
  <2>1. d < e => d * DayLength + DayLength <= e * DayLength BY TimesMonotone
  <2> QED BY <1>2, <2>1, BookingAssumption
<1>4. ~ e < d
  <2>1. e < d => e * DayLength + DayLength <= d * DayLength BY TimesMonotone
  <2> QED BY <1>2, <2>1, BookingAssumption
<1>5. e = d BY <1>1, <1>3, <1>4
<1> QED BY <1>2, <1>5

\* A slot that is offered lies within its day, and no booking of that day
\* touches it.
LEMMA OfferedFree ==
    ASSUME Closes <= DayLength, NEW d \in Nat, NEW s \in Staff \cup {NoStaff},
           NEW t \in Offered(d, s)
    PROVE  /\ t \in Nat /\ d * DayLength <= t /\ t + Duration <= d * DayLength + DayLength
           /\ \A k \in Held(s) : booking[k].start < t + Duration /\ Ends(k) > t
                  => k \notin OnDay(Held(s), d)
           /\ 0 < Capacity
<1>1. t \in SlotStarts(d) /\ 0 < Capacity /\ Overlapping(OnDay(Held(s), d), t, t + Duration) = {}
  BY DEF Offered
<1>2. d * DayLength \in Nat BY BookingAssumption
<1> DEFINE base == d * DayLength
<1>3. t \in base + Opens .. base + Closes /\ t + Duration <= base + Closes
  BY <1>1 DEF SlotStarts
<1>4. base \in Nat BY <1>2
<1> HIDE DEF base
<1>5. t \in Nat /\ base <= t /\ t + Duration <= base + DayLength
  BY <1>3, <1>4, BookingAssumption
<1>6. \A k \in Held(s) : booking[k].start < t + Duration /\ Ends(k) > t
         => k \notin OnDay(Held(s), d)
  BY <1>1 DEF Overlapping
<1> QED BY <1>1, <1>5, <1>6 DEF base

\* A slot offered by the availability engine is granted by createBooking, for
\* every capacity, duration and set of bookings none of which runs over
\* midnight (the times of a schedule are times of day).
THEOREM OfferedIsGranted == ASSUME Closes <= DayLength PROVE Spec => []OfferedCanBeBooked
<1>1. ASSUME BookInv PROVE OfferedCanBeBooked
  <2> SUFFICES ASSUME NEW d \in Day, NEW s \in Staff \cup {NoStaff},
                      \A k \in Made : booking[k].start \div DayLength = Ends(k) \div DayLength,
                      NEW t \in Offered(d, s)
               PROVE  ~ Full(s, t)
    BY DEF OfferedCanBeBooked
  <2>1. d \in Nat
    BY DEF Day
  <2>2. /\ t \in Nat /\ d * DayLength <= t /\ t + Duration <= d * DayLength + DayLength
        /\ d * DayLength \in Nat /\ DayLength \in Nat /\ Duration \in Nat
        /\ 0 < Capacity /\ Capacity \in Nat
    BY <2>1, OfferedFree, BookingAssumption
  <2>3. ASSUME NEW k \in Held(s), booking[k].start < t + Duration, Ends(k) > t PROVE FALSE
    <3>1. k \in Made /\ booking[k] \in BookingType
      BY <1>1 DEF Held, BookInv, TypeOK, Made
    <3>2. booking[k].start \in Nat /\ Ends(k) \in Nat
      <4>1. booking[k].start \in Starts \cup {0}
        BY <3>1 DEF BookingType
      <4>2. \A x \in Starts \cup {0} : x \in Nat BY BookingAssumption
      <4>3. booking[k].start \in Nat BY <4>1, <4>2
      <4> QED BY <4>3, <2>2 DEF Ends
    <3>3. booking[k].start < d * DayLength + DayLength /\ Ends(k) > d * DayLength
      BY <2>2, <2>3, <3>2
    <3>4. booking[k].start >= d * DayLength /\ Ends(k) < d * DayLength + DayLength
      BY <2>1, <3>1, <3>2, <3>3, SameDay
    <3>5. (d + 1) * DayLength = d * DayLength + DayLength
      BY <2>1, BookingAssumption
    <3>6. k \in OnDay(Held(s), d)
      BY <3>4, <3>5 DEF OnDay
    <3> QED BY <2>1, <2>3, <3>6, OfferedFree
  <2>4. Overlapping(Held(s), t, t + Duration) = {}
    BY <2>3 DEF Overlapping
  <2>5. Cardinality(Overlapping(Held(s), t, t + Duration)) = 0
    BY <2>4, FS_EmptySet
  <2> QED BY <2>2, <2>5 DEF Full
<1> QED BY <1>1, AlwaysBooks, PTL

-----------------------------------------------------------------------------
(* Requests one at a time.                                                 *)

\* Bookings of one member of staff that hold their slot, those that overlap a
\* span of time, and those under way at a time.
Holding(bk, s) == {k \in Bookings : /\ bk[k].status \notin {"absent", "cancelled", "no_show"}
                                    /\ bk[k].staff = s}
Touching(bk, s, from, to) ==
    {k \in Holding(bk, s) : bk[k].start < to /\ bk[k].start + Duration > from}
UnderWay(bk, s, t) ==
    {k \in Holding(bk, s) : bk[k].start <= t /\ t < bk[k].start + Duration}

Room(bk) == \A s \in Staff : \A t \in Starts : Cardinality(UnderWay(bk, s, t)) <= Capacity

\* Each cancelled booking called one place at most.
Calls(bk, wt) ==
    \A e \in Entries : wt[e].freed # 0 =>
        /\ bk[wt[e].freed].status = "cancelled"
        /\ \A f \in Entries : wt[f].freed = wt[e].freed => f = e

\* What the request under way has read is still so.
Current(at, j, bk, rem, wt) ==
    /\ at = "insert" /\ j.staff \in Staff =>
           Cardinality(Touching(bk, j.staff, j.start, j.start + Duration)) < Capacity
    /\ at = "status" => j.to \in After[bk[j.id].status]
    /\ at \in {"queue", "notify"} =>
           bk[j.id].status = "cancelled" /\ \A e \in Entries : wt[e].freed # j.id
    /\ at = "send" => \A r \in j.due : /\ rem[r[1]][r[2]] = "pending"
                                       /\ bk[r[1]].status \notin {"cancelled", "no_show", "completed"}

OneAtATime == \A p, q \in Requests : pc[p] # "idle" /\ pc[q] # "idle" => p = q
Serial ==
    alone => /\ OneAtATime
             /\ \A q \in Requests : Current(pc[q], job[q], booking, reminder, waiting)
             /\ Room(booking) /\ Calls(booking, waiting)

Starting(p) == pc[p] = "idle" /\ \A q \in Requests : pc[q] = "idle"

LEMMA SerialInit == Init => Serial
<1> SUFFICES ASSUME Init PROVE Serial
    OBVIOUS
<1>1. OneAtATime /\ \A q \in Requests : Current(pc[q], job[q], booking, reminder, waiting)
    BY DEF Init, OneAtATime, Current
<1>2. Calls(booking, waiting)
    BY DEF Init, Calls
<1>3. Room(booking)
    <2>1. \A s : \A t : UnderWay(booking, s, t) = {}
        BY DEF Init, UnderWay, Holding
    <2>2. Cardinality({}) = 0
        BY FS_EmptySet
    <2>3. 0 <= Capacity
        BY BookingAssumption
    <2> QED
        BY <2>1, <2>2, <2>3 DEF Room
<1> QED
    BY <1>1, <1>2, <1>3 DEF Serial

\* The request that takes a step was the only one, or all were idle.
LEMMA SerialMoves ==
    ASSUME BookInv, Serial, alone, NEW p \in Requests, Starting(p) \/ pc[p] # "idle",
           NEW loc \in Loc, NEW j, Goto(p, loc, j),
           Current(loc, j, booking', reminder', waiting')
    PROVE  /\ OneAtATime'
           /\ \A q \in Requests : Current(pc'[q], job'[q], booking', reminder', waiting')
<1>1. pc \in [Requests -> Loc] /\ job \in [Requests -> JobType]
    BY DEF BookInv, TypeOK, Loc
<1>2. pc' = [pc EXCEPT ![p] = loc] /\ job' = [job EXCEPT ![p] = j]
    BY DEF Goto
<1>3. \A q \in Requests : q # p => pc[q] = "idle"
    BY DEF Serial, OneAtATime, Starting
<1>4. /\ pc'[p] = loc /\ job'[p] = j
      /\ \A q \in Requests : q # p => pc'[q] = "idle" /\ job'[q] = job[q]
    BY <1>1, <1>2, <1>3
<1>5. OneAtATime'
    BY <1>4 DEF OneAtATime
<1>6. \A q \in Requests : q # p => Current(pc'[q], job'[q], booking', reminder', waiting')
    BY <1>4 DEF Current
<1> QED
    BY <1>4, <1>5, <1>6

LEMMA SerialReads ==
    ASSUME BookInv, Serial, NEW p \in Requests, Ready(p) \/ pc[p] # "idle",
           NEW loc \in Loc, NEW j, Goto(p, loc, j),
           alone => Current(loc, j, booking, reminder, waiting),
           UNCHANGED <<alone, now, booking, reminder, waiting>>
    PROVE  Serial'
<1> SUFFICES ASSUME alone PROVE Serial'
    BY DEF Serial
<1>1. Starting(p) \/ pc[p] # "idle"
    BY DEF Starting, Ready
<1>2. Current(loc, j, booking', reminder', waiting')
    OBVIOUS
<1>3. /\ OneAtATime'
      /\ \A q \in Requests : Current(pc'[q], job'[q], booking', reminder', waiting')
    BY <1>1, <1>2, SerialMoves
<1> QED
    BY <1>3 DEF Serial

LEMMA SerialDone ==
    ASSUME BookInv, Serial, NEW p \in Requests, pc[p] # "idle", Done(p),
           UNCHANGED <<alone, now, booking, reminder, waiting>>
    PROVE  Serial'
<1>1. "idle" \in Loc /\ Goto(p, "idle", NoJob) /\ Current("idle", NoJob, booking, reminder, waiting)
    BY DEF Loc, Done, Current
<1> QED
    BY <1>1, SerialReads

\* The sets of the model and those of this proof.
LEMMA SameSets ==
    ASSUME NEW s \in Staff
    PROVE  /\ \A f, t : Overlapping(Held(s), f, t) = Touching(booking, s, f, t)
           /\ \A t : {k \in Held(NoStaff) : /\ booking[k].staff = s
                                            /\ booking[k].start <= t /\ t < Ends(k)}
                     = UnderWay(booking, s, t)
<1>1. s # NoStaff
    BY BookingAssumption
<1>2. Held(s) = Holding(booking, s)
    BY <1>1 DEF Held, Holding, Made
<1>3. {k \in Held(NoStaff) : booking[k].staff = s} = Holding(booking, s)
    BY DEF Held, Holding, Made
<1>4. \A f, t : Overlapping(Held(s), f, t) = Touching(booking, s, f, t)
    BY <1>2 DEF Overlapping, Touching, Ends
<1>5. \A t : {k \in Held(NoStaff) : /\ booking[k].staff = s
                                    /\ booking[k].start <= t /\ t < Ends(k)}
             = UnderWay(booking, s, t)
    BY <1>3 DEF UnderWay, Ends
<1> QED
    BY <1>4, <1>5

LEMMA CreateBookingSerial ==
    ASSUME BookInv, Serial, NEW p \in Requests, NEW s \in Staff \cup {NoStaff},
           NEW t \in Starts, CreateBooking(p, s, t)
    PROVE  Serial'
<1> DEFINE j == [NoJob EXCEPT !.staff = s, !.start = t]
<1>1. j.staff = s /\ j.start = t
    BY DEF NoJob
<1>2. /\ Goto(p, "insert", j) /\ UNCHANGED <<alone, now, booking, reminder, waiting>> /\ Ready(p)
      /\ Cardinality(Overlapping(Held(s), t, t + Duration)) < Capacity
    BY DEF CreateBooking
<1> HIDE DEF j
<1>3. s \in Staff => Cardinality(Touching(booking, s, t, t + Duration)) < Capacity
    BY <1>2, SameSets
<1>4. "insert" \in Loc /\ Current("insert", j, booking, reminder, waiting)
    BY <1>1, <1>3 DEF Loc, Current
<1> QED
    BY <1>2, <1>4, SerialReads

LEMMA AddReminderSerial ==
    ASSUME BookInv, Serial, NEW p \in Requests, NEW k \in Bookings, NEW m \in Leads,
           AddReminder(p, k, m)
    PROVE  Serial'
<1> DEFINE j == [NoJob EXCEPT !.id = k, !.todo = {m}]
<1>1. /\ Goto(p, "schedule", j) /\ UNCHANGED <<alone, now, booking, reminder, waiting>> /\ Ready(p)
    BY DEF AddReminder
<1> HIDE DEF j
<1>2. "schedule" \in Loc /\ Current("schedule", j, booking, reminder, waiting)
    BY DEF Loc, Current
<1> QED
    BY <1>1, <1>2, SerialReads

LEMMA UpdateBookingStatusSerial ==
    ASSUME BookInv, Serial, NEW p \in Requests, NEW k \in Bookings, NEW to \in Status,
           UpdateBookingStatus(p, k, to)
    PROVE  Serial'
<1> DEFINE j == [NoJob EXCEPT !.id = k, !.to = to]
<1>1. j.id = k /\ j.to = to
    BY DEF NoJob
<1>2. /\ Goto(p, "status", j) /\ UNCHANGED <<alone, now, booking, reminder, waiting>> /\ Ready(p)
      /\ to \in After[booking[k].status]
    BY DEF UpdateBookingStatus
<1> HIDE DEF j
<1>3. "status" \in Loc /\ Current("status", j, booking, reminder, waiting)
    BY <1>1, <1>2 DEF Loc, Current
<1> QED
    BY <1>2, <1>3, SerialReads

LEMMA ProcessRemindersSerial ==
    ASSUME BookInv, Serial, NEW p \in Requests, ProcessReminders(p)
    PROVE  Serial'
<1> DEFINE j == [NoJob EXCEPT !.due = Due]
<1>1. j.due = Due
    BY DEF NoJob
<1>2. /\ Goto(p, "send", j) /\ UNCHANGED <<alone, now, booking, reminder, waiting>> /\ Ready(p)
    BY DEF ProcessReminders
<1> HIDE DEF j
<1>3. "send" \in Loc /\ Current("send", j, booking, reminder, waiting)
    BY <1>1 DEF Loc, Current, Due
<1> QED
    BY <1>2, <1>3, SerialReads

LEMMA NextInQueueSerial ==
    ASSUME BookInv, Serial, NEW p \in Requests, NextInQueue(p)
    PROVE  Serial'
<1>1. UNCHANGED <<alone, now, booking, reminder, waiting>> /\ pc[p] = "queue" /\ pc[p] # "idle"
    BY DEF NextInQueue
<1>2. CASE Done(p)
    BY <1>1, <1>2, SerialDone
<1>3. ASSUME NEW e \in Entries, Goto(p, "notify", [job[p] EXCEPT !.entry = e])
      PROVE  Serial'
    <2> DEFINE j == [job[p] EXCEPT !.entry = e]
    <2>1. job[p] \in JobType
        BY DEF BookInv, TypeOK
    <2>2. j.id = job[p].id
        BY <2>1 DEF JobType
    <2>3. Goto(p, "notify", j)
        BY <1>3
    <2> HIDE DEF j
    <2>4. alone => Current("queue", job[p], booking, reminder, waiting)
        BY <1>1 DEF Serial
    <2>5. "notify" \in Loc /\ (alone => Current("notify", j, booking, reminder, waiting))
        BY <2>2, <2>4 DEF Loc, Current
    <2> QED
        BY <1>1, <2>3, <2>5, SerialReads
<1> QED
    BY <1>2, <1>3 DEF NextInQueue

\* Fewer bookings, or the same, hold their slot.
LEMMA RoomStays ==
    ASSUME NEW bk, NEW bkNext, Room(bk),
           \A s \in Staff : \A t \in Starts : UnderWay(bkNext, s, t) \subseteq UnderWay(bk, s, t)
    PROVE  Room(bkNext)
<1> SUFFICES ASSUME NEW s \in Staff, NEW t \in Starts
             PROVE  Cardinality(UnderWay(bkNext, s, t)) <= Capacity
    BY DEF Room
<1>1. UnderWay(bk, s, t) \subseteq 1 .. MaxBookings /\ MaxBookings \in Nat /\ Capacity \in Nat
    BY BookingAssumption DEF UnderWay, Holding, Bookings
<1>2. IsFiniteSet(UnderWay(bk, s, t)) /\ Cardinality(UnderWay(bk, s, t)) \in Nat
    BY <1>1, Counted
<1>3. /\ IsFiniteSet(UnderWay(bkNext, s, t))
      /\ Cardinality(UnderWay(bkNext, s, t)) <= Cardinality(UnderWay(bk, s, t))
    BY <1>2, FS_Subset
<1>4. Cardinality(UnderWay(bkNext, s, t)) \in Nat
    BY <1>3, FS_CardinalityType
<1>5. Cardinality(UnderWay(bk, s, t)) <= Capacity
    BY DEF Room
<1> QED
    BY <1>1, <1>2, <1>3, <1>4, <1>5

\* The row counted no booking that the new one would overlap beyond the capacity.
LEMMA InsertRoom ==
    ASSUME BookInv, Room(booking), NEW k \in Bookings, NEW b \in BookingType,
           b.staff \in Staff =>
               Cardinality(Touching(booking, b.staff, b.start, b.start + Duration)) < Capacity,
           booking' = [booking EXCEPT ![k] = b], booking[k].status = "absent"
    PROVE  Room(booking')
<1> SUFFICES ASSUME NEW s \in Staff, NEW t \in Starts
             PROVE  Cardinality(UnderWay(booking', s, t)) <= Capacity
    BY DEF Room
<1>1. booking \in [Bookings -> BookingType]
    BY DEF BookInv, TypeOK
<1>2. booking'[k] = b /\ \A i \in Bookings : i # k => booking'[i] = booking[i]
    BY <1>1
<1>3. /\ Bookings \subseteq 1 .. MaxBookings /\ MaxBookings \in Nat
      /\ Capacity \in Nat /\ Duration \in Nat /\ t \in Nat
      /\ \A i \in Bookings : booking[i].start \in Nat
      /\ b.start \in Nat
    <2>1. \A x \in Starts \cup {0} : x \in Nat
        BY BookingAssumption
    <2>2. b.start \in Starts \cup {0} /\ \A i \in Bookings : booking[i].start \in Starts \cup {0}
        BY <1>1 DEF BookingType
    <2>3. /\ Bookings \subseteq 1 .. MaxBookings /\ MaxBookings \in Nat
          /\ Capacity \in Nat /\ Duration \in Nat /\ t \in Nat
        BY BookingAssumption DEF Bookings
    <2> QED
        BY <2>1, <2>2, <2>3
<1>4. CASE s = b.staff /\ b.start <= t /\ t < b.start + Duration
    <2> DEFINE T == Touching(booking, s, b.start, b.start + Duration)
    <2>1. T \subseteq 1 .. MaxBookings
        BY <1>3 DEF Touching, Holding
    <2>2. IsFiniteSet(T) /\ Cardinality(T) \in Nat
        BY <1>3, <2>1, Counted
    <2>3. UnderWay(booking', s, t) \subseteq T \cup {k}
        <3> SUFFICES ASSUME NEW i \in UnderWay(booking', s, t), i # k PROVE i \in T
            OBVIOUS
        <3>1. /\ i \in Holding(booking', s) /\ booking'[i].start <= t
              /\ t < booking'[i].start + Duration
            BY DEF UnderWay
        <3>2. i \in Bookings /\ booking'[i] = booking[i]
            BY <1>2, <3>1 DEF Holding
        <3>3. i \in Holding(booking, s)
            BY <3>1, <3>2 DEF Holding
        <3>4. booking[i].start < b.start + Duration /\ booking[i].start + Duration > b.start
            BY <1>3, <1>4, <3>1, <3>2
        <3> QED
            BY <3>3, <3>4 DEF Touching
    <2>5. Cardinality(T) < Capacity
        BY <1>4
    <2> HIDE DEF T
    <2>4. IsFiniteSet(T \cup {k}) /\ Cardinality(T \cup {k}) <= Cardinality(T) + 1
        <3>1. /\ IsFiniteSet(T \cup {k})
              /\ Cardinality(T \cup {k}) = IF k \in T THEN Cardinality(T) ELSE Cardinality(T) + 1
            BY <2>2, FS_AddElement
        <3> QED
            BY <2>2, <3>1
    <2>6. Cardinality(UnderWay(booking', s, t)) <= Cardinality(T \cup {k})
          /\ IsFiniteSet(UnderWay(booking', s, t))
        BY <2>3, <2>4, FS_Subset
    <2>7. Cardinality(UnderWay(booking', s, t)) \in Nat /\ Cardinality(T \cup {k}) \in Nat
        BY <2>4, <2>6, FS_CardinalityType
    <2> QED
        BY <1>3, <2>2, <2>4, <2>5, <2>6, <2>7
<1>5. CASE ~ (s = b.staff /\ b.start <= t /\ t < b.start + Duration)
    <2>1. UnderWay(booking', s, t) \subseteq UnderWay(booking, s, t)
        BY <1>2, <1>5 DEF UnderWay, Holding
    <2>2. UnderWay(booking, s, t) \subseteq 1 .. MaxBookings
        BY <1>3 DEF UnderWay, Holding
    <2>3. IsFiniteSet(UnderWay(booking, s, t)) /\ Cardinality(UnderWay(booking, s, t)) \in Nat
        BY <1>3, <2>2, Counted
    <2>4. /\ IsFiniteSet(UnderWay(booking', s, t))
          /\ Cardinality(UnderWay(booking', s, t)) <= Cardinality(UnderWay(booking, s, t))
        BY <2>1, <2>3, FS_Subset
    <2>5. Cardinality(UnderWay(booking', s, t)) \in Nat
        BY <2>4, FS_CardinalityType
    <2>6. Cardinality(UnderWay(booking, s, t)) <= Capacity
        BY DEF Room
    <2> QED
        BY <1>3, <2>3, <2>4, <2>5, <2>6
<1> QED
    BY <1>4, <1>5

LEMMA InsertBookingSerial ==
    ASSUME BookInv, Serial, NEW p \in Requests, InsertBooking(p)
    PROVE  Serial'
<1> DEFINE k == Cardinality(Made) + 1
           b == [staff |-> job[p].staff, start |-> job[p].start,
                 status |-> "requested", was |-> {"requested"}]
           j == [NoJob EXCEPT !.id = k, !.todo = Leads]
<1> SUFFICES ASSUME alone PROVE Serial'
    BY DEF Serial, InsertBooking
<1>1. /\ k \in Bookings /\ booking' = [booking EXCEPT ![k] = b] /\ pc[p] = "insert"
      /\ Goto(p, "schedule", j) /\ UNCHANGED <<alone, now, reminder, waiting>>
    BY DEF InsertBooking
<1>2. k \notin Made /\ booking[k].status = "absent"
    BY <1>1, NewBooking
<1>3. job[p] \in JobType /\ Current("insert", job[p], booking, reminder, waiting)
    BY <1>1 DEF BookInv, TypeOK, Serial
<1>4. b \in BookingType /\ b.staff = job[p].staff /\ b.start = job[p].start
    BY <1>3, Statuses DEF BookingType, JobType
<1> HIDE DEF b, j, k
<1>5. b.staff \in Staff =>
          Cardinality(Touching(booking, b.staff, b.start, b.start + Duration)) < Capacity
    BY <1>3, <1>4 DEF Current
<1>6. Room(booking')
    BY <1>1, <1>2, <1>4, <1>5, InsertRoom DEF Serial
<1>7. booking \in [Bookings -> BookingType]
    BY DEF BookInv, TypeOK
<1>8. \A i \in Bookings : i # k => booking'[i] = booking[i]
    BY <1>1, <1>7
<1>9. Calls(booking', waiting')
    <2>1. \A e \in Entries : waiting[e].freed # 0 =>
              waiting[e].freed \in Bookings /\ waiting[e].freed # k
        BY <1>2 DEF BookInv, TypeOK
    <2> QED
        BY <1>1, <1>8, <2>1 DEF Serial, Calls
<1>10. "schedule" \in Loc /\ Current("schedule", j, booking', reminder', waiting')
    BY DEF Loc, Current
<1>11. /\ OneAtATime'
       /\ \A q \in Requests : Current(pc'[q], job'[q], booking', reminder', waiting')
    BY <1>1, <1>10, SerialMoves
<1> QED
    BY <1>6, <1>9, <1>11 DEF Serial

LEMMA ScheduleReminderSerial ==
    ASSUME BookInv, Serial, NEW p \in Requests, ScheduleReminder(p)
    PROVE  Serial'
<1> SUFFICES ASSUME alone PROVE Serial'
    BY DEF Serial, ScheduleReminder
<1>1. pc[p] = "schedule" /\ UNCHANGED <<alone, now, booking, waiting>>
    BY DEF ScheduleReminder
<1>2. \E loc \in {"idle", "schedule"} : \E j : Goto(p, loc, j)
    BY DEF ScheduleReminder, Done
<1> PICK loc \in {"idle", "schedule"} : \E j : Goto(p, loc, j)
    BY <1>2
<1>3. PICK j : Goto(p, loc, j)
    OBVIOUS
<1>4. loc \in Loc /\ Current(loc, j, booking', reminder', waiting')
    BY <1>3 DEF Loc, Current
<1>5. /\ OneAtATime'
      /\ \A q \in Requests : Current(pc'[q], job'[q], booking', reminder', waiting')
    BY <1>1, <1>3, <1>4, SerialMoves
<1> QED
    BY <1>1, <1>5 DEF Serial

LEMMA SendReminderSerial ==
    ASSUME BookInv, Serial, NEW p \in Requests, SendReminder(p)
    PROVE  Serial'
<1> SUFFICES ASSUME alone PROVE Serial'
    BY DEF Serial, SendReminder
<1>1. /\ pc[p] = "send" /\ UNCHANGED <<alone, now, booking, waiting>> /\ job[p] \in JobType
      /\ Current("send", job[p], booking, reminder, waiting)
      /\ reminder \in [Bookings -> [Leads -> {"absent", "pending", "sent"}]]
    BY DEF SendReminder, Serial, BookInv, TypeOK
<1>2. PICK r \in job[p].due :
          /\ reminder' = [reminder EXCEPT ![r[1]][r[2]] = "sent"]
          /\ IF job[p].due = {r} THEN Done(p)
             ELSE Goto(p, "send", [job[p] EXCEPT !.due = @ \ {r}])
    BY DEF SendReminder
<1>3. CASE Done(p)
    <2>1. "idle" \in Loc /\ Goto(p, "idle", NoJob)
          /\ Current("idle", NoJob, booking', reminder', waiting')
        BY <1>3 DEF Loc, Done, Current
    <2>2. /\ OneAtATime'
          /\ \A q \in Requests : Current(pc'[q], job'[q], booking', reminder', waiting')
        BY <1>1, <2>1, SerialMoves
    <2> QED
        BY <1>1, <2>2 DEF Serial
<1>4. CASE Goto(p, "send", [job[p] EXCEPT !.due = @ \ {r}])
    <2> DEFINE j == [job[p] EXCEPT !.due = @ \ {r}]
    <2>1. j.due = job[p].due \ {r} /\ job[p].due \subseteq Bookings \X Leads
        BY <1>1 DEF JobType
    <2>2. Goto(p, "send", j)
        BY <1>4
    <2> HIDE DEF j
    <2>3. ASSUME NEW x \in j.due
          PROVE  /\ reminder'[x[1]][x[2]] = "pending"
                 /\ booking'[x[1]].status \notin {"cancelled", "no_show", "completed"}
        <3>1. /\ x \in Bookings \X Leads /\ r \in Bookings \X Leads /\ x # r /\ x \in job[p].due
            BY <1>2, <2>1, <2>3
        <3>2. x[1] # r[1] \/ x[2] # r[2]
            BY <3>1
        <3>3. reminder'[x[1]][x[2]] = reminder[x[1]][x[2]]
            BY <1>1, <1>2, <3>1, <3>2
        <3> QED
            BY <1>1, <3>1, <3>3 DEF Current
    <2>4. "send" \in Loc /\ Current("send", j, booking', reminder', waiting')
        BY <2>3 DEF Loc, Current
    <2>5. /\ OneAtATime'
          /\ \A q \in Requests : Current(pc'[q], job'[q], booking', reminder', waiting')
        BY <1>1, <2>2, <2>4, SerialMoves
    <2> QED
        BY <1>1, <2>5 DEF Serial
<1> QED
    BY <1>2, <1>3, <1>4

\* A transition from the status the booking has takes no slot again, and a
\* cancelled booking has none.
LEMMA WriteStatusSerial ==
    ASSUME BookInv, Serial, NEW p \in Requests, WriteStatus(p)
    PROVE  Serial'
<1> DEFINE k == job[p].id
           to == job[p].to
           b == [booking[k] EXCEPT !.status = to, !.was = @ \cup {to}]
<1> SUFFICES ASSUME alone PROVE Serial'
    BY DEF Serial, WriteStatus
<1>1. /\ pc[p] = "status" /\ Knows("status", job[p], booking, waiting)
      /\ Current("status", job[p], booking, reminder, waiting)
      /\ booking \in [Bookings -> BookingType] /\ UNCHANGED <<alone, now, reminder, waiting>>
    BY DEF WriteStatus, BookInv, TypeOK, Serial
<1>2. k \in Bookings /\ booking[k].status # "absent" /\ to \in After[booking[k].status]
    BY <1>1 DEF Knows, Current
<1>3. booking[k] \in BookingType /\ booking[k].status \in Status
    BY <1>1, <1>2, BackedType
<1>4. booking[k].status \notin {"cancelled", "completed", "no_show"}
    BY <1>2, <1>3, Transitions
<1>5. b.status = to /\ b.staff = booking[k].staff /\ b.start = booking[k].start
    BY <1>3 DEF BookingType
<1>6. booking' = [booking EXCEPT ![k] = b]
    BY <1>1, <1>2 DEF WriteStatus
<1>7. (Goto(p, "queue", job[p]) /\ to = "cancelled") \/ Done(p)
    BY DEF WriteStatus
<1> HIDE DEF b, k, to
<1>8. booking'[k] = b /\ \A i \in Bookings : i # k => booking'[i] = booking[i]
    BY <1>1, <1>2, <1>6
<1>9. Room(booking')
    <2>1. \A s \in Staff : Holding(booking', s) \subseteq Holding(booking, s)
        BY <1>2, <1>4, <1>5, <1>8 DEF Holding
    <2>2. \A i \in Bookings : booking'[i].start = booking[i].start
        BY <1>5, <1>8
    <2>3. \A s \in Staff : \A t \in Starts : UnderWay(booking', s, t) \subseteq UnderWay(booking, s, t)
        BY <2>1, <2>2 DEF UnderWay, Holding
    <2> QED
        BY <2>3, RoomStays DEF Serial
<1>10. \A e \in Entries : waiting[e].freed # 0 =>
           waiting[e].freed \in Bookings /\ waiting[e].freed # k
    BY <1>4 DEF BookInv, TypeOK, Serial, Calls
<1>11. Calls(booking', waiting')
    BY <1>1, <1>8, <1>10 DEF Serial, Calls
<1>12. CASE Goto(p, "queue", job[p]) /\ to = "cancelled"
    <2>1. \A e \in Entries : waiting[e].freed # k
        <3>1. k # 0
            BY <1>2 DEF Bookings
        <3> QED
            BY <1>10, <3>1
    <2>2. "queue" \in Loc /\ Current("queue", job[p], booking', reminder', waiting')
        BY <1>1, <1>5, <1>8, <1>12, <2>1 DEF Loc, Current, k
    <2>3. /\ OneAtATime'
          /\ \A q \in Requests : Current(pc'[q], job'[q], booking', reminder', waiting')
        BY <1>1, <1>12, <2>2, SerialMoves
    <2> QED
        BY <1>9, <1>11, <2>3 DEF Serial
<1>13. CASE Done(p)
    <2>1. "idle" \in Loc /\ Goto(p, "idle", NoJob)
          /\ Current("idle", NoJob, booking', reminder', waiting')
        BY <1>13 DEF Loc, Done, Current
    <2>2. /\ OneAtATime'
          /\ \A q \in Requests : Current(pc'[q], job'[q], booking', reminder', waiting')
        BY <1>1, <2>1, SerialMoves
    <2> QED
        BY <1>9, <1>11, <2>2 DEF Serial
<1> QED
    BY <1>7, <1>12, <1>13

LEMMA NotifyNextSerial ==
    ASSUME BookInv, Serial, NEW p \in Requests, NotifyNext(p)
    PROVE  Serial'
<1> DEFINE c == job[p].entry
           w == [status |-> "notified", freed |-> job[p].id]
<1> SUFFICES ASSUME alone PROVE Serial'
    BY DEF Serial, NotifyNext
<1>1. /\ pc[p] = "notify" /\ Knows("notify", job[p], booking, waiting) /\ Done(p)
      /\ Current("notify", job[p], booking, reminder, waiting)
      /\ waiting' = [waiting EXCEPT ![c] = w] /\ UNCHANGED <<alone, now, booking, reminder>>
    BY DEF NotifyNext, BookInv, Serial
<1>2. waiting \in [Entries -> [status : {"absent", "waiting", "notified"},
                               freed : Bookings \cup {0}]]
    BY DEF BookInv, TypeOK
<1>3. /\ c \in Entries /\ w.freed = job[p].id
      /\ booking[job[p].id].status = "cancelled" /\ \A e \in Entries : waiting[e].freed # job[p].id
    BY <1>1 DEF Knows, Current
<1> HIDE DEF c, w
<1>4. waiting'[c] = w /\ \A e \in Entries : e # c => waiting'[e] = waiting[e]
    BY <1>1, <1>2, <1>3
<1>5. Calls(booking', waiting')
    BY <1>1, <1>3, <1>4 DEF Serial, Calls
<1>6. "idle" \in Loc /\ Goto(p, "idle", NoJob)
      /\ Current("idle", NoJob, booking', reminder', waiting')
    BY <1>1 DEF Loc, Done, Current
<1>7. /\ OneAtATime'
      /\ \A q \in Requests : Current(pc'[q], job'[q], booking', reminder', waiting')
    BY <1>1, <1>6, SerialMoves
<1> QED
    BY <1>1, <1>5, <1>7 DEF Serial

\* No request moves, no booking and no reminder changes, and the waiting list
\* gets no call.
LEMMA OtherSerial ==
    ASSUME BookInv, Serial, AddToWaitingList \/ Tick \/ UNCHANGED vars
                            \/ \E e \in Entries : MarkNotified(e)
    PROVE  Serial'
<1> SUFFICES ASSUME alone PROVE Serial'
    BY DEF Serial, AddToWaitingList, Tick, MarkNotified, vars
<1>1. UNCHANGED <<alone, booking, reminder, pc, job>>
    BY DEF AddToWaitingList, Tick, MarkNotified, vars
<1>2. waiting \in [Entries -> [status : {"absent", "waiting", "notified"},
                               freed : Bookings \cup {0}]]
    BY DEF BookInv, TypeOK
<1>3. \A e \in Entries : waiting'[e].freed = waiting[e].freed
    <2>1. waiting' = waiting \/ \E e \in Entries : \E s : waiting' = [waiting EXCEPT ![e].status = s]
        BY DEF AddToWaitingList, Tick, MarkNotified, vars
    <2> QED
        BY <1>2, <2>1
<1>4. Calls(booking', waiting')
    BY <1>1, <1>3 DEF Serial, Calls
<1>5. \A q \in Requests : Current(pc'[q], job'[q], booking', reminder', waiting')
    BY <1>1, <1>3 DEF Serial, Current
<1> QED
    BY <1>1, <1>4, <1>5 DEF Serial, OneAtATime

LEMMA SerialKeeps == BookInv /\ Serial /\ [Next]_vars => Serial'
<1> SUFFICES ASSUME BookInv, Serial, [Next]_vars PROVE Serial'
    OBVIOUS
<1>1. ASSUME NEW p \in Requests, Step(p) PROVE Serial'
    <2>1. CASE \E s \in Staff \cup {NoStaff} : \E t \in Starts : CreateBooking(p, s, t)
        BY <2>1, CreateBookingSerial
    <2>2. CASE \E k \in Bookings : \/ \E m \in Leads : AddReminder(p, k, m)
                                   \/ \E to \in Status : UpdateBookingStatus(p, k, to)
        BY <2>2, AddReminderSerial, UpdateBookingStatusSerial
    <2>3. CASE InsertBooking(p) \/ ScheduleReminder(p) \/ ProcessReminders(p) \/ SendReminder(p)
        BY <2>3, InsertBookingSerial, ScheduleReminderSerial, ProcessRemindersSerial,
           SendReminderSerial
    <2>4. CASE WriteStatus(p) \/ NextInQueue(p) \/ NotifyNext(p)
        BY <2>4, WriteStatusSerial, NextInQueueSerial, NotifyNextSerial
    <2>5. CASE Fail(p)
        BY <2>5, SerialDone DEF Fail
    <2> QED
        BY <1>1, <2>1, <2>2, <2>3, <2>4, <2>5 DEF Step
<1> QED
    BY <1>1, OtherSerial DEF Next

LEMMA AlwaysSerial == Spec => [](BookInv /\ Serial)
<1>1. Init => BookInv /\ Serial
    BY InitHolds, SerialInit
<1>2. BookInv /\ Serial /\ [Next]_vars => (BookInv /\ Serial)'
    BY StepKeeps, SerialKeeps
<1> QED
    BY <1>1, <1>2, PTL DEF Spec

\* The overlap a booking is checked against is what its insert finds, when no
\* other request comes between: no member of staff has more bookings at a time
\* than the service's capacity.
THEOREM CapacityKept == Spec => []CapacityRespected
<1>1. BookInv /\ Serial => CapacityRespected
    <2> SUFFICES ASSUME Serial, alone, NEW s \in Staff, NEW t \in Starts
                 PROVE  Cardinality({k \in Held(NoStaff) :
                                        /\ booking[k].staff = s
                                        /\ booking[k].start <= t /\ t < Ends(k)}) <= Capacity
        BY DEF CapacityRespected
    <2>1. {k \in Held(NoStaff) : /\ booking[k].staff = s
                                 /\ booking[k].start <= t /\ t < Ends(k)} = UnderWay(booking, s, t)
        BY SameSets
    <2>2. Cardinality(UnderWay(booking, s, t)) <= Capacity
        BY DEF Serial, Room
    <2> QED
        BY <2>1, <2>2
<1> QED
    BY <1>1, AlwaysSerial, PTL

\* A cancelled booking stays cancelled and calls one place of the waiting list.
THEOREM OneCallEach == Spec => []OneCallPerCancellation
<1>1. BookInv /\ Serial => OneCallPerCancellation
    BY DEF BookInv, Serial, Calls, OneCallPerCancellation
<1> QED
    BY <1>1, AlwaysSerial, PTL

\* The list of due reminders read at the start of a run still holds when each of
\* them is sent, when no other request comes between.
THEOREM RemindersActive == Spec => RemindedWhileActive
<1> DEFINE Step1 == \A k \in Bookings : \A m \in Leads :
                        alone /\ reminder'[k][m] = "sent" /\ reminder[k][m] # "sent"
                            => /\ booking[k].status \notin {"cancelled", "no_show", "completed"}
                               /\ reminder[k][m] = "pending"
<1>1. BookInv /\ Serial /\ [Next]_vars => [Step1]_vars
    <2> SUFFICES ASSUME BookInv, Serial, Next, NEW k \in Bookings, NEW m \in Leads, alone,
                        reminder'[k][m] = "sent", reminder[k][m] # "sent"
                 PROVE  /\ booking[k].status \notin {"cancelled", "no_show", "completed"}
                        /\ reminder[k][m] = "pending"
        OBVIOUS
    <2>1. reminder \in [Bookings -> [Leads -> {"absent", "pending", "sent"}]]
        BY DEF BookInv, TypeOK
    <2>2. reminder' # reminder
        OBVIOUS
    <2>3. PICK p \in Requests : ScheduleReminder(p) \/ SendReminder(p)
        BY <2>2 DEF Next, Step, CreateBooking, InsertBooking, AddReminder, UpdateBookingStatus,
                    ProcessReminders, WriteStatus, NextInQueue, NotifyNext, Fail,
                    AddToWaitingList, Tick, MarkNotified
    <2>4. ~ ScheduleReminder(p)
        <3> SUFFICES ASSUME ScheduleReminder(p) PROVE FALSE
            OBVIOUS
        <3>1. PICK n \in job[p].todo : reminder' = [reminder EXCEPT ![job[p].id][n] = "pending"]
            BY DEF ScheduleReminder
        <3>2. reminder'[k] = reminder[k]
              \/ reminder'[k] = [reminder[k] EXCEPT ![n] = "pending"]
            BY <2>1, <3>1
        <3>3. reminder'[k][m] \in {reminder[k][m], "pending"}
            BY <2>1, <3>2
        <3> QED
            BY <3>3
    <2>5. /\ pc[p] = "send" /\ job[p] \in JobType
          /\ Current("send", job[p], booking, reminder, waiting)
        BY <2>3, <2>4 DEF SendReminder, BookInv, TypeOK, Serial
    <2>6. PICK r \in job[p].due : reminder' = [reminder EXCEPT ![r[1]][r[2]] = "sent"]
        BY <2>3, <2>4 DEF SendReminder
    <2>7. r[1] = k /\ r[2] = m
        BY <2>1, <2>6
    <2> QED
        BY <2>5, <2>6, <2>7 DEF Current
<1> QED
    BY <1>1, AlwaysSerial, PTL DEF Spec, RemindedWhileActive
=============================================================================
