---------------------------- MODULE Notifications ----------------------------
(* Notifications to users by push, email and SMS.  A send is a row, a look *)
(* at where the user can be reached, a call to a provider, and a delivery  *)
(* result for each answer; a campaign is one send per recipient, side by   *)
(* side.  Devices change hands and preferences change while sends run.     *)
EXTENDS Integers, Sequences, FiniteSets, FiniteSetsExt

CONSTANTS
    Requests,    \* requests in flight at most
    Users,
    Emailed,     \* the users with an email address
    Tokens,      \* device tokens
    MaxSends     \* bound: notifications of one user

VARIABLES
    notification,  \* Notification rows
    result,        \* DeliveryResult rows of each: how many of each status
    clicked,       \* the notifications a click was recorded on
    device,        \* DeviceToken rows
    template,      \* the one NotificationTemplate: its channel, or none
    preference,    \* NotificationPreference rows of each user, without a tenant
    reached,       \* whose devices a push really arrived at
    send,          \* the progress of each send
    solo,          \* requests do not overlap in this behaviour
    call           \* what each request read and has still to write

notifyVars ==
    <<notification, result, clicked, device, template, preference, reached, send>>

Idle == [op |-> "idle"]
Sends == Users \X (1..MaxSends)
NotSent == [pc |-> "none"]
Busy == {n \in Sends : send[n].pc \notin {"none", "done", "failed"}}
Free(q) ==
    call[q] = Idle /\ (solo => Busy = {} /\ \A r \in Requests : call[r] = Idle)
End(q) == call' = [call EXCEPT ![q] = Idle]

Channels == {"push", "email", "sms"}
NoRow == [channel |-> "none", read |-> FALSE]
NoDevice == [user |-> "none", active |-> FALSE]
Exists(n) == notification[n] # NoRow
NoResults == [sent |-> 0, failed |-> 0, skipped |-> 0]

-----------------------------------------------------------------------------
(* The dispatch engine *)

\* The sends that have not begun, the next of each user.
NextOf(u) == {n \in Sends : /\ n[1] = u /\ send[n] = NotSent
                            /\ \A k \in 1..(n[2] - 1) : send[<<u, k>>] # NotSent}
\* An SMS is sent before its row is written, the others after.
Begun(channel) ==
    [pc |-> IF channel = "sms" THEN "deliver" ELSE "row", channel |-> channel,
     to |-> {}, sent |-> 0, failed |-> 0]

\* sendPush, sendEmail and sendSms of one user.
StartSend(n, channel) ==
    /\ n \in NextOf(n[1])
    /\ solo => Busy = {} /\ \A q \in Requests : call[q] = Idle
    /\ send' = [send EXCEPT ![n] = Begun(channel)]
    /\ UNCHANGED <<notification, result, clicked, device, template, preference,
                   reached, call>>
\* sendFromTemplate reads the channel of the template; a deleted template
\* is inactive, and is found by id all the same.
StartFromTemplate(n) ==
    /\ n \in NextOf(n[1]) /\ template # "none"
    /\ solo => Busy = {} /\ \A q \in Requests : call[q] = Idle
    /\ send' = [send EXCEPT ![n] = Begun(template)]
    /\ UNCHANGED <<notification, result, clicked, device, template, preference,
                   reached, call>>

\* sendCampaign: the recipients left by the segment each read the template
\* again, unless the campaign or the template it read is for SMS.
SendCampaign(recipients, sms) ==
    /\ recipients # {} /\ template # "none"
    /\ solo => Busy = {} /\ \A q \in Requests : call[q] = Idle
    /\ \A u \in recipients : NextOf(u) # {}
    /\ send' = [n \in Sends |->
                  IF n[1] \notin recipients \/ n \notin NextOf(n[1]) THEN send[n]
                  ELSE IF sms \/ template = "sms" THEN Begun("sms")
                  ELSE [Begun("push") EXCEPT !.pc = "template"]]
    /\ UNCHANGED <<notification, result, clicked, device, template, preference,
                   reached, call>>
ReadTemplate(n) ==
    /\ send[n].pc = "template"
    /\ send' = [send EXCEPT ![n] = Begun(template)]
    /\ UNCHANGED <<notification, result, clicked, device, template, preference,
                   reached, call>>

\* The row of a push or an email.
CreateRow(n) ==
    /\ send[n].pc = "row"
    /\ notification' = [notification EXCEPT ![n] =
                           [channel |-> send[n].channel, read |-> FALSE]]
    /\ send' = [send EXCEPT ![n].pc = "find"]
    /\ UNCHANGED <<result, clicked, device, template, preference, reached, call>>

\* The active devices or the address of the user; with neither the send is
\* recorded as skipped.
FindTargets(n) ==
    LET active == {t \in Tokens : device[t].active /\ device[t].user = n[1]}
        targets == IF send[n].channel = "push" THEN active ELSE {n[1]} \cap Emailed
    IN  /\ send[n].pc = "find"
        /\ send' = [send EXCEPT ![n] = [@ EXCEPT !.to = targets,
                      !.pc = IF targets = {} THEN "skip" ELSE "deliver"]]
        /\ UNCHANGED <<notification, result, clicked, device, template, preference,
                       reached, call>>
RecordSkipped(n) ==
    /\ send[n].pc = "skip"
    /\ result' = [result EXCEPT ![n].skipped = @ + 1]
    /\ send' = [send EXCEPT ![n].pc = "done"]
    /\ UNCHANGED <<notification, clicked, device, template, preference, reached, call>>

\* The adapters answer for every target and never throw; one that falls back
\* to the log answers that it succeeded.  SMS providers always succeed.
Deliver(n, accepted, logged) ==
    /\ send[n].pc = "deliver" /\ accepted \subseteq send[n].to
    /\ send' = [send EXCEPT ![n] =
          IF @.channel = "sms" THEN [@ EXCEPT !.pc = "smsRow", !.sent = 1]
          ELSE [@ EXCEPT !.pc = "record", !.sent = Cardinality(accepted),
                         !.failed = Cardinality(send[n].to \ accepted)]]
    /\ reached' = [reached EXCEPT ![n] =
          IF logged \/ send[n].channel # "push" THEN @
          ELSE @ \cup {device[t].user : t \in accepted}]
    /\ UNCHANGED <<notification, result, clicked, device, template, preference, call>>
CreateSmsRow(n) ==
    /\ send[n].pc = "smsRow"
    /\ notification' = [notification EXCEPT ![n] = [channel |-> "sms", read |-> FALSE]]
    /\ send' = [send EXCEPT ![n].pc = "record"]
    /\ UNCHANGED <<result, clicked, device, template, preference, reached, call>>

\* One result after the other.
RecordResult(n, status) ==
    /\ send[n].pc = "record" /\ status \in {"sent", "failed"} /\ send[n][status] > 0
    /\ result' = [result EXCEPT ![n][status] = @ + 1]
    /\ send' = [send EXCEPT ![n] =
          [send[n] EXCEPT ![status] = @ - 1,
                          !.pc = IF send[n].sent + send[n].failed = 1 THEN "done" ELSE "record"]]
    /\ UNCHANGED <<notification, clicked, device, template, preference, reached, call>>
\* A failing statement ends the send; a campaign counts it and goes on.
Fail(n) ==
    /\ n \in Busy
    /\ send' = [send EXCEPT ![n].pc = "failed"]
    /\ UNCHANGED <<notification, result, clicked, device, template, preference,
                   reached, call>>

-----------------------------------------------------------------------------
(* Reading and clicking *)

MarkRead(n) ==
    /\ Exists(n) /\ notification' = [notification EXCEPT ![n].read = TRUE]
    /\ UNCHANGED <<result, clicked, device, template, preference, reached, send, call>>
MarkAllRead(u) ==
    /\ notification' = [n \in Sends |-> IF n[1] = u /\ Exists(n)
                          THEN [notification[n] EXCEPT !.read = TRUE] ELSE notification[n]]
    /\ UNCHANGED <<result, clicked, device, template, preference, reached, send, call>>
\* clickTrack: the row first, then the results recorded by then.
ClickTrack(q, n) ==
    /\ Free(q) /\ Exists(n)
    /\ notification' = [notification EXCEPT ![n].read = TRUE]
    /\ call' = [call EXCEPT ![q] = [op |-> "click", id |-> n]]
    /\ UNCHANGED <<result, clicked, device, template, preference, reached, send>>
RecordClick(q) ==
    LET n == call[q].id
    IN  /\ call[q].op = "click"
        /\ clicked' = IF result[n] # NoResults THEN clicked \cup {n} ELSE clicked
        /\ End(q)
        /\ UNCHANGED <<notification, result, device, template, preference, reached, send>>

-----------------------------------------------------------------------------
(* Templates, preferences and devices *)

\* Create, update; delete leaves the row, and the way it is found by id.
SetTemplate(channel) ==
    /\ template' = channel
    /\ UNCHANGED <<notification, result, clicked, device, preference, reached, send, call>>

\* setPreference: no unique key holds between rows without a tenant.
ReadPreference(q, u, enabled) ==
    /\ Free(q)
    /\ call' = [call EXCEPT ![q] = [op |-> "prefer", user |-> u, enabled |-> enabled,
                                    row |-> Len(preference[u])]]
    /\ UNCHANGED notifyVars
WritePreference(q) ==
    LET c == call[q]
        rows == preference[c.user]
    IN  /\ c.op = "prefer"
        /\ IF c.row = 0
           THEN preference' = [preference EXCEPT ![c.user] = Append(@, c.enabled)]
           ELSE \E i \in 1..c.row : preference' = [preference EXCEPT ![c.user][i] = c.enabled]
        /\ End(q)
        /\ UNCHANGED <<notification, result, clicked, device, template, reached, send>>

\* A token belongs to the user who registered it last.
RegisterDevice(t, u) ==
    /\ solo => Busy = {}
    /\ device' = [device EXCEPT ![t] = [user |-> u, active |-> TRUE]]
    /\ UNCHANGED <<notification, result, clicked, template, preference, reached, send, call>>
UnregisterDevice(t) ==
    /\ solo => Busy = {}
    /\ device[t] # NoDevice
    /\ device' = [device EXCEPT ![t].active = FALSE]
    /\ UNCHANGED <<notification, result, clicked, template, preference, reached, send, call>>

-----------------------------------------------------------------------------
Init ==
    /\ notification = [n \in Sends |-> NoRow]
    /\ result = [n \in Sends |-> NoResults]
    /\ clicked = {} /\ device = [t \in Tokens |-> NoDevice]
    /\ template = "none" /\ preference = [u \in Users |-> <<>>]
    /\ reached = [n \in Sends |-> {}] /\ send = [n \in Sends |-> NotSent]
    /\ solo \in BOOLEAN
    /\ call = [q \in Requests |-> Idle]

DispatchNext ==
    \E n \in Sends :
        \/ \E channel \in Channels : StartSend(n, channel)
        \/ CreateRow(n)
        \/ FindTargets(n)
        \/ RecordSkipped(n)
        \/ send[n].pc = "deliver" /\ \E accepted \in SUBSET send[n].to :
              \E logged \in BOOLEAN : Deliver(n, accepted, logged)
        \/ CreateSmsRow(n)
        \/ \E status \in {"sent", "failed"} : RecordResult(n, status)
        \/ Fail(n)
CampaignNext ==
    \/ \E n \in Sends : StartFromTemplate(n) \/ ReadTemplate(n)
    \/ \E recipients \in SUBSET Users : \E sms \in BOOLEAN : SendCampaign(recipients, sms)
    \/ \E channel \in Channels : SetTemplate(channel)
    \/ \E t \in Tokens : (\E u \in Users : RegisterDevice(t, u)) \/ UnregisterDevice(t)
ReadingNext ==
    \/ \E n \in Sends : MarkRead(n) \/ \E q \in Requests : ClickTrack(q, n)
    \/ \E u \in Users : MarkAllRead(u)
    \/ \E q \in Requests : RecordClick(q)
PreferenceNext ==
    \E q \in Requests : \/ \E u \in Users : \E enabled \in BOOLEAN :
                              ReadPreference(q, u, enabled)
                        \/ WritePreference(q)

Next == /\ DispatchNext \/ CampaignNext \/ ReadingNext \/ PreferenceNext
        /\ UNCHANGED solo

Spec == Init /\ [][Next]_<<notifyVars, solo, call>>

-----------------------------------------------------------------------------
(* Correctness *)

\* Types.
TypeOK ==
    /\ DOMAIN notification = Sends /\ DOMAIN result = Sends
    /\ \A n \in Sends : /\ notification[n].channel \in Channels \cup {"none"}
                        /\ result[n].skipped \in 0..1
    /\ clicked \subseteq Sends
    /\ \A t \in Tokens : device[t].user \in Users \cup {"none"}
    /\ template \in Channels \cup {"none"}
    /\ \A u \in Users : Len(preference[u]) \in 0..Cardinality(Requests)
    /\ solo \in BOOLEAN

\* A send that ended in order left one result for every target it found, or
\* one that says it was skipped, and a click is only known of a read
\* notification (notifications.service.ts:57-191).
ResultsAccounted ==
    \A n \in Sends :
        /\ send[n].pc = "done" =>
             /\ Exists(n)
             /\ result[n].sent + result[n].failed + result[n].skipped
                  = (IF send[n].to = {} THEN 1 ELSE Cardinality(send[n].to))
        /\ n \in clicked => notification[n].read

\* With requests one at a time a push arrives at devices of its user alone
\* and a user has one row of preferences; a device that changes hands
\* between the lookup and the send, or two requests that find no row, undo
\* it (notifications.service.ts:96-110, 339-352).
OwnDevicesOnly ==
    solo => /\ \A n \in Sends : reached[n] \subseteq {n[1]}
            /\ \A u \in Users : Len(preference[u]) <= 1
=============================================================================
