---------------------------- MODULE PlatformAdmin ----------------------------
(* The platform administration service: governed policies, support         *)
(* tickets, feature flags, announcements, settings and the API quota that  *)
(* the request guard draws on.  Every operation on a policy or a ticket    *)
(* reads the row, checks it, and writes by id in a later transaction; what *)
(* another administrator did in between is not looked at again.            *)
EXTENDS Integers, FiniteSets, Sequences

CONSTANTS
    Requests,     \* requests in flight at most
    Policies,     \* policy keys
    Tickets,      \* ticket ids
    Tenants,      \* tenants that a flag may name and a quota belongs to
    MaxVersion,   \* bound: edits of one policy
    MaxEvents,    \* bound: events of one ticket
    Limit,        \* ApiQuota.requestsPerMin
    Horizon       \* bound: the clock, in quota windows

VARIABLES
    policy,       \* PlatformPolicy rows by key
    trail,        \* audit rows of a policy: action and version
    ticket,       \* SupportTicket rows
    event,        \* SupportTicketEvent types, oldest first
    flag, notice, \* a feature flag and a system announcement
    quota, now,   \* ApiQuota rows of the tenants; windows gone by
    admitted,     \* requests of the first window let through and counted,
                  \* or whose count is on its way
    solo,         \* requests do not overlap in this behaviour
    call          \* what each request read and has still to write

policyVars == <<policy, trail>>
ticketVars == <<ticket, event>>
catalogVars == <<flag, notice>>
quotaVars == <<quota, now, admitted>>
vars == <<policyVars, ticketVars, catalogVars, quotaVars, solo, call>>

Idle == [op |-> "idle"]
Free(q) == call[q] = Idle /\ (solo => \A r \in Requests : call[r] = Idle)
Begin(q, c) == Free(q) /\ call' = [call EXCEPT ![q] = c]
End(q) == call' = [call EXCEPT ![q] = Idle]

-----------------------------------------------------------------------------
(* Policies *)

NoPolicy == [status |-> "none", version |-> 0, publishedAt |-> 0]
PolicyStatus == {"draft", "in_review", "published", "archived"}

\* A taken key is refused by the lookup or by the unique index.
CreatePolicy(k) ==
    /\ policy[k] = NoPolicy
    /\ policy' = [policy EXCEPT ![k] =
                    [status |-> "draft", version |-> 1, publishedAt |-> 0]]
    /\ trail' = [trail EXCEPT ![k] = {<<"create", 1>>}]
    /\ UNCHANGED call

\* The status each operation must have read.
Expects ==
    [update |-> {"draft", "in_review"}, submit |-> {"draft"},
     publish |-> {"in_review"}, archive |-> {"published"}]
ReadPolicy(q, k, op) ==
    /\ policy[k].status \in Expects[op]
    /\ op = "update" => policy[k].version < MaxVersion
    /\ Begin(q, [op |-> op, key |-> k])
    /\ UNCHANGED policyVars

WritePolicy(q, k, row) ==
    /\ policy' = [policy EXCEPT ![k] = row]
    /\ trail' = [trail EXCEPT ![k] = @ \cup {<<call[q].op, row.version>>}]
    /\ End(q)

UpdatePolicy(q) ==
    LET k == call[q].key IN
    /\ policy[k].version < MaxVersion
    /\ WritePolicy(q, k, [policy[k] EXCEPT !.version = @ + 1])
SubmitPolicy(q) ==
    WritePolicy(q, call[q].key,
                [policy[call[q].key] EXCEPT !.status = "in_review"])
\* publishedAt here is the version whose publication was recorded.
PublishPolicy(q) ==
    WritePolicy(q, call[q].key,
                [policy[call[q].key] EXCEPT
                    !.status = "published",
                    !.publishedAt = policy[call[q].key].version])
ArchivePolicy(q) ==
    WritePolicy(q, call[q].key,
                [policy[call[q].key] EXCEPT !.status = "archived"])

PolicyNext ==
    /\ \/ \E k \in Policies : CreatePolicy(k)
       \/ \E q \in Requests : \E k \in Policies :
             \E op \in DOMAIN Expects : ReadPolicy(q, k, op)
       \/ \E q \in Requests : call[q].op = "update" /\ UpdatePolicy(q)
       \/ \E q \in Requests : call[q].op = "submit" /\ SubmitPolicy(q)
       \/ \E q \in Requests : call[q].op = "publish" /\ PublishPolicy(q)
       \/ \E q \in Requests : call[q].op = "archive" /\ ArchivePolicy(q)
    /\ UNCHANGED <<ticketVars, catalogVars, quotaVars, solo>>

-----------------------------------------------------------------------------
(* Support tickets *)

NoTicket == [status |-> "none", assigned |-> FALSE, resolution |-> FALSE]
TicketStatus == {"open", "in_progress", "escalated", "resolved", "closed"}

\* The row, its event and the audit row are one transaction.
Save(t, row, type) ==
    /\ ticket' = [ticket EXCEPT ![t] = row]
    /\ event' = [event EXCEPT ![t] = Append(@, type)]

CreateTicket(t) ==
    /\ ticket[t] = NoTicket
    /\ \E assigned \in BOOLEAN :
         Save(t, [status |-> IF assigned THEN "in_progress" ELSE "open",
                  assigned |-> assigned, resolution |-> FALSE], "created")
    /\ UNCHANGED call

\* Assignment keeps the status it read, resolution takes any status.
ReadTicket(q, t, op) ==
    /\ ticket[t] # NoTicket
    /\ Len(event[t]) < MaxEvents
    /\ op = "escalate" => ticket[t].status \notin {"resolved", "closed"}
    /\ Begin(q, [op |-> op, id |-> t, read |-> ticket[t].status])
    /\ UNCHANGED ticketVars

Room(q) == Len(event[call[q].id]) < MaxEvents
AssignTicket(q) ==
    LET t == call[q].id
        next == IF call[q].read = "open" THEN "in_progress" ELSE call[q].read
    IN  /\ Room(q)
        /\ Save(t, [ticket[t] EXCEPT !.assigned = TRUE, !.status = next],
                "assigned")
        /\ End(q)
EscalateTicket(q) ==
    LET t == call[q].id IN
    /\ Room(q)
    /\ Save(t, [ticket[t] EXCEPT !.status = "escalated"], "escalated")
    /\ End(q)
ResolveTicket(q) ==
    LET t == call[q].id IN
    /\ Room(q)
    /\ Save(t, [ticket[t] EXCEPT !.status = "resolved", !.resolution = TRUE],
            "resolved")
    /\ End(q)
CommentTicket(q) ==
    LET t == call[q].id IN
    Room(q) /\ Save(t, ticket[t], "comment") /\ End(q)

TicketNext ==
    /\ \/ \E t \in Tickets : CreateTicket(t)
       \/ \E q \in Requests : \E t \in Tickets :
             \E op \in {"assign", "escalate", "resolve", "comment"} :
                ReadTicket(q, t, op)
       \/ \E q \in Requests : call[q].op = "assign" /\ AssignTicket(q)
       \/ \E q \in Requests : call[q].op = "escalate" /\ EscalateTicket(q)
       \/ \E q \in Requests : call[q].op = "resolve" /\ ResolveTicket(q)
       \/ \E q \in Requests : call[q].op = "comment" /\ CommentTicket(q)
    /\ UNCHANGED <<policyVars, catalogVars, quotaVars, solo>>

-----------------------------------------------------------------------------
(* Feature flags and announcements: rows written by one statement each. *)

NoFlag == [there |-> FALSE, enabled |-> FALSE, tenants |-> {}]
NoNotice == [there |-> FALSE, isActive |-> FALSE, startsAt |-> 0,
             expiresAt |-> 0]

SaveFlag ==
    /\ \E on \in BOOLEAN : \E some \in SUBSET Tenants :
         flag' = [there |-> TRUE, enabled |-> on, tenants |-> some]
    /\ UNCHANGED notice
DeleteFlag == flag.there /\ flag' = NoFlag /\ UNCHANGED notice
SaveNotice ==
    /\ \E on \in BOOLEAN : \E from \in 0..Horizon : \E to \in 0..Horizon :
         notice' = [there |-> TRUE, isActive |-> on, startsAt |-> from,
                    expiresAt |-> to]
    /\ UNCHANGED flag
DeleteNotice == notice.there /\ notice' = NoNotice /\ UNCHANGED flag

\* A flag that names tenants is on for them and for callers without one.
IsEnabled(f, tenant) ==
    /\ f.enabled
    /\ (tenant # "none" /\ f.tenants # {}) => tenant \in f.tenants
\* An announcement without a date (0) is not bounded on that side.
IsShown(n, at) ==
    /\ n.isActive
    /\ n.startsAt # 0 => n.startsAt <= at
    /\ n.expiresAt # 0 => n.expiresAt >= at

CatalogNext ==
    /\ \/ SaveFlag \/ DeleteFlag \/ SaveNotice \/ DeleteNotice
    /\ UNCHANGED <<policyVars, ticketVars, quotaVars, solo, call>>

-----------------------------------------------------------------------------
(* The API quota, one window standing for the minute, hour and day alike.  *)
(* The guard reads the row, answers, and counts the request without waiting *)
(* for the count; a failing read or count lets the request through.         *)

NoQuota == [there |-> FALSE, current |-> 0, resetAt |-> 0]

\* getApiQuota creates the row; the loser of two creations fails.
CheckQuota(q, t) ==
    /\ Free(q)
    /\ quota' = IF quota[t].there THEN quota
                ELSE [quota EXCEPT ![t] = [@ EXCEPT !.there = TRUE]]
    /\ LET row == quota'[t]
           used == IF row.resetAt # 0 /\ now > row.resetAt THEN 0
                   ELSE row.current
       IN  IF used < Limit
           THEN /\ call' = [call EXCEPT ![q] =
                              [op |-> "count", id |-> t, read |-> "none"]]
                /\ admitted' = IF row.resetAt = 0 \/ now <= row.resetAt
                               THEN [admitted EXCEPT ![t] = @ + 1]
                               ELSE admitted
           ELSE UNCHANGED <<call, admitted>>
    /\ UNCHANGED now

\* resetAt is kept once it is set: the stored count is never set back.
IncrementQuota(q) ==
    LET t == call[q].id IN
    /\ quota' = [quota EXCEPT ![t].current = @ + 1,
                              ![t].resetAt = IF @ = 0 THEN now + 1 ELSE @]
    /\ End(q)
    /\ UNCHANGED <<now, admitted>>
\* The request was answered long ago; its count is lost.
IncrementFails(q) ==
    /\ admitted' = [admitted EXCEPT ![call[q].id] = IF @ > 0 THEN @ - 1 ELSE 0]
    /\ End(q)
    /\ UNCHANGED <<quota, now>>

Window == now < Horizon /\ now' = now + 1 /\ UNCHANGED <<quota, admitted, call>>

QuotaNext ==
    /\ \/ \E q \in Requests : \E t \in Tenants :
             quota[t].current <= Limit + Cardinality(Requests) /\ CheckQuota(q, t)
       \/ \E q \in Requests : call[q].op = "count" /\ IncrementQuota(q)
       \/ \E q \in Requests : call[q].op = "count" /\ IncrementFails(q)
       \/ Window
    /\ UNCHANGED <<policyVars, ticketVars, catalogVars, solo>>

-----------------------------------------------------------------------------
Init ==
    /\ policy = [k \in Policies |-> NoPolicy]
    /\ trail = [k \in Policies |-> {}]
    /\ ticket = [t \in Tickets |-> NoTicket]
    /\ event = [t \in Tickets |-> <<>>]
    /\ flag = NoFlag /\ notice = NoNotice
    /\ quota = [t \in Tenants |-> NoQuota]
    /\ now = 0
    /\ admitted = [t \in Tenants |-> 0]
    /\ solo \in BOOLEAN
    /\ call = [q \in Requests |-> Idle]

Next == PolicyNext \/ TicketNext \/ CatalogNext \/ QuotaNext
Spec == Init /\ [][Next]_vars

-----------------------------------------------------------------------------
Ops == {"update", "submit", "publish", "archive", "assign", "escalate",
        "resolve", "comment", "count"}
TypeOK ==
    /\ policy \in [Policies -> [status : PolicyStatus \cup {"none"},
                                version : 0..MaxVersion,
                                publishedAt : 0..MaxVersion]]
    /\ \A k \in Policies : trail[k] \subseteq
            (DOMAIN Expects \cup {"create"}) \X (1..MaxVersion)
    /\ ticket \in [Tickets -> [status : TicketStatus \cup {"none"},
                               assigned : BOOLEAN, resolution : BOOLEAN]]
    /\ \A t \in Tickets : Len(event[t]) <= MaxEvents + 1
    /\ flag \in [there : BOOLEAN, enabled : BOOLEAN, tenants : SUBSET Tenants]
    /\ notice \in [there : BOOLEAN, isActive : BOOLEAN,
                   startsAt : 0..Horizon, expiresAt : 0..Horizon]
    /\ \A t \in Tenants : /\ quota[t].current \in Nat
                           /\ quota[t].resetAt \in 0..Horizon + 1
                           /\ admitted[t] \in Nat
    /\ now \in 0..Horizon
    /\ \A q \in Requests : call[q].op \in Ops \cup {"idle"}

Did(k, op) == \E a \in trail[k] : a[1] = op
Happened(t, type) == \E i \in 1..Len(event[t]) : event[t][i] = type

\* However administrators' requests overlap, the records explain a status:
\* nothing is published that was not submitted, nothing archived that was
\* not published, and a ticket is resolved, escalated or in progress only
\* after the event (or with the assignee) that says so.
StatusBacked ==
    /\ \A k \in Policies :
         /\ policy[k].status \in {"in_review", "published", "archived"} =>
                Did(k, "submit")
         /\ policy[k].status \in {"published", "archived"} => Did(k, "publish")
    /\ \A t \in Tickets :
         /\ ticket[t].status = "resolved" =>
                ticket[t].resolution /\ Happened(t, "resolved")
         /\ ticket[t].status = "escalated" => Happened(t, "escalated")
         /\ ticket[t].status = "in_progress" => ticket[t].assigned

\* "Publication is the only path that makes a policy version effective"
\* (schema.prisma): while requests do not overlap, the version in force is
\* the one whose publication was audited.
EffectiveWasPublished ==
    solo => \A k \in Policies : policy[k].status = "published" =>
        /\ policy[k].version = policy[k].publishedAt
        /\ <<"publish", policy[k].version>> \in trail[k]

\* One request at a time, the guard lets at most Limit through in the first
\* window.  (The stored count is never set back, so later windows have none.)
QuotaHolds == solo => \A t \in Tenants : admitted[t] <= Limit
=============================================================================
