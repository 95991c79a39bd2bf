----------------------------- MODULE Integrations -----------------------------
(* Connectors to other services with their synchronisation jobs, the outbox *)
(* of webhooks a drain posts, and the endpoints a tenant's developers       *)
(* register, with the log of what they were sent.  Every post is between a *)
(* read and a write of its row: drains overlap, statements fail and the    *)
(* process dies in between.                                                 *)
EXTENDS Integers, Sequences, FiniteSets, FiniteSetsExt

CONSTANTS
    Requests,    \* requests in flight at most
    Tenants,
    Webhooks,    \* ids of outbox rows
    Endpoints,   \* ids of developer endpoints
    MaxJobs,     \* bound: synchronisation jobs
    MaxLogs      \* bound: deliveries to endpoints

VARIABLES
    connector,   \* IntegrationConnector rows of one provider
    loaded,      \* the connector object holds somebody's credentials
    job,         \* SyncJob rows, oldest first
    outbox,      \* WebhookOutbox rows
    due,         \* the outbox rows whose retry time has come
    accepted,    \* how many times the receiver took each webhook
    endpoint,    \* WebhookEndpoint rows of one tenant
    log,         \* WebhookEventLog rows, oldest first
    fault,       \* a statement failed or the process died
    solo,        \* requests do not overlap in this behaviour
    call         \* what each request read and has still to write

connectorVars == <<connector, loaded, job>>
outboxVars == <<outbox, due, accepted>>
portalVars == <<endpoint, log>>

Idle == [op |-> "idle"]
Free(q) == call[q] = Idle /\ (solo => \A r \in Requests : call[r] = Idle)
Begin(q, c) == Free(q) /\ call' = [call EXCEPT ![q] = c]
Go(q, pc) == call' = [call EXCEPT ![q].pc = pc]
End(q) == call' = [call EXCEPT ![q] = Idle]
At(q, op, pc) == call[q].op = op /\ call[q].pc = pc

-----------------------------------------------------------------------------
(* Connectors *)

NoConnector == [status |-> "none", enabled |-> FALSE]

\* connect loads the credentials into the provider's one object and tries
\* them, then stores the row; an update of the row leaves enabled alone.
Connect(q, t) ==
    /\ loaded' = TRUE
    /\ \E ok \in BOOLEAN :
         Begin(q, [op |-> "connect", pc |-> "store", tenant |-> t, ok |-> ok])
    /\ UNCHANGED <<connector, job, outboxVars, portalVars, fault>>
\* testConnection tries what is loaded, whoever loaded it.
TestConnection(q, t) ==
    /\ connector[t] # NoConnector
    /\ \E ok \in BOOLEAN :
         /\ ok => loaded
         /\ Begin(q, [op |-> "test", pc |-> "store", tenant |-> t, ok |-> ok])
    /\ UNCHANGED <<connectorVars, outboxVars, portalVars, fault>>
StoreConnector(q) ==
    LET c == call[q]
    IN  /\ c.op \in {"connect", "test"}
        /\ connector' = [connector EXCEPT ![c.tenant] =
              [status |-> IF c.ok THEN "connected" ELSE "error",
               enabled |-> @ = NoConnector \/ @.enabled]]
        /\ End(q)
        /\ UNCHANGED <<loaded, job, outboxVars, portalVars, fault>>

Disconnect(q, t) ==
    /\ connector[t] # NoConnector
    /\ loaded' = FALSE
    /\ Begin(q, [op |-> "disconnect", pc |-> "store", tenant |-> t])
    /\ UNCHANGED <<connector, job, outboxVars, portalVars, fault>>
StoreDisconnected(q) ==
    /\ At(q, "disconnect", "store")
    /\ connector' = [connector EXCEPT ![call[q].tenant] =
                        [status |-> "disconnected", enabled |-> FALSE]]
    /\ End(q)
    /\ UNCHANGED <<loaded, job, outboxVars, portalVars, fault>>

\* sync: an enabled connector, a running job, the connector, the outcome, and
\* the time on the connector; a failure on the way fails the job.
Sync(q, t) ==
    /\ connector[t].enabled /\ Len(job) < MaxJobs
    /\ Begin(q, [op |-> "sync", pc |-> "create"])
    /\ UNCHANGED <<connectorVars, outboxVars, portalVars, fault>>
CreateJob(q) ==
    /\ At(q, "sync", "create") /\ Len(job) < MaxJobs
    /\ job' = Append(job, "running")
    /\ call' = [call EXCEPT ![q] = [op |-> "sync", pc |-> "complete", job |-> Len(job')]]
    /\ UNCHANGED <<connector, loaded, outboxVars, portalVars, fault>>
\* The connector answers that it synchronised, or that it could not.
CompleteJob(q) ==
    /\ At(q, "sync", "complete")
    /\ \E s \in {"completed", "failed"} : job' = [job EXCEPT ![call[q].job] = s]
    /\ Go(q, "touch")
    /\ UNCHANGED <<connector, loaded, outboxVars, portalVars, fault>>
TouchConnector(q) ==
    /\ At(q, "sync", "touch") /\ End(q)
    /\ UNCHANGED <<connectorVars, outboxVars, portalVars, fault>>
SyncThrows(q) ==
    /\ \E pc \in {"complete", "touch"} : At(q, "sync", pc)
    /\ Go(q, "fail") /\ fault' = TRUE
    /\ UNCHANGED <<connectorVars, outboxVars, portalVars>>
FailJob(q) ==
    /\ At(q, "sync", "fail")
    /\ job' = [job EXCEPT ![call[q].job] = "failed"]
    /\ End(q)
    /\ UNCHANGED <<connector, loaded, outboxVars, portalVars, fault>>

-----------------------------------------------------------------------------
(* The outbox *)

NotQueued == [status |-> "none", attempts |-> 0]
MaxAttempts == 3

QueueWebhook(w) ==
    /\ outbox[w] = NotQueued
    /\ outbox' = [outbox EXCEPT ![w].status = "pending"]
    /\ due' = due \cup {w}
    /\ UNCHANGED <<accepted, connectorVars, portalVars, fault, call>>
RetryTime(w) ==
    /\ outbox[w].status = "pending" /\ w \notin due
    /\ due' = due \cup {w}
    /\ UNCHANGED <<outbox, accepted, connectorVars, portalVars, fault, call>>

\* processPendingWebhooks takes the pending rows that are due and posts one
\* after the other, with the attempts it read.
Drain(q) ==
    LET batch == {w \in due : outbox[w].status = "pending"
                                /\ outbox[w].attempts < MaxAttempts}
    IN  /\ batch # {}
        /\ Begin(q, [op |-> "drain", pc |-> "post", left |-> batch, id |-> "none",
                     attempts |-> [w \in batch |-> outbox[w].attempts]])
        /\ UNCHANGED <<connectorVars, outboxVars, portalVars, fault>>
Post(q, w, ok) ==
    /\ At(q, "drain", "post") /\ w \in call[q].left
    /\ accepted' = IF ok THEN [accepted EXCEPT ![w] = @ + 1] ELSE accepted
    /\ call' = [call EXCEPT ![q] = [call[q] EXCEPT !.id = w, !.left = @ \ {w},
                                                   !.pc = IF ok THEN "delivered" ELSE "retry"]]
    /\ UNCHANGED <<outbox, due, connectorVars, portalVars, fault>>
Advance(q) == IF call[q].left = {} THEN End(q) ELSE Go(q, "post")
RecordDelivered(q) ==
    /\ At(q, "drain", "delivered")
    /\ outbox' = [outbox EXCEPT ![call[q].id] =
                     [status |-> "delivered", attempts |-> @.attempts + 1]]
    /\ Advance(q)
    /\ UNCHANGED <<due, accepted, connectorVars, portalVars, fault>>
\* A write of the delivery that fails is caught as a failed delivery.
DeliveredNotRecorded(q) ==
    /\ At(q, "drain", "delivered") /\ Go(q, "retry") /\ fault' = TRUE
    /\ UNCHANGED <<connectorVars, outboxVars, portalVars>>
RecordRetry(q) ==
    LET w == call[q].id
        tries == call[q].attempts[w] + 1
    IN  /\ At(q, "drain", "retry")
        /\ outbox' = [outbox EXCEPT ![w] =
              [status |-> IF tries >= MaxAttempts THEN "failed" ELSE "pending",
               attempts |-> tries]]
        /\ due' = IF tries >= MaxAttempts THEN due ELSE due \ {w}
        /\ Advance(q)
        /\ UNCHANGED <<accepted, connectorVars, portalVars, fault>>

-----------------------------------------------------------------------------
(* Endpoints of the developer portal *)

NoEndpoint == [active |-> FALSE, last |-> "deleted"]

CreateWebhook(e) ==
    /\ endpoint[e] = NoEndpoint
    /\ endpoint' = [endpoint EXCEPT ![e] = [active |-> TRUE, last |-> "none"]]
    /\ UNCHANGED <<log, connectorVars, outboxVars, fault, call>>
UpdateWebhook(e, active) ==
    /\ endpoint[e] # NoEndpoint
    /\ endpoint' = [endpoint EXCEPT ![e].active = active]
    /\ UNCHANGED <<log, connectorVars, outboxVars, fault, call>>
DeleteWebhook(e) ==
    /\ endpoint[e] # NoEndpoint
    /\ endpoint' = [endpoint EXCEPT ![e] = NoEndpoint]
    /\ UNCHANGED <<log, connectorVars, outboxVars, fault, call>>

\* triggerWebhook for the active endpoints it finds, triggerWebhookById for
\* one; each is delivered to whatever becomes of it meanwhile.
TriggerWebhook(q) ==
    LET found == {e \in Endpoints : endpoint[e].active}
    IN  /\ found # {}
        /\ \E targets \in {found} \cup {{e} : e \in found} :
             Begin(q, [op |-> "trigger", pc |-> "log", left |-> targets,
                       id |-> "none", log |-> 0])
        /\ UNCHANGED <<connectorVars, outboxVars, portalVars, fault>>
LogEvent(q, e) ==
    /\ At(q, "trigger", "log") /\ e \in call[q].left /\ Len(log) < MaxLogs
    /\ log' = Append(log, [to |-> e, status |-> "pending", answer |-> "none"])
    /\ call' = [call EXCEPT ![q] = [call[q] EXCEPT !.id = e, !.left = @ \ {e},
                                                   !.log = Len(log'), !.pc = "post"]]
    /\ UNCHANGED <<endpoint, connectorVars, outboxVars, fault>>
\* The endpoint answers, or the timeout aborts the request.
PostEvent(q, answer) ==
    /\ At(q, "trigger", "post")
    /\ log' = [log EXCEPT ![call[q].log].answer = answer]
    /\ Go(q, CASE answer = "ok" -> "delivered" [] answer = "refused" -> "refused"
               [] OTHER -> "caught")
    /\ UNCHANGED <<endpoint, connectorVars, outboxVars, fault>>
\* The log is settled, then the endpoint; in the catch block once more.
SettleLog(q) ==
    LET c == call[q]
    IN  /\ c.op = "trigger" /\ c.pc \in {"delivered", "refused", "caught"}
        /\ log' = [log EXCEPT ![c.log].status =
                      IF c.pc = "delivered" THEN "delivered" ELSE "failed"]
        /\ Go(q, IF c.pc = "caught" THEN "caughtEndpoint" ELSE "endpoint")
        /\ UNCHANGED <<endpoint, connectorVars, outboxVars, fault>>
\* Its statement fails: the catch block settles it again, once.
SettleFails(q) ==
    /\ call[q].op = "trigger" /\ call[q].pc \in {"delivered", "refused", "caught"}
    /\ IF call[q].pc = "caught" THEN End(q) ELSE Go(q, "caught")
    /\ fault' = TRUE
    /\ UNCHANGED <<connectorVars, outboxVars, portalVars>>
SettleEndpoint(q) ==
    LET c == call[q]
    IN  /\ c.op = "trigger" /\ c.pc \in {"endpoint", "caughtEndpoint"}
        /\ endpoint[c.id] # NoEndpoint
        /\ endpoint' = [endpoint EXCEPT ![c.id].last = log[c.log].status]
        /\ IF c.left = {} THEN End(q) ELSE Go(q, "log")
        /\ UNCHANGED <<log, connectorVars, outboxVars, fault>>
\* The endpoint was deleted meanwhile: caught once, then the request fails.
EndpointGone(q) ==
    LET c == call[q]
    IN  /\ c.op = "trigger" /\ c.pc \in {"endpoint", "caughtEndpoint"}
        /\ endpoint[c.id] = NoEndpoint
        /\ IF c.pc = "endpoint" THEN Go(q, "caught") ELSE End(q)
        /\ UNCHANGED <<connectorVars, outboxVars, portalVars, fault>>

\* The process dies: requests vanish, and what the connector had loaded.
Crash ==
    /\ ~fault /\ fault' = TRUE
    /\ \E q \in Requests : call[q] # Idle
    /\ loaded' = FALSE
    /\ call' = [q \in Requests |-> Idle]
    /\ UNCHANGED <<connector, job, outboxVars, portalVars>>

-----------------------------------------------------------------------------
Init ==
    /\ connector = [t \in Tenants |-> NoConnector] /\ loaded = FALSE /\ job = <<>>
    /\ outbox = [w \in Webhooks |-> NotQueued] /\ due = {}
    /\ accepted = [w \in Webhooks |-> 0]
    /\ endpoint = [e \in Endpoints |-> NoEndpoint] /\ log = <<>>
    /\ fault = FALSE /\ solo \in BOOLEAN
    /\ call = [q \in Requests |-> Idle]

ConnectorNext ==
    \E q \in Requests :
        \/ \E t \in Tenants : \/ Connect(q, t) \/ TestConnection(q, t)
                              \/ Disconnect(q, t) \/ Sync(q, t)
        \/ StoreConnector(q) \/ StoreDisconnected(q)
        \/ CreateJob(q) \/ CompleteJob(q) \/ TouchConnector(q)
        \/ SyncThrows(q) \/ FailJob(q)
OutboxNext ==
    \/ \E w \in Webhooks : QueueWebhook(w) \/ RetryTime(w)
    \/ \E q \in Requests :
        \/ Drain(q)
        \/ \E w \in Webhooks : \E ok \in BOOLEAN : Post(q, w, ok)
        \/ RecordDelivered(q) \/ DeliveredNotRecorded(q) \/ RecordRetry(q)
PortalNext ==
    \/ \E e \in Endpoints : CreateWebhook(e) \/ DeleteWebhook(e)
                            \/ \E active \in BOOLEAN : UpdateWebhook(e, active)
    \/ \E q \in Requests :
        \/ TriggerWebhook(q)
        \/ \E e \in Endpoints : LogEvent(q, e)
        \/ \E answer \in {"ok", "refused", "timeout"} : PostEvent(q, answer)
        \/ SettleLog(q) \/ SettleFails(q) \/ SettleEndpoint(q) \/ EndpointGone(q)

Next == (ConnectorNext \/ OutboxNext \/ PortalNext \/ Crash) /\ UNCHANGED solo

Spec == Init /\ [][Next]_<<connectorVars, outboxVars, portalVars, fault, solo, call>>

-----------------------------------------------------------------------------
(* Correctness *)

\* Types.
TypeOK ==
    /\ \A t \in Tenants :
         connector[t].status \in {"none", "connected", "error", "disconnected"}
    /\ loaded \in BOOLEAN /\ fault \in BOOLEAN /\ solo \in BOOLEAN
    /\ Len(job) <= MaxJobs
    /\ \A w \in Webhooks : /\ outbox[w].status \in {"none", "pending", "delivered", "failed"}
                           /\ outbox[w].attempts \in 0..(MaxAttempts + Cardinality(Requests))
    /\ due \subseteq Webhooks
    /\ Len(log) <= MaxLogs
    /\ \A i \in DOMAIN log : log[i].status \in {"pending", "delivered", "failed"}

\* Where every drain had the outbox to itself and nothing failed, a webhook
\* is taken once at most, one given up was tried the full three times, and one
\* recorded delivered was taken (integrations.service.ts:193-243).
OutboxHonest ==
    \A w \in Webhooks :
        /\ outbox[w].status = "delivered" => accepted[w] > 0
        /\ solo /\ ~fault => accepted[w] <= 1
        /\ outbox[w].status = "failed" =>
              /\ outbox[w].attempts >= MaxAttempts
              /\ solo /\ ~fault => accepted[w] = 0

\* What runs says so and what says it runs does: a job left running, or a log
\* entry left pending, belongs to a request in flight unless a
\* statement failed or the process died; and an event logged as delivered was taken by the endpoint
\* (integrations.service.ts:130-163, developer.service.ts:118-175).
RunningIsHeld ==
    /\ \A i \in DOMAIN job :
         job[i] = "running" => fault \/ \E q \in Requests :
                                  call[q].op = "sync" /\ call[q].pc # "create"
                                    /\ call[q].job = i
    /\ \A i \in DOMAIN log :
         /\ log[i].status = "pending" => fault \/ \E q \in Requests :
                                  call[q].op = "trigger" /\ call[q].log = i
         /\ log[i].status = "delivered" => log[i].answer = "ok"
=============================================================================
