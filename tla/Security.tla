------------------------------- MODULE Security -------------------------------
(* A tenant's security policy, its API keys and security events              *)
(* (security.service.ts), and what operations records: deployments,          *)
(* environments, backups and health checks (infrastructure.service.ts).      *)
EXTENDS Integers, Sequences, FiniteSets

CONSTANTS
    Requests,      \* requests in flight at most
    Keys,          \* ids of API keys
    Services,      \* names of services whose health is checked
    Addresses,     \* IP addresses
    MaxChecks,     \* bound: health checks recorded
    MaxSteps       \* bound: statuses of a deployment or a backup

VARIABLES
    policy,        \* the tenant's SecurityPolicy row
    conflict,      \* a request failed on the key of the policy
    key,           \* ApiKey rows
    used,          \* keys that were answered valid
    stale,         \* a key was answered valid that was not
    check,         \* HealthCheck rows, oldest first
    status,        \* the last answer of getServiceStatus
    job,           \* statuses of a deployment and of a backup, oldest first
    solo,          \* requests do not overlap in this behaviour
    call           \* what each request read and has still to write

keyVars == <<policy, conflict, key, used, stale>>
healthVars == <<check, status, job>>

Idle == [op |-> "idle"]
Free(q) == call[q] = Idle /\ (solo => \A r \in Requests : call[r] = Idle)
Begin(q, c) == Free(q) /\ call' = [call EXCEPT ![q] = c]
End(q) == call' = [call EXCEPT ![q] = Idle]
Is(q, op) == call[q].op = op

-----------------------------------------------------------------------------
(* The policy is created by the first request that looks for it *)

NoPolicy == [there |-> FALSE, digits |-> FALSE, white |-> {}, black |-> {}]
Default == [there |-> TRUE, digits |-> TRUE, white |-> {}, black |-> {}]

FindPolicy(q) ==
    /\ ~policy.there
    /\ Begin(q, [op |-> "create"])
    /\ UNCHANGED keyVars
\* The second of two requests is refused by the key on the tenant.
CreatePolicy(q) ==
    /\ policy' = IF policy.there THEN policy ELSE Default
    /\ conflict' = (conflict \/ policy.there)
    /\ End(q)
    /\ UNCHANGED <<key, used, stale>>
\* updatePolicy is one upsert.
UpdatePolicy(digits, white, black) ==
    /\ policy' = [there |-> TRUE, digits |-> digits, white |-> white, black |-> black]
    /\ UNCHANGED <<conflict, key, used, stale, call>>

\* A password is described by its length class and the characters it has.
ValidatePassword(p) ==
    {rule \in {"length", "digit"} : /\ rule = "length" => ~p.long
                                    /\ rule = "digit" => policy.digits /\ ~p.digit}
IsIpAllowed(ip) ==
    /\ ip \notin policy.black
    /\ policy.white # {} => ip \in policy.white

-----------------------------------------------------------------------------
(* API keys *)

NoKey == [there |-> FALSE, active |-> FALSE, expired |-> FALSE]
Valid(k) == key[k].active /\ ~key[k].expired

CreateKey(k) ==
    /\ ~key[k].there
    /\ key' = [key EXCEPT ![k] = [there |-> TRUE, active |-> TRUE, expired |-> FALSE]]
    /\ UNCHANGED <<policy, conflict, used, stale, call>>
ExpireKey(k) ==
    /\ key[k].there /\ ~key[k].expired
    /\ key' = [key EXCEPT ![k].expired = TRUE]
    /\ UNCHANGED <<policy, conflict, used, stale, call>>
RevokeKey(k) ==
    /\ key[k].there
    /\ key' = [key EXCEPT ![k].active = FALSE]
    /\ UNCHANGED <<policy, conflict, used, stale, call>>
\* validateApiKey looks the key up, records the use, and answers.
FindKey(q, k) ==
    /\ key[k].active /\ ~key[k].expired
    /\ Begin(q, [op |-> "use", k |-> k])
    /\ UNCHANGED keyVars
AnswerValid(q) ==
    LET k == call[q].k IN
    /\ used' = used \cup {k}
    /\ stale' = (stale \/ ~Valid(k))
    /\ End(q)
    /\ UNCHANGED <<policy, conflict, key>>

SecurityNext ==
    /\ \/ \E q \in Requests : FindPolicy(q)
       \/ \E q \in Requests : Is(q, "create") /\ CreatePolicy(q)
       \/ /\ \A q \in Requests : solo => call[q] = Idle
          /\ \/ \E digits \in BOOLEAN : \E w \in SUBSET Addresses :
                   \E b \in SUBSET Addresses : UpdatePolicy(digits, w, b)
             \/ \E k \in Keys : CreateKey(k) \/ ExpireKey(k) \/ RevokeKey(k)
       \/ \E q \in Requests : \E k \in Keys : FindKey(q, k)
       \/ \E q \in Requests : Is(q, "use") /\ AnswerValid(q)
    /\ UNCHANGED <<healthVars, solo>>

-----------------------------------------------------------------------------
(* Health checks, deployments and backups *)

Checked == {check[i].service : i \in DOMAIN check}
\* The newest check of a service decides.
Latest(s) ==
    LET i == CHOOSE i \in DOMAIN check :
               /\ check[i].service = s
               /\ \A j \in DOMAIN check : check[j].service = s => j <= i
    IN  check[i].status

RecordCheck(s, up) ==
    /\ Len(check) < MaxChecks
    /\ check' = Append(check, [service |-> s, status |-> up])
    /\ UNCHANGED <<status, job, call>>
\* getServiceStatus lists the services first and asks for each one after.
ListServices(q) ==
    /\ Begin(q, [op |-> "status", left |-> Checked, found |-> <<>>])
    /\ UNCHANGED healthVars
ReadService(q) ==
    LET c == call[q] IN
    /\ c.left # {}
    /\ LET s == CHOOSE s \in c.left : TRUE
       IN  call' = [call EXCEPT ![q] =
                      [c EXCEPT !.left = @ \ {s},
                                !.found = Append(@, [service |-> s, status |-> Latest(s)])]]
    /\ UNCHANGED healthVars
AnswerStatus(q) ==
    /\ call[q].left = {}
    /\ status' = call[q].found
    /\ End(q)
    /\ UNCHANGED <<check, job>>
\* Any status may follow any other.
Record(kind, s) ==
    /\ Len(job[kind]) < MaxSteps
    /\ job' = [job EXCEPT ![kind] = Append(@, s)]
    /\ UNCHANGED <<check, status, call>>
Overview ==
    [deployments |-> Len(job["deployment"]), backups |-> Len(job["backup"]),
     checks |-> Len(check),
     down |-> Cardinality({i \in DOMAIN check : check[i].status = "down"})]

HealthNext ==
    /\ \/ /\ \A q \in Requests : solo => call[q] = Idle
          /\ \/ \E s \in Services : \E up \in {"up", "down"} : RecordCheck(s, up)
             \/ \E kind \in {"deployment", "backup"} :
                   \E s \in {"done", "failed"} : Record(kind, s)
       \/ \E q \in Requests : ListServices(q)
       \/ \E q \in Requests : Is(q, "status") /\ (ReadService(q) \/ AnswerStatus(q))
    /\ UNCHANGED <<keyVars, solo>>

-----------------------------------------------------------------------------
Init ==
    /\ policy = NoPolicy /\ conflict = FALSE
    /\ key = [k \in Keys |-> NoKey]
    /\ used = {} /\ stale = FALSE
    /\ check = <<>> /\ status = <<>>
    /\ job = [kind \in {"deployment", "backup"} |-> <<>>]
    /\ solo \in BOOLEAN
    /\ call = [q \in Requests |-> Idle]

OperationsNext == SecurityNext \/ HealthNext
Spec == Init /\ [][OperationsNext]_<<keyVars, healthVars, solo, call>>

-----------------------------------------------------------------------------
TypeOK ==
    /\ policy.there \/ policy = NoPolicy
    /\ \A k \in Keys : key[k].there \/ key[k] = NoKey
    /\ used \subseteq {k \in Keys : key[k].there}
    /\ conflict \in BOOLEAN /\ stale \in BOOLEAN
    /\ Overview.down <= Overview.checks /\ Overview.checks <= MaxChecks

\* Whatever the administrator writes into both lists, an address that is
\* blocked is not allowed; a weak password stays refused while the policy asks
\* for more.  While requests do not overlap, a key that was revoked or ran out
\* is never answered valid, and looking for the policy never fails.
PolicyObeyed ==
    /\ \A ip \in Addresses : IsIpAllowed(ip) => ip \notin policy.black
    /\ policy.digits => ValidatePassword([long |-> TRUE, digit |-> FALSE]) # {}
    /\ solo => ~stale /\ ~conflict

\* Each checked service is listed once, in a state some check found it in; with
\* no overlap and nothing recorded since, the state is that of its last check.
StatusIsLatest ==
    /\ \A i, j \in DOMAIN status : status[i].service = status[j].service => i = j
    /\ \A i \in DOMAIN status : \E n \in DOMAIN check : check[n] = status[i]
    /\ \A q \in Requests : Is(q, "status") /\ solo =>
         \A i \in DOMAIN call[q].found :
            LET f == call[q].found[i] IN
            \E n \in DOMAIN check :
               /\ check[n] = f
               /\ \A m \in DOMAIN check : check[m].service = f.service => m <= n
=============================================================================
