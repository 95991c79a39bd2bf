------------------------------ MODULE Services ------------------------------
(* The services around the shop and the app: payments, the platform's       *)
(* administration, onboarding, the feed, messages, notifications,            *)
(* integrations, access, security and search.  No two of their parts write  *)
(* a column that a property below reads, so a behaviour takes the steps of   *)
(* one part of one of them, named by focus; the others stay as they were     *)
(* created.  What a part reads of a table another one writes (the feed, of   *)
(* the subscription) it models itself.                                       *)
EXTENDS Payments

CONSTANTS
    \* PlatformAdmin: policies, tickets, tenants with a flag and a quota
    Policies, Tickets, Metered, MaxEdits, MaxHistory, Limit, Windows,
    \* Onboarding: invitations, plans, kinds of requests that overlap
    Invites, Spellings, Plans, Rivals, MaxSubmissions, MaxWrites,
    \* Feed: posts, who sees them, who of them has an account, plans' limits
    Posts, Visitors, Readership, FreeLimit, PlanLimits, Days, MaxVisits,
    \* Messaging: announcements, merchants, their people
    Messages, Merchants, People, MaxReplies, MaxReads,
    \* Notifications: users, those with an address, devices
    Targets, Emailed, Tokens, MaxSends,
    \* Integrations: tenants, webhooks, endpoints
    Connected, Webhooks, Endpoints, MaxJobs, MaxLogs,
    \* Access: users, the one the seed names, merchants, seeds, roles asked for
    Staff, Bootstrap, Stores, Seeders, Sought, MaxCopies, MaxRows, MaxDenials,
    \* Security: keys, services whose health is checked, addresses
    Keys, Servers, Addresses, MaxChecks, MaxSteps,
    \* Search: what is indexed, its words and contents, filters
    Entities, Terms, Contents, TagFilters, PageSize, MaxQueries, MaxCompletions, MaxIndexed

VARIABLES
    focus,         \* the part whose steps this behaviour takes
    solo,          \* its requests do not overlap
    policy, trail, ticket, event, flag, notice, quota, window, admitted, asking,
    verification, kyc, invite, account, starter, seeded, config, wrote, replaced,
    plan, subscription, rival, joining,
    now, live, entitlement, product, post, like, logged, posting,
    message, reply, receipt, talking,
    notification, result, clicked, device, template, preference, reached, send,
    noting,
    connector, loaded, sync, outbox, due, accepted, endpoint, log, broken,
    linking,
    row, asked, member, password, core, sample, seeder, crashed, refused, audited,
    granting,
    rules, conflict, secret, used, stale, check, health, deployed, guarding,
    entry, source, queries, answers, completion, provided, returned, embedding,
    prompt, fault, finding

paVars == <<policy, trail, ticket, event, flag, notice, quota, window, admitted, asking>>
obVars == <<verification, kyc, invite, account, starter, seeded, config, wrote,
            replaced, plan, subscription, rival, joining>>
feVars == <<now, live, entitlement, product, post, like, logged, posting>>
msVars == <<message, reply, receipt, talking>>
noVars == <<notification, result, clicked, device, template, preference, reached,
            send, noting>>
igVars == <<connector, loaded, sync, outbox, due, accepted, endpoint, log, broken,
            linking>>
acVars == <<row, asked, member, password, core, sample, seeder, crashed, refused,
            audited, granting>>
seVars == <<rules, conflict, secret, used, stale, check, health, deployed, guarding>>
srVars == <<entry, source, queries, answers, completion, provided, returned,
            embedding, prompt, fault, finding>>

PA == INSTANCE PlatformAdmin WITH
        Tenants <- Metered, MaxVersion <- MaxEdits, MaxEvents <- MaxHistory,
        Horizon <- Windows, now <- window, call <- asking
OB == INSTANCE Onboarding WITH call <- joining
FE == INSTANCE Feed WITH
        Actors <- Visitors, Users <- Readership, Horizon <- Days, MaxEvents <- MaxVisits,
        subscription <- entitlement, call <- posting
MS == INSTANCE Messaging WITH Actors <- People, call <- talking
NO == INSTANCE Notifications WITH Users <- Targets, call <- noting
IG == INSTANCE Integrations WITH
        Tenants <- Connected, job <- sync, fault <- broken, call <- linking
AC == INSTANCE Access WITH
        Users <- Staff, Tenants <- Stores, Asked <- Sought, account <- password,
        seeded <- core, call <- granting
SE == INSTANCE Security WITH
        Services <- Servers, policy <- rules, key <- secret, status <- health,
        job <- deployed, call <- guarding
SR == INSTANCE Search WITH MaxVersion <- MaxIndexed, call <- finding

-----------------------------------------------------------------------------
ASSUME ServicesAssumption ==
    /\ MaxEdits \in Nat \ {0} /\ MaxHistory \in Nat /\ Windows \in Nat
    /\ MaxCopies \in Nat \ {0} /\ Limit \in Nat
    /\ "platform" \notin Merchants /\ MaxReplies \in Nat /\ MaxReads \in Nat
    /\ IsFiniteSet(Tokens) /\ IsFiniteSet(Posts) /\ IsFiniteSet(Entities)
    /\ PageSize \in Nat \ {0}
    /\ FreeLimit \in Nat \ {0} /\ PlanLimits \subseteq Nat

Parts ==
    {"payments", "policies", "tickets", "catalog", "quotas", "reviews", "invites",
     "seeds", "configs", "plans", "posts", "engagement", "messages", "campaigns",
     "reading", "preferences", "connectors", "outbox", "portal", "roles", "members",
     "deployment", "keys", "health", "searching", "assistant"}
\* The parts whose requests may be made to wait for each other.
Paced ==
    Parts \ {"payments", "reviews", "invites", "seeds", "configs", "plans",
              "searching", "assistant"}

ServicesInit ==
    /\ focus \in Parts
    /\ solo \in BOOLEAN /\ (solo => focus \in Paced)
    /\ Init /\ PA!Init
    /\ OB!Init /\ (rival # {} => focus \in {"reviews", "invites", "configs"})
    /\ (starter # OB!NoStarter => focus = "seeds")
    /\ FE!Init
    /\ entitlement.status # "none" \/ entitlement.endDate # 0 => focus = "posts"
    /\ entitlement.limit # 0 => focus = "posts"
    /\ (\E p \in DOMAIN post : FE!Exists(p)) => focus \in {"posts", "engagement"}
    /\ MS!Init /\ NO!Init /\ IG!Init
    /\ AC!Init /\ (core = {} => focus = "deployment")
    /\ SE!Init
    /\ SR!Init /\ (fault => focus \in {"searching", "assistant"})

PAStep ==
    /\ \/ focus = "policies" /\ PA!PolicyNext
       \/ focus = "tickets" /\ PA!TicketNext
       \/ focus = "catalog" /\ PA!CatalogNext
       \/ focus = "quotas" /\ PA!QuotaNext
    /\ UNCHANGED <<obVars, feVars, msVars, noVars, igVars, acVars, seVars, srVars>>
OBStep ==
    /\ \/ focus = "reviews" /\ OB!ReviewNext
       \/ focus = "invites" /\ OB!InviteNext
       \/ focus = "seeds" /\ OB!SeedNext
       \/ focus = "configs" /\ OB!ConfigNext
       \/ focus = "plans" /\ OB!PlanNext
    /\ UNCHANGED <<paVars, feVars, msVars, noVars, igVars, acVars, seVars, srVars>>
FEStep ==
    /\ \/ focus = "posts" /\ FE!PostNext
       \/ focus = "engagement" /\ FE!EngageNext
    /\ UNCHANGED <<paVars, obVars, msVars, noVars, igVars, acVars, seVars, srVars>>
MSStep ==
    /\ focus = "messages" /\ MS!CommsNext
    /\ UNCHANGED <<paVars, obVars, feVars, noVars, igVars, acVars, seVars, srVars>>
NOStep ==
    /\ \/ focus = "campaigns" /\ (NO!DispatchNext \/ NO!CampaignNext)
       \/ focus = "reading" /\ (NO!DispatchNext \/ NO!ReadingNext)
       \/ focus = "preferences" /\ NO!PreferenceNext
    /\ UNCHANGED <<paVars, obVars, feVars, msVars, igVars, acVars, seVars, srVars>>
IGStep ==
    /\ \/ focus = "connectors" /\ (IG!ConnectorNext \/ IG!Crash)
       \/ focus = "outbox" /\ (IG!OutboxNext \/ IG!Crash)
       \/ focus = "portal" /\ (IG!PortalNext \/ IG!Crash)
    /\ UNCHANGED <<paVars, obVars, feVars, msVars, noVars, acVars, seVars, srVars>>
ACStep ==
    /\ \/ focus = "roles" /\ AC!RoleNext
       \/ focus = "members" /\ AC!MemberNext
       \/ focus = "deployment" /\ AC!SeedNext
    /\ UNCHANGED <<paVars, obVars, feVars, msVars, noVars, igVars, seVars, srVars>>
SEStep ==
    /\ \/ focus = "keys" /\ SE!SecurityNext
       \/ focus = "health" /\ SE!HealthNext
    /\ UNCHANGED <<paVars, obVars, feVars, msVars, noVars, igVars, acVars, srVars>>
SRStep ==
    /\ \/ focus = "searching" /\ SR!SearchNext
       \/ focus = "assistant" /\ SR!AssistantNext
    /\ UNCHANGED <<paVars, obVars, feVars, msVars, noVars, igVars, acVars, seVars>>
PaymentsStep ==
    /\ focus = "payments" /\ Next
    /\ UNCHANGED <<paVars, obVars, feVars, msVars, noVars, igVars, acVars, seVars,
                   srVars>>
ServiceStep ==
    /\ PAStep \/ OBStep \/ FEStep \/ MSStep \/ NOStep \/ IGStep \/ ACStep \/ SEStep \/ SRStep
    /\ UNCHANGED vars

ServicesNext ==
    \/ PaymentsStep /\ UNCHANGED <<focus, solo>>
    \/ ServiceStep /\ UNCHANGED <<focus, solo>>
servicesVars == <<vars, focus, solo, paVars, obVars, feVars, msVars, noVars, igVars,
                  acVars, seVars, srVars>>
ServicesSpec == ServicesInit /\ [][ServicesNext]_servicesVars

-----------------------------------------------------------------------------
\* The columns of every part keep their types, and a refusal that was not
\* audited yet belongs to a request still under way.
ServicesTyped ==
    /\ focus \in {"policies", "tickets", "catalog", "quotas"} => PA!TypeOK
    /\ focus \in {"reviews", "invites", "seeds", "configs", "plans"} => OB!TypeOK
    /\ focus \in {"posts", "engagement"} => FE!TypeOK
    /\ focus = "messages" => MS!TypeOK
    /\ focus \in {"campaigns", "reading", "preferences"} => NO!TypeOK
    /\ focus \in {"connectors", "outbox", "portal"} => IG!TypeOK
    /\ focus \in {"roles", "members", "deployment"} => AC!TypeOK
    /\ focus \in {"keys", "health"} => SE!TypeOK
    /\ focus \in {"searching", "assistant"} => SR!TypeOK

\* What is in force rests on a decision somebody took and on what was decided
\* about: a policy in effect was published as it stands and a ticket's status
\* has its event (platform-admin.service.ts), a verified merchant has an
\* approved submission behind the flag and a pending one can still be reviewed
\* (admin.service.ts:100-170), an administrator was invited, and one alone with
\* the same invitation unless two registrations that spell the email differently
\* overlap (admin-invite.service.ts, auth.service.ts), a merchant whose creation
\* was answered has what its template offers or else the minimal app
\* (merchants.service.ts:114-226), a role opens its routes and no others
\* (platform-role.guard.ts), and every stored policy and key obeys its rule
\* (security.service.ts).
DecisionsBacked ==
    /\ focus \in {"policies", "tickets"} => PA!StatusBacked /\ PA!EffectiveWasPublished
    /\ focus = "reviews" => OB!ReviewBacked /\ OB!PendingIsReviewable
    /\ focus = "invites" => OB!InviteUsedOnce
    /\ focus = "seeds" => OB!AnsweredMeansSeeded
    /\ focus \in {"roles", "members"} => AC!GrantsOpenTheirRoutes
    /\ focus = "keys" => SE!PolicyObeyed

\* Counters and histories say what the rows behind them say, whatever overlaps
\* or fails: quotas (api-quota.guard.ts), likes, shares and visits of a post
\* (mobile-bff.service.ts, feed.service.ts), threads and receipts
\* (comms.service.ts), results of a campaign (notifications.service.ts), the
\* webhook outbox and the one running sync (integrations.service.ts), the
\* search index (search.service.ts), the assistant's usage (ai.service.ts) and
\* the status a health check left (infrastructure.service.ts).
TalliesExact ==
    /\ focus = "quotas" => PA!QuotaHolds
    /\ focus \in {"posts", "engagement"} => FE!CountersExact /\ FE!PostsWithinPlan
    /\ focus = "messages" => MS!ThreadsWhole
    /\ focus \in {"campaigns", "reading"} => NO!ResultsAccounted
    /\ focus \in {"connectors", "outbox", "portal"} => IG!OutboxHonest /\ IG!RunningIsHeld
    /\ focus = "searching" => SR!SearchAgrees
    /\ focus = "assistant" => SR!UsageAccounted
    /\ focus = "health" => SE!StatusIsLatest

\* No step takes what somebody else owns: a seed never resets a password a user
\* chose (seed.ts:89-106), a write of one field of the tenant's configuration
\* never loses another's it did not overlap, unless its read failed or a write of
\* the whole came in between (merchants.service.ts:79-94, admin.service.ts:62-97,
\* tenant-config.service.ts:25-35), a notification reaches devices of its user
\* only (notifications.service.ts:96-110), and the sample
\* merchant is never left half filled by a seed that did not die (seed.ts:425-600).
OwnersKeepTheirs ==
    /\ AC!PasswordsKept
    /\ [](focus = "configs" => OB!NoLostUpdate)
    /\ [](focus \in {"campaigns", "reading", "preferences"} => NO!OwnDevicesOnly)
    /\ [](focus = "deployment" => AC!SampleWhole)
=============================================================================
