# DUKA-BACKEND in TLA+

This directory is a formal model of the DUKA backend (`src/`): a NestJS service
over PostgreSQL (Prisma) and redis, in which merchants ("tenants") build a
mobile app, submit it for review, sell through it and take bookings and payments.
It holds TLA+ modules translated from the code, TLC configurations that check
them on small instances, and theorems checked by TLAPS for every instance.

Contents: 1 the system, 2 how code becomes TLA+, 3 the modules,
4 the runs, 5 bounds and fairness, 6 the proofs, 7 findings and refuted
properties, 8 what is not modelled, 9 the plan.

## 1. The system

`src/src/main.ts` starts one Nest application; any number of its processes serve
HTTP requests over one database and one redis. There are no background workers
that change state by themselves: reminders, clean-up and feed purging are
endpoints somebody calls. A handler is an `async` function, every `await` of
a query lets other requests run, and few handlers use `prisma.$transaction`. So
the state of the system is the tables and the redis keys, its processes are the
requests in flight, and its hazards are what one request does with what it read
before another one wrote.

| component | state | operations | talks to | correct when |
|---|---|---|---|---|
| Publishing (`modules/publishing`, `merchants.submitAppReview`, `admin.approveApp/rejectApp`) | `releases`, `drafts`, `tenants.status/appStatus/activeReleaseId`, `idem:*` in redis | publish, app-review, rollback, preview, approve, reject, status | drafts, delivery caches | versions in sequence; one live release; what is live was submitted, and only moves forward; everybody is told the same status |
| Release delivery (`shared/releases`, `bff/mobile`, `modules/renderer`) | `active:release:*`, `release:snap:*`, `manifest:*` in redis; self-healing write of `activeReleaseId` | get manifest, get definition (with or without version), invalidate | reads Publishing's tables | only approved, never suspended, never dark, converging |
| Commerce (`modules/commerce`) | products, variants, reservations, carts, cart items, coupons, orders | reserve, release, confirm, adjust; cart, coupon, checkout; order statuses | payments by name only | stock held is reserved; totals add up; nothing unpaid is fulfilled |
| Payments (`modules/payments`) | intents, transactions, webhook events, financial events, settlements | initialise, verify, webhook, refund, settle | the providers' adapters | the books never show money or refunds that do not exist |
| Booking (`modules/booking`) | services, schedules, bookings and history, reminders, waiting list | create, slots, status, reminders, waiting list | nothing else | capacity; confirmed before begun; one call per cancellation |
| Authentication (`modules/auth`, `modules/iam`) | users, password history, refresh tokens; reset links, codes, challenges and their counters in redis | register, login, OAuth, refresh, logout, OTP, reset | mail, redis | rotation invalidates; a reset ends older sessions; bounded guesses; one session per challenge |
| Account lifecycle (`modules/users`, admin clean-up) | users' status and deletion date | deactivate, reactivate, delete, approve, reject, clean up | auth | nothing deleted before its window ended |
| Onboarding, compliance (`modules/merchants`, `modules/admin`, invites) | tenants, KYC submissions, invitations, the config JSON, the subscription | create and seed, submit, verify, reject, invite, configure, subscribe | auth, publishing, media | flag and submissions agree; a link makes one administrator; no lost update |
| Platform administration (`modules/platform-admin`, the quota guard) | policies, tickets with events, flags, announcements, API quotas | draft to publication, ticket life, count a request | - | a status was earned; what is in force was published as it stands |
| Communications and feed (`modules/comms`, `modules/feed`, mobile BFF) | announcements, replies, receipts; posts, likes, counters | send, reply, read, delete; post, like, share, purge | subscription's plan | only the audience answers; counters match rows; quota |
| Forms, theme, builder (`modules/forms`, `theme`, `builder`) | fields, submissions, approvals; theme row, snapshots, redis cache; draft pages, sections, components | edit, submit, approve; change, restore, read; copy, edit, discard | publishing compiles drafts | a decision stands; the cache follows the row; nothing half copied |
| Manifest validator, compatibility, renderer | none: three walks over one tree | validate, evaluate, draw | publishing | what is accepted can be drawn |
| Media and assets (`modules/media`, `assets-enhanced`) | rows, objects in storage, submissions' documents; folders, shares, providers | upload, move out of public reach, delete; share, count | KYC submissions | no public copy of a private document |
| Notifications (`modules/notifications`) | notifications, delivery results, devices, preferences | send by three channels, campaign, click, register | providers | a result for every target; own devices only |
| Integrations, developer portal | connectors, jobs, outbox, endpoints, logs | connect, sync, drain, trigger | other services | what is recorded delivered was taken |
| Marketplace and templates | listings, installations; pages, theme, navigation, media | publish, install; apply | media, theme, builder | installed was published; applied in full; own logo kept |
| Roles and the seed (`modules/users`, `rbac`, the guards, `prisma/seed.ts`) | role rows, members, the seeded rows | assign, remove, guard; seed at each deployment | - | a grant opens its routes; no password reset |
| Analytics, dashboards, BFFs | orders, bookings, events; dashboards and widgets | reports, lists in pages | commerce, payments | the figures agree |
| Security, infrastructure | policy, API keys; deployments, health checks | create, validate, revoke; record, list | - | a revoked key is refused; the status is the latest |
| Search and the assistant | index, query log; completions, embeddings, prompts | index, search, complete | providers | views agree; usage accounted |

`PROJECT.json` lists all of them with their sources, and the hazards line by line.

How they interact. Publishing writes the release tables; Delivery reads them, and
writes one column back (`activeReleaseId`, when it finds the row without it);
approvals and suspensions drop Delivery's redis keys after their transaction.
`merchants.submitAppReview` calls Publishing and then writes the tenant once more.
Commerce and Payments are joined by no code: an order becomes paid when staff set its
status, and no payment changes an order; so they are separate modules.
Booking computes a refund but calls no provider. Domain events (`EventBus`) are
published after the writes, and no modelled state depends on a handler.
A compliance submission asks Media to take its documents private before it is stored;
a feed post asks the subscription for its plan; a template writes the theme, the
pages and the media of the tenant while their own services do, and so does the builder.
`Services` and `Studio` check many parts in one run, one at a time: where two of them
write one row, each has the other's writes as an action of its own (`EditInPlace` in
`Theme`, `SeedPage .. DeleteAsset` in `Marketplace`, `OwnPassword` in `Access`, ...).

What is hard in it: reads before an `await` used after it (nearly every handler),
writes by id with no condition on what was read, counters and rows written
apart, two redis commands where one is meant, retries after a lost reply, caches
filled by a reader that is slower than an invalidation, two stores without a common
transaction (objects and rows), copies made row by row, midnight.

## 2. How code becomes TLA+

- **A request is a process.** `pc[p]` is the `await` at which request `p` stands,
  `job[p]` what it has read so far and still uses. A slot (`p`) is reused, so the
  number of slots bounds how many requests overlap, not how many there are.
- **A step is what happens between two awaits** that touch shared state. Reads of
  rows nobody changes (permissions, the plan, a service's settings) are merged
  with the next step.
- **A transaction** runs under READ COMMITTED, the database's default. Where its
  statements choose their rows by a filter, they are steps: `updateMany` finds
  its rows among what is committed when it starts, waits for the rows other open
  transactions wrote, and writes those that still satisfy the filter; what it wrote is
  seen by others at the commit. So are the activation, the rejection of an app and the
  superseding of older candidates (`Publishing`, with `tx` for what was found and
  written), and the review of a merchant's compliance (`Onboarding`). A `$transaction`
  whose statements write by id is one step.
- **Early returns and exceptions** end the request (`Done`): nothing rolls back
  what it wrote before, except inside a transaction.
- **Crashes**: `Fail(p)` ends a request between any two steps. In `Shop` a request
  that dies is one that takes no more steps, which `[Next]_vars` allows, and `Full`
  is an insert that fails at the table's bound.
- **One tenant.** Every query of the modelled services has the tenant's id in its
  `where`; rows of two tenants never meet.
- **Data.** Manifests, amounts, names and messages are reduced to what a guard or a
  property tells apart. Rows are numbered in order of creation.
- **Left out everywhere**: logging, audit rows, domain events, response shapes.
- Definitions marked "mutant" are plausible bugs; they are no part of `Next` and
  exist to show that the property they break depends on the code.

## 3. The modules

### Publishing (`Publishing.tla`, `LiveApp.tla`, `MCPublishing.tla`)

State: `status`/`row` are the `releases` table split in its mutable and immutable
columns, `tenant` the three columns of the tenant row, `draft` the
`<tenant>-draft` row, `idem` the stored replies, `tx` what the running statement of a
request found and what its open transaction has written.

| code | actions |
|---|---|
| `publish`, `submitAppReview` with and without a manifest | `SubmitManifest`, `SubmitDrafts`, `Compile` |
| `rollback` | `Rollback`, then the same steps without a version |
| `allocateVersion` | `ReadLatest`, `ReadClash` |
| `createReviewRelease` and its `P2002` branch | `Insert`, `InsertRefused` |
| saving the snapshot, `supersedePendingCandidates`, `markSubmittedForReview`, the reply | `SaveDraft`, `FindOlder`, `Supersede`, `MarkSubmitted`, `Finish` |
| live preview, `approveApp`, `publishAsAdmin` | `Preview`, `Approve`, `CheckSubmitted`, `PickCandidate`, `RecordApproval` |
| `activateReviewRelease` and the statements of its transaction | `RereadCandidate`; `FindPublished`, `Retire`, `FindPending`, `Activate` (the rest, up to the commit) |
| `rejectApp`, `rejectTenant`, `suspendTenant`/`updateTenant` | `CheckReject`, `FindRejected`, `Reject`, `CheckRefuse`, `Refuse`, `SetTenantStatus` |

A manifest is its `Content`, its version and its build number. `SameBytes` models
the checksum: a compiled draft holds the time of its compilation and never equals
another submission; the manifest of a rollback is the stored `jsonb` form of an
earlier one and equals only another rollback's. Releases are never deleted. The
legacy `AdminService.approveApp/rejectApp` have no route and are not modelled;
`deactivateTenant` writes a column the schema does not have and cannot succeed.

`LiveApp` is what the pipeline promises the users of an app: submissions are
counted, the live one only gives way to a later one, and an app once live stays
live. `LiveMovesForward` is `Publishing => LiveApp` under the mapping
`count <- number of rows`, `live <- the published row`.

### ReleaseDelivery (`ReleaseDelivery.tla`)

The composition of the two public readers with the tenant row, the releases, the
three caches and the administrators' side reduced to what readers see: `Approve`
is Publishing's `Activate` (releases are numbered by approval), `Unpublish` a
suspension, with or without invalidation. `GetManifest .. FillSlug` are the BFF,
`GetDefinition .. KeepFallback` are the renderer and
`ActiveReleaseService.getActiveRelease` and `loadActive`, which both readers call. `dels` counts the key deletions an approval
has yet to make; a second approval replaces the first one's remaining deletions,
which is covered because every key may also expire at any time. `saw` and `base`
are history variables for the properties.

### Shop (`Shop.tla`, `MCShop.tla`)

Stock and reservations, carts, coupons, checkout and the order status machine of
`commerce.service.ts`, none of it in a transaction. `mode` fixes which families of
operations overlap in a behaviour: everything one at a time (`alone`), stock
operations with each other, cart operations, checkouts and coupons, order
statuses. This keeps the state space within reach and lets a property say in which
modes it is meant; `TotalsAddUp` (carts against their lines and coupon, orders against
their items) is about requests one at a time, because two overlapping cart requests
refute it. A coupon has `Terms` (type and value) and may be inactive; `EditCoupon` is
`updateCoupon` and `deleteCoupon`, which write any of that and recalculate no cart. A cart
that carries the coupon is `stale` from then until its next recalculation, and
`TotalsAddUp` asks nothing of its total meanwhile, only of its subtotal.

### Payments (`Payments.tla`)

Intents, the charge, the refund transactions, the ledger and the settlements, with
the provider as an external variable: a session exists or not, was paid or not,
and the refunds it granted. An adapter turns every error into a failure result, so
a lost answer and a refusal look alike. A webhook comes for any intent, at any time and
any number of times: the route is public, `processWebhook` verifies no signature, asks no
provider and completes the intent whose reference the body names, paid or not; `told`
remembers which intents one has named. A body whose word for success the handler does not
recognise leaves the intent alone. A refunded payment may or may not be
reported as successful by the provider. So a *status* rests on a payment or on what a
webhook said, and a refund may follow either; what `ReceivedWasPaid` adds is that a charge
is completed, and money booked as received, only for an intent the provider was paid for.

### Booking (`Booking.tla`, `MCBooking.tla`)

One service with its capacity, duration and schedule as constants. `alone` fixes
whether requests overlap. `CreateBooking`/`InsertBooking`/`ScheduleReminder`
are `createBooking`; `UpdateBookingStatus .. NotifyNext` the status machine with
its waiting-list call; `ProcessReminders`/`SendReminder` the reminder endpoint;
`Offered` is the availability engine as an operator, with the code's day window.

### Accounts (`Accounts.tla`, `MCAccounts.tla`)

One email address: `user` and `history` are its row and its `PasswordHistory`,
`token` the `refresh_tokens` table, `link`, `code` and `challenge` the redis keys of
reset links, verification codes and second-factor challenges. `SignUp .. OAuthLogin`
are the ways in, which all end in `Issue` (`generateTokens`); `Refresh`, `Rotate`
and `Logout` are the session; `RequestReset .. UseLink` the reset;
`OpenChallenge .. DeleteTries` the code a platform role needs; `Deactivate .. CleanUp`
the life of the account, with the administrators' `SetStatus` and `SetRole`.
`SignedIn` is the guard of the endpoints for the signed-in user, which looks at the row's status and
not at any token. `parent`, `login`, `pw` and `ch` of a token (what it was rotated
from and which sign-in, password and challenge it goes back to), `wrong` and `dropped` of a challenge, `since`
and `broken` are history variables. A mode names the families of operations
that overlap and those that run only when nothing else does; `Overlaps` lists
the five that are checked. Tokens and links also expire: a request that does not
come stands for one that comes too late. An address whose account was deleted is
not used again.

### The services around the shop (`Services.tla`, `MCServices.tla`)

`Services` EXTENDS `Payments` and instantiates nine modules whose rows never meet. `focus`
is fixed in the initial state and names the part whose steps a behaviour takes; the other
parts keep their initial rows. So one run holds the sum of the parts' state spaces,
not their product, and each property speaks of the part in focus. Two more constants of
a behaviour bound what overlaps: `solo` (every request of the part waits for the others)
and `rival` (the kinds of request that overlap). With them a property says for which
overlaps it is meant.

- `PlatformAdmin`: `ReadPolicy`/`ReadTicket` is the read and check of an operation,
  `UpdatePolicy .. ArchivePolicy`, `AssignTicket .. CommentTicket` its transaction;
  `CheckQuota`/`IncrementQuota` are the quota guard's two statements.
- `Onboarding`: `SubmitKyc`, `MarkPending` are `submitKyc`; `Review`, `CountPending`,
  `FindPending`, `Decide` are verification and rejection, whose transaction finds what is
  pending in one step and decides it in another; `Register .. CreateAccount` the sign-up with
  an invitation, whose email is compared in lower case with the invitation's and as it is
  spelled with other accounts' (`Spellings`); `CreateTenant .. SeedFails` the tenant with its
  first app, from an active template that may offer any of pages, theme and navigation
  (`starter`) or, when there is none or an insert fails, the minimal one;
  `ReadConfig`/`SaveConfig` the two writers that merge one field into the JSON column, the
  category's taking a failed read for an empty configuration, and `UpdateConfig` the
  merchant's PUT, which writes it whole (`replaced` names the fields such a write
  dropped); `Subscribe .. Features` the subscription.
- `Feed`: posts in half days, the UTC day of the quota, the lifetime and the purge; likes as
  look-up and transaction; shares and visits with their log.
- `Messaging`: announcements with an audience, replies and receipts, each a look-up and an
  insert; a deletion takes the thread with it.
- `Notifications`: a send is a record that walks through row, targets, provider and
  delivery results; a campaign starts one for every user.
- `Integrations`: connectors and jobs; the outbox with its drain (`Drain`, `Post`, `Advance`,
  `RecordDelivered`, `RecordRetry`); endpoints and their log, whose statements may fail
  (`SettleFails`, `EndpointGone`). `Crash` ends a request.
- `Access`: role rows per scope, the route guard with its audit, members, and the seed as
  processes that may die (`StartSeed .. FillSample`).
- `Security`: policy (created by its first reader), keys, health checks, deployments.
- `Search`: the index; queries by words, tags and page (`PageLength`), logged with what the
  page showed; facets, which look for the words in title and content only (`Mentions`) where a
  search also looks among the tags (`Matches`); the assistant's completions, whose row may be
  refused.

### What a merchant makes and shows (`Studio.tla`)

The same composition over `Publishing` (all endpoints and keys, no overlap) and eight
modules; `MCStudio` gives it values.

- `Forms`: `DropFields`/`AddFields`/`BumpVersion` are the edit, `InsertApproval`,
  `CountApprovals`, `WriteStatus` the approval. `asked` remembers the fields of a version.
- `Theme`: `ReadTheme`, `WriteTheme`, `SaveSnapshot`, `InvalidateCache` are a change,
  `MissCache`, `ReadRow`, `FillCache` a reader. `EditInPlace` is the row written by
  `builder.updateTheme`, `useTemplate` and a new tenant's seed: no version, no snapshot, no
  invalidation. `was` remembers the last row of each version, `stored` every row there was.
- `Drafts`: the copy and the discard row by row with the foreign keys' cascade; edits.
- `Media`: object store and rows: `Upload .. InsertRow`, `ReadForDelete .. DeleteRow`,
  `StartMove .. MovePrior`, `RecordDocument`. Objects are on disk, where a move is a rename
  and an error of a deletion is swallowed, or in a bucket (`s3`), where a move is a copy and a
  deletion and errors are thrown (`Delete`, `StepFails`). Any statement or storage call may
  fail and end its request with part of its work done (`cut`). `mediaPrivacyMoves` is per
  process, so `Crash` empties it.
- `Assets`: folders found or created, collections, shares with a limit, default providers.
- `Manifest`: a tree of nodes grown by `AddNode` from a skeleton (`frame`), and the
  three walks over it as operators; `DeleteAsset` removes what an accepted one refers to.
- `Marketplace`: listings and installations; `UseTemplate .. CopyAsset` is `useTemplate`, while
  `SeedPage`, `EditTheme`, `EditNavigation` and `DeleteAsset` are what sign-up, builder, theme
  and media write meanwhile. No code of `src/src` deactivates or deletes a template.
- `Reports`: orders, payments' events and bookings with their days, and every report as an
  operator over them; dashboards with their widgets.

Behaviour of the code found while translating these, kept as it is in the models:
`admin.createTenant` writes `ownerId`, which the schema does not have; `SubscriptionService`
writes `cancelled` where the update allows `canceled`; a quota's `resetAt` and `current`
are never set back; reconnecting a disconnected connector leaves it disabled, and
connector objects share credentials between tenants in memory; preferences and quiet hours are
stored and not consulted; a deleted notification template is still found by id; a campaign
counts fulfilled promises, not deliveries; `merchantList` reports `readAt` null; receipts do
not check the audience; synonyms are not consulted; `pagesCreated` of a template counts skipped
pages; `RbacGuard` is used by no controller; platform-scope role rows can be doubled (a
null tenant is not bound by the key); `users.removeUser` and `merchants.removeUser`
delete from different tables.

## 4. The runs

| run | question | result |
|---|---|---|
| `publishing` | `TypeOK`, `VersionSequence`, `OneLive`, `ActiveIsPublished`, `LiveMovesForward` with two merchants and an administrator, every await and every statement of a transaction interleaved, requests dying anywhere | holds |
| `content` | `ReviewConsistent`: all publishing endpoints, idempotency keys, tenant statuses, requests one after another; `ViewsAgree`, `ContentWhole` of the parts of `Studio`, overlapping, failing, dying | holds |
| `publishing_exact` | is what the administrator previewed what the approval activates? | violated |
| `publishing_superseded` | can a superseded candidate be activated? | violated |
| `publishing_replay` | does an app in review have something to approve? | violated |
| `delivery` | `OnlyApprovedServed`, `NeverDark`, `SuspendedNotServed`, `Converges` with a BFF and a renderer reader, failing invalidations and expiry | holds |
| `delivery_active` | does the renderer always serve the release live when it was asked? | violated |
| `shop` | `ReservedIsBacked`, `TotalsAddUp`, `CouponCounted`, `PaidBeforeFulfilled` | holds |
| `services` | `ReceivedWasPaid`, `RefundsBacked`, `SettledBeforeRecorded` of `Payments`; `DecisionsBacked`, `TalliesExact`, `OwnersKeepTheirs` of the parts of `Services` | holds |
| `booking` | `CapacityRespected`, `ConfirmedFirst`, `OneCallPerCancellation`, `OfferedCanBeBooked`, `RemindedWhileActive` | holds |
| `accounts` | `RotationInvalidates`, `OneTokenPerLogin`, `PasswordInForce`, `GuessesLimited`, `OneSessionPerChallenge`, `KeptThroughWindow` | holds |
| `booking_slots` | does every offered slot have room? | violated |

The properties of the two compositions gather those of their parts:

| property | of |
|---|---|
| `DecisionsBacked` | `StatusBacked`, `EffectiveWasPublished` (PlatformAdmin), `ReviewBacked`, `PendingIsReviewable`, `InviteUsedOnce`, `AnsweredMeansSeeded` (Onboarding), `GrantsOpenTheirRoutes` (Access), `PolicyObeyed` (Security) |
| `TalliesExact` | `QuotaHolds` (PlatformAdmin), `CountersExact`, `PostsWithinPlan` (Feed), `ThreadsWhole` (Messaging), `ResultsAccounted` (Notifications), `OutboxHonest`, `RunningIsHeld` (Integrations), `SearchAgrees`, `UsageAccounted` (Search), `StatusIsLatest` (Security) |
| `OwnersKeepTheirs` | `PasswordsKept`, `SampleWhole` (Access), `NoLostUpdate` (Onboarding), `OwnDevicesOnly` (Notifications) |
| `ContentWhole` | `SubmissionsChecked`, `DecisionStands` (Forms), `HistoryKept` (Theme), `DraftsWhole`, `NoOrphans` (Drafts), `DocumentsKept` (Media), `InstalledWasPublished`, `TemplateApplied`, `OwnLogoKept` (Marketplace) |
| `ViewsAgree` | `CacheAgrees` (Theme), `NoPublicCopy` (Media), `LibraryConsistent` (Assets), `AcceptedIsRenderable`, `ValidActionsLead` (Manifest), `ReportsAgree`, `PagesCoverTheList` (Reports) |

Each property is stated above its definition. The ones that hold although the code
has no lock for them are the point of the runs:

- `VersionSequence`: the version read and the insert are several awaits apart; the
  unique index and the retry recognition keep numbering without gaps all the same,
  but for two *first* submissions with different versions (`OneFirst`).
- `OneLive`, `ActiveIsPublished`, `LiveMovesForward`: the activation supersedes by status,
  not by what was read, so submissions may overlap its statements. All three are about one
  administrator deciding at a time (`Admins` has one slot): of two approvals that overlap
  neither sees the row the other publishes, and an approval and a rejection that overlap
  leave the pointer at a rejected release. With two slots TLC refutes them.
- `NeverDark`: the fallback covers the release superseded under a reader's feet.
- `ReservedIsBacked`: the order of the two writes of a reserve, a release and a
  confirmation is such that dying between them never leaves stock held for nobody.
- `ReceivedWasPaid`, `RefundsBacked`: late verdicts overwrite and webhooks are believed, but
  no charge is completed and no money received that the provider did not see.
- `RotationInvalidates`, `GuessesLimited`, `OneSessionPerChallenge`: refresh and
  verification read, then write by id or key. Two requests at once do both succeed;
  what is left over is one each, and never the token that was rotated.

- `StatusBacked`, `CountersExact`, `NoOrphans`, `LibraryConsistent`'s foreign keys and
  `NoPublicCopy` hold whatever overlaps or fails: a status is only ever written with its
  event, a counter moves in the transaction of its row, and a document's public objects are
  gone before any submission names it privately.

Deadlock is not checked in any run: a system in which no user sends a request
stops, which is no fault.

## 5. Bounds and fairness

| run | bounds | states | why it is enough |
|---|---|---|---|
| `publishing` | 2 merchants, 1 administrator, 2 releases, patch numbers 0..1 | 1.7 M | two overlapping submissions compete for one version; a submission overlaps an approval of another release; symmetric merchants |
| `content` | publishing: 1 of each, 2 contents, 1 key, 2 releases; others: 2 requests, 1-3 rows of each table, trees of up to 8 nodes, days 6..8 | 1.3 M | a submission, its retry with the same or other bytes, a rollback and a decision; two changes and a reader of one theme; a file, its copies and two submissions; a page with a section with a component; a Saturday, a Sunday, a Monday and two months |
| `delivery` | 1 reader of each kind, 2 releases | 0.3 M | the readers share all caches; one approval supersedes what they read |
| `shop` | 2 requests, 1 item, 1 cart, 1 line, 2 reservations, 2 orders, fixed coupon larger than the price | 3.9 M | every pair of operations on the same row; the discount is clipped; the coupon's last use |
| `services` | payments: 2 requests, 1 intent, 1 settlement, 2 refunds, 2 events; others: 2 requests, 1-2 rows of each table | 0.7 M | every pair of requests on one payment, with webhooks and failures between; every pair of requests on one policy, ticket, post, message, webhook, invitation; two seeds and their deaths; quota and plan limits of 0 to 2; an email spelled in two ways, templates with and without each part; pages of one hit, so that a second page may be empty |
| `booking` | 2 requests, capacity 1, duration 2 in a day of 4, starts 1 and 3, 2 bookings and 2 entries one at a time, 1 of each when overlapping | 2.0 M | start 3 crosses midnight; the two starts overlap by one unit; the second booking meets the first's every status |
| `accounts` | 2 requests, 2 passwords, 2 tokens, 1 link, 1 challenge, 2 codes, limit 2, window 1 of a clock of 2 | 1.8 M | a token and the one rotated from it; a challenge one past its limit by each request; a code and a newer one; a clean-up on the first day it may delete |

A bound is a guard of the action that would pass it (`MaxReleases`, `MaxPatch`,
`MaxStock`, `MaxCarts`, `MaxLines`, `MaxReservations`, `MaxOrders`, `MaxRefunds`,
`MaxEvents`, `MaxTokens`, `MaxLinks`, `MaxChallenges`, `MaxCodes`, `MaxWrong`, `MaxBookings`, `MaxEntries`, `MaxShared`, `Horizon`), or, for an
insert, the failure of the request. The constants of the instantiated modules are declared in `Services` and given in
`Services.cfg`, those of `Studio` in `MCStudio` and `Studio.cfg`. TLC's coverage of each part run alone shows every action and
every disjunct of the composition firing. Symmetry is used for merchants, requests and passwords only, and
in no run with a liveness property.

Fairness is assumed in `ReleaseDelivery!FairSpec` alone: a request that was started
takes its next step (Node runs the continuation of a finished query, and each read
has an answer or an error), and each redis key expires, because every one of the
three is written with a TTL. Nothing makes users read, administrators act, or an
invalidation succeed. `Converges` says that then, when approvals stop, every
reader is served the live release from some point on.

## 6. The proofs

`tlapm` checks `Publishing_proofs.tla`, `Delivery_proofs.tla`, `Shop_proofs.tla`,
`Booking_proofs.tla`, `Accounts_proofs.tla`, `Services_proofs.tla` (payments and the
services around the shop), `Studio_proofs.tla` (what a merchant makes and shows) and
`Sums.tla` (sums over finite sets, which the proofs about the shop and the reports share)
to the last leaf; the two compositions take `tlapm` a quarter of an hour each.
They assume only the modules' named ASSUMEs (distinct slots, `None` outside the
data sets, natural bounds, finitely many request slots, posts and devices, a free plan of
at least one post a day, at least one item to sell, no merchant called `platform`).

**Publishing.** The invariant is built in three layers.

- `Formed`: `TypeOK`, every stored row has a version and a positive build number,
  a request that allocated a version knows it, and one that stored or picked a release
  refers to a stored row. `TypeOK` alone is not inductive: `Compile` reads the version
  of a row, and `Insert` stores what a request computed.
- `VersionInv` adds, for each request between `ReadLatest` and `Insert`, that its
  build number and version are the first or follow those of a stored release, or that
  its version is taken (`Allocates`), that versions are unique (the index), and that
  there is a first release if there is any.
  `VersionSequence` is then preserved by the only step that adds a row: the new row
  follows an old one, and the old ones are in sequence.
- `ForwardInv` (on `Formed`) adds, for one administrator, that row ids are contiguous,
  that a pending candidate, and the one the approval has picked, were submitted after
  the live release, and that the tenant's pointer names a published release. What the
  statements of an activation found still holds when it commits (`ApprovalInv`): nobody
  else publishes, and candidates only arrive.

`OneByOneConsistent` is about a mode, `OneByOne`: no two requests overlap, none dies, and
the merchant does not call `submitAppReview`, which breaks the property by itself (section 7).
`SerialInv` then says what the one request under way knows: the row it read is as it read it,
the pending candidate is the last submission, and the tenant's status is the one its releases
call for, or is about to be written by that request.

| theorem | says |
|---|---|
| `TypeCorrect` | `Spec => []TypeOK` |
| `VersionsInSequence` | `Spec => []VersionSequence`, any number of merchants and administrators |
| `OneLiveRelease` | with at most one administrator slot, `Spec => []OneLive` |
| `OneAdminActive` | with at most one administrator slot, `Spec => []ActiveIsPublished` |
| `OneAdminForward` | with at most one administrator slot, `Spec => LiveMovesForward`: the pipeline implements `LiveApp` |
| `OneByOneConsistent` | with `OneByOne`, `Spec => []ReviewConsistent` |

**Release delivery.** `DeliveryInv` adds to `TypeOK` two things.

- `Stored`: a public app has an approved release, and the pointer, the snapshots and
  the manifests hold approved releases or nothing. Every cache write copies from a row or
  from another cache, so it is inductive whatever the order of writes.
- `Fits`, for each request and the step it stands at: the release in hand was approved, a
  request past the tenant check saw the app public, the tenant row it would see now is
  among those it saw (`saw`), and one that ended without a release on an app always public
  is the version query or a mobile request whose tenant row names no release.

An approval or a suspension changes what every request under way may have seen
(`NoticedFits`); every other step moves one request (`Moves`).

| theorem | says |
|---|---|
| `TypeCorrect` | `Spec => []TypeOK` |
| `OnlyApproved` | `Spec => []OnlyApprovedServed` |
| `SuspendedIsRefused` | `Spec => []SuspendedNotServed` |
| `PublicIsServed` | `Spec => []NeverDark` |

All for any number of readers and releases, whatever overlaps, fails or expires.

**Commerce.** The sums of rows come first. The community module sums a function over a set
with a recursion on its subsets; the library's induction theorems take an operator and cannot be
used, but a set of numbers has a least member (`LeastOne`, from the well-foundedness of `<`).
A lemma about every finite set is then proved from the least size at which it would fail:
that the recursion has a solution (`IterSolves`) and one value (`IterAgrees`), that a sum is a
number, counts a member once, depends on the members alone and grows with the set (`SumTakes`,
`SumType`, `SumWithout`, `SumWith`, `SumSame`, `SumAtMost`), and that a sum over groups is the
sum over all (`SumUnion`, `SumOfGroups`), which is how the reports' days add up to their totals.

- `TypeInv` is `TypeOK` and `Writes`: a request about to write a status holds one that the
  column has, without which `TypeOK` is not inductive.
- `HoldInv` (on `TypeInv`): what is reserved of an item, with what requests that have made a
  reservation are still to hold, is at most the active reservations that no request has lowered
  the counter for (`BackedAt`); a request that lowers the counter holds the item and quantity of
  its reservation (`Frees`). A reservation counts on both sides when it is made, `Hold`
  moves it from one term to the other, `Unhold` takes it off both, and marking it changes nothing.
- `TotalInv`, in the mode without overlaps: one request is at work (`OneAtWork`), every cart
  fits its lines and its coupon but the one that this request will still refresh (`Dirty`), and
  the request knows the sum it read, whose lines it writes, and that there is stock enough for the
  reservation it goes on to make (`Task`): a stock check that failed there would leave a cart
  behind that nobody refreshes.
- `OrderInv` types only what the next two need (`Shaped`). A request about to write a status
  holds a legal successor of the status it read. It may have been overtaken, but `paid` is
  monotone: what it read was paid or its target needs no payment (`Reads`), so the write is
  sound on a row that moved meanwhile.
- `CountInv`: each order with the coupon was made by one checkout, and until that checkout
  has counted it is in `Counting`; one that dies leaves the count behind, never ahead.

| theorem | says |
|---|---|
| `TypeCorrect` | `Spec => []TypeOK` |
| `HeldIsBacked` | `Spec => []ReservedIsBacked`, whatever overlaps |
| `CartsAddUp` | `Spec => []TotalsAddUp` |
| `PaidFirst` | `Spec => []PaidBeforeFulfilled`, whatever overlaps |
| `UsesCounted` | `Spec => []CouponCounted` |

**Payments.** `TypeOK` is inductive. `ReceivedWasPaid` needs `PaidInv`: a request
past the provider's good word works on a paid payment (`Heard`), one past the check of a
completed intent on a paid one or one that a webhook named (`Works`); since a payment never
becomes unpaid and what was told stays told (`PaidForGood`) this survives every other
request's steps. `RefundsBacked` is inductive once it is known that a request
past the grant carries a good answer; its proof moves one request between the
counted sets (`InFlightMove`, with the cardinality facts of the library, hence
the finiteness of `Requests`). `SettledBeforeRecorded` needs `Marked`: a request
about to record a settlement has marked its row, and a settled row stays settled.

| theorem | says |
|---|---|
| `TypeCorrect` | `Spec => []TypeOK` |
| `PaidBeforeBooked` | `Spec => []ReceivedWasPaid` |
| `RefundsAccounted` | `Spec => []RefundsBacked` |
| `SettledFirst` | `Spec => []SettledBeforeRecorded` |

**Booking.** Two layers, as the properties are of two kinds.

- `BookInv`, whatever overlaps: a row's history backs its status (`Backed`), a place that
  was called names a booking that was cancelled, and each request knows that its booking
  exists and that its target follows a status the booking once had (`Knows`). History only
  grows, so a write on a stale read is still backed.
- `Serial`, for requests one at a time (`OneAtATime`): what the one request has read is so
  still (`Current`): there is room for the booking it inserts, its transition is legal, the
  cancellation it calls for was not called, its reminders are pending. `Room` is then kept
  by the insert because whoever is under way at a time of the new booking overlaps it, and
  by a status change because none leads from a status that frees its slot to one that
  holds it.

`OfferedIsGranted` compares the two computations of the code, the availability engine's
count of what a slot meets and `createBooking`'s, on the same rows: for a day that closes
before midnight each booking the second counts is one the first has counted.

| theorem | says |
|---|---|
| `TypeCorrect` | `Spec => []TypeOK` |
| `NeverUnconfirmed` | `Spec => []ConfirmedFirst`, whatever overlaps |
| `CapacityKept` | `Spec => []CapacityRespected` |
| `OneCallEach` | `Spec => []OneCallPerCancellation` |
| `RemindersActive` | `Spec => RemindedWhileActive` |
| `OfferedIsGranted` | with `Closes <= DayLength`, `Spec => []OfferedCanBeBooked`; past midnight run `booking_slots` refutes it |

**Accounts.** `NextSplits` groups the actions by what they write, and one lemma a
group says where a request goes and that its record fits (`Fits`), so that each
invariant looks at few actions.

- `RotationInv`: a request at `rotate` holds a stored token; one at `issue` with a
  parent, and every stored token with a parent, has one that is revoked or gone. Tokens
  only lose otherwise (`Fade`), so no interleaving makes a parent good again.
- `Solo` and `LoginInv`, for requests one at a time: one request is under way, what it
  rotates is good, and what it issues belongs to a sign-in without a good token.
- `ForceInv`: an account that does not exist has no session; outside a reset's window
  sessions, and what a request is about to issue, bear the password in force or none.
- `Dated`: the scheduled day of a deactivated account is a window after its
  deactivation. It is what makes the clean-up's date a bound on the deactivation's.
- `ChallengeInv` counts: an open challenge has no session, and fewer wrong answers than
  `Limit` but for the requests that are closing it (`Closing`) and those that died so. When
  it closes, the requests at work on it (`At`, `Trying`) are the most that can still come
  out of it, as `Known` says no request joins a closed challenge; each then leaves the count
  when its session or its wrong answer enters.

| theorem | says |
|---|---|
| `TypeCorrect` | `Spec => []TypeOK` |
| `RotationIsFinal` | `Spec => []RotationInvalidates`, whatever overlaps |
| `OneTokenEach` | `Spec => []OneTokenPerLogin` |
| `ResetEndsSessions` | `Spec => []PasswordInForce` |
| `NeverDeletedEarly` | `Spec => KeptThroughWindow`, whatever overlaps |
| `GuessesAreLimited` | `Spec => []GuessesLimited`, whatever overlaps or dies |
| `OneSessionEach` | `Spec => []OneSessionPerChallenge` |

**The services around the shop.** A turn lemma for each instance says that a step is one of
the part in focus or leaves its rows alone (`PolicyTurn`, `OnboardingTurn`, ...), so that each
part has an invariant of its own, and the theorems put them together over `focus`.

- `PolicyInv`, `TicketInv`: a request under way remembers a status whose audit row or event
  exists (`PolicyKnows`, `TicketKnows`). Those rows are never deleted, so a write on a stale
  read is still backed, and `solo` adds that what was read is so still.
- `ReviewInv`, `InviteInv`, `ConfigInv` rest on `Apart`: two requests under way are of kinds
  this behaviour lets overlap. A verdict about to be written has a pending submission or
  one already decided by its own kind (or by the other, where the two overlap); an invitation
  about to make an account is marked, and has made none unless registrations overlap; the field
  a writer does not write is as it read it, was replaced, or its read failed.
- `SeedInv`: what a creation has still to insert, with what is there, is what it promised: the
  template's parts, or all of them, also when it fell back to the minimal app.
- `RoleInv`: what was assigned and not removed is stored under the name the database has for
  it (`AskedIsStored`), which is what the guard looks up.
- `KeyInv`, `DeviceInv`, `PreferInv`, `DeployInv`: alone, a request finds the key, the
  device's owner, the rows of preferences and the account's password as it read them.

The tallies have invariants of the same kind. A counter and the row
it counts are written by different statements, so each says what the requests in between owe.

- `QuotaInv`: alone, what was let through is at most what is counted, and one more for the
  tenant whose count is on its way.
- `FeedInv`: a post's counters are its rows (`Counted`), which one transaction writes; alone,
  a creation under way leaves room in the day's allowance for the post it will insert. The
  allowance is the larger of the plan's limit now and at the beginning of the day, because a
  plan may end in between (`DayKept`).
- `TalkInv`: a reply was asked for by somebody who could see the message, until it is gone.
- `ResultInv`: while a send records, the results it has and has still to record are those it
  owes, one for each device or address, or one if there was none (`Accounted`).
- `ConnectorInv`, `OutboxInv`, `PortalInv`: a job left running and an entry left pending have
  a request at work on them (`Holds`, `LogHeld`); a drain between the answer and its write has an
  accepted webhook, exactly one acceptance when it has the outbox to itself (`DrainKnows`).
- `UsageInv`: what the provider answered or refused is on record or about to be stored by a
  request, but for the one write the database may have refused by then.
- `SearchInv`, `HealthInv`: the logged queries are finitely many and each names its term, so that
  a most searched one exists; a request for the status has found each service once.

| theorem | says |
|---|---|
| `DecisionsSound` | `ServicesSpec => []DecisionsBacked` |
| `OwnersKeep` | `ServicesSpec => OwnersKeepTheirs` |
| `TalliesSound` | `ServicesSpec => []TalliesExact` |

**What a merchant makes and shows.** `StudioInv` is the conjunction of eight invariants, one for
each instance; `Turns` says that a step is one of the part in focus or leaves its rows alone. Each
has three kinds of conjunct: what the rows are whatever overlaps, what a request under way knows of
what it read, and what it knows besides while the requests it must not meet do not overlap it.

- `ThemeInv`: versions are numbered without gaps up to the row's (`ThemeNumbered`), a request's row
  was the theme at some time (`Stored`, `StyleKnows`), and without a rival the snapshots are the
  last rows of the versions before the one in force, or one short while a change is about to
  take it (`KeptBefore`), and the cache is of today's version (`Fresh`).
- `MediaInv`: which public objects can be left over at each step of an upload, a deletion or a move
  (`NoneLeft`, `OneLeft`, `MediaKnows`); alone and until a step fails, every submission names the
  address the file has and an object is there (`MediaKept`), or is about to be (`MediaAlone`).
- `FormInv`: an answer passed the fields of the version it names (`Answered`), and a status has
  the row that decided it, the last one when approvals do not overlap (`LastWord`).
- `DraftInv`: no row without its parent, whatever overlaps, which the cascades and the foreign
  keys give; alone, the pages a copy has finished show a component and the others do not exist yet
  (`DraftFinds`).
- `MarketInv`: whatever is published, installed or about to be was published in its version
  (`PluginsPublished`); alone, a template has applied exactly what is before the place it is at
  (`TemplateKnows`).
- `AssetInv`: alone, a request that looked for a folder, a default provider or a share finds it as
  it was (`FilingKnows`); every download counted was served or is about to be (`Closing`).
- `ManifestInv`: the tree is well formed (`WellFormed`): nodes come after the nodes above them.
  The walks are recursive functions over the nodes, so a lemma about them is proved from the
  first node at which it would fail (`LeastOne`): that each has a value at every node, that whatever
  is drawn has only the renderer's keys above it, hence is no node the compatibility check
  passes over, and that the validator has reached what is drawn from a layout.
- `ReportsInv`: a payment is no earlier than its order, earned money belongs to a paid order, and
  widgets belong to a dashboard. That the reports agree is then a fact about their operators:
  the same rows grouped by day, by week, by status or cut into pages.

| theorem | says |
|---|---|
| `StudioTyped` | `StudioSpec => []ContentTyped` |
| `StudioAgrees` | `StudioSpec => []ViewsAgree`, for trees of any size and any number of orders and days |
| `StudioWhole` | `StudioSpec => ContentWhole` |

Only model-checked: `Converges` (liveness is outside the prover's reach), and `ServicesTyped` of
the services, of which each part's invariant proves what the theorems need.

## 7. Findings, and properties that are refuted

Five runs show a statement of the repository that the code does not keep; each is
quoted, with its lines, under `findings` in `PROJECT.json`.

1. `publishing_exact`: "Activate the exact candidate that an administrator reviewed."
   The approval names the tenant, and picks the newest candidate when it runs.
2. `publishing_superseded`: "superseded candidates must never be activated by a later
   admin approval". The status is read before the transaction that writes by id.
3. `publishing_replay`: resubmitting the published version's bytes marks the app in
   review although nothing was queued; the approval then fails until a new submission.
4. `delivery_active`: "Always serves the active production release". A reader's
   self-healing write overwrites an approval's pointer. It needs a tenant published before
   `activeReleaseId` existed, or three releases.
5. `booking_slots`: "Respects service capacity". A booking over midnight belongs to no day
   of the availability engine.

Properties one would wish for, which TLC refutes and which have no run: one reply
per idempotency key when two requests with one key overlap; a rejection of a tenant
that an approval publishes meanwhile; `OneLive` and `ActiveIsPublished` with two administrators;
no overselling when two reservations overlap, one order per cart, a coupon's limit
when two carts hold its last use; `RefundedOnce` (two overlapping refunds, or a
verification that sets a refunded intent back to completed); capacity, single
waiting-list calls and reminders when requests overlap; one token per sign-in when
two refreshes overlap; `PasswordInForce` after a reset that died between its password
and its revocation (the retry is refused as a reuse). In `Accounts` a deactivated account
cannot reactivate itself, because `JwtStrategy` asks for an active user first
(`Reigner.md:318` says it can), and the clean-up deletes thirty days after the
scheduled day, sixty after the deactivation (`Reigner.md:317` says thirty).

Of the later modules, and also without a run of their own: `NeverDriftsApart` when a
verification and a rejection overlap, although `admin.service.ts:118` says that flag and
submissions "can never drift apart"; a policy edited while it is being published; a plan's
daily posts when two overlap; an invitation revoked while a registration uses it, or used by two
registrations that overlap and spell its email differently; a field of the configuration lost to
an overlapping writer, to the merchant's PUT or to a category saved over a failed read; a payment
completed, and then refunded, on the word of a webhook; a cart's total after its coupon was
edited; a query that a facet does not count because only a tag matched, or that is reported
without result because its second page was empty; a theme's cache up to five minutes behind an
edit by builder or template; a media row whose object went before a step failed; a rejected form submission that an overlapping approval approves; a
theme cache filled by a reader that missed an update; a draft copy that failed half-way, which
counts as initialized; a sample merchant whose seed died; a webhook posted twice by
overlapping drains or after a crash; a push to a device that changed hands; a share link
beyond its limit by the requests in flight. Reports: `getRevenueReport` looks for events named
`payment` and `refund`, while the payments write `payment_received` and `refund_issued`, so
refunds are reported as none and refunded orders stay revenue; `getMerchantAnalytics` counts
unpaid orders as revenue; the merchant's summary reads only the last ten orders; a week's bucket
mixes a local weekday with a UTC key. The manifest checks take a node with a type and a payload
only for an action, and the preview draws it. The hazards of
`PROJECT.json` name the line of each.

## 8. Not modelled

- Validation of payloads, formatting, exports, image processing, wording: no state.
- CRUD by single statements whose property would repeat the assignment: categories, products
  and variants, taxes and fulfilments; services, staff, resources and schedules of
  Booking; platform settings; developer apps; collections' names; report definitions;
  synonyms, prompts, environments and backups; consents and security events.
- Catalogues in code: component, action and condition registries of the builder.
- The event bus, the queue and the tenant context: no modelled state depends on them.
- Object storage, mail, push, AI and payment providers are external: their answers are
  nondeterministic choices.
- Discovery and QR codes: one query, one image.
- Guards other than the platform's role guard and the quota guard: they read tables no
  modelled action changes.
- Isolation below a transaction whose statements all write by id, and a database at another
  level than its default.
- Columns a caller may add to a request body typed `any` (`updateCoupon`, `updateConfig`,
  `builder.updateTheme`): the bodies are those of the editors, with the columns they edit.

## 9. Plan

In the order of what matters most to the system:

1. Publishing, LiveApp and their proofs; ReleaseDelivery and its proofs. *Done.*
2. Shop, Payments, Booking and their proofs. *Done.*
3. Accounts with proofs. *Done.*
4. Onboarding and the platform's services, composed in `Services`, and its decisions,
   owners and tallies proved. *Done.*
5. Forms, theme, drafts, media, assets, manifest, marketplace, reports, composed in
   `Studio`, and its types, views and histories proved. *Done.*
6. Activation, rejection and review statement by statement under READ COMMITTED. *Done.*
7. Liveness of the outbox and of a send (every due webhook is delivered or given up), under the
   fairness of somebody calling the drain.

Theorems to add:

- `ServicesTyped`, from the invariants the other theorems of the services rest on.
