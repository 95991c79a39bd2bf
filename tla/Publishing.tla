----------------------------- MODULE Publishing -----------------------------
(***************************************************************************)
(* The publishing pipeline of one tenant: merchant submissions, rollbacks  *)
(* and administrator decisions as concurrent HTTP requests over the        *)
(* `releases`, `drafts` and `tenants` tables.                              *)
(*                                                                         *)
(* Every `await` on the database is one step of a request, so any other    *)
(* request may run between two of them. The database runs at its default   *)
(* isolation, read committed: what a transaction wrote is seen by others   *)
(* when it commits, an updateMany finds its rows among what is committed   *)
(* as it starts, waits for the rows other transactions have written, and   *)
(* then writes those that still satisfy its filter. A request slot runs    *)
(* one handler at a time and can be reused.                                *)
(***************************************************************************)
EXTENDS Naturals, FiniteSets

CONSTANTS
    Merchants,    \* request slots of the tenant's owners and managers
    Admins,       \* request slots of the platform's administrators
    MerchantOps,  \* which merchant endpoints are called
    AdminOps,     \* which administrator endpoints are called
    Content,      \* what a manifest shows, version and build number aside
    Lines,        \* MAJOR.MINOR prefixes a client may ask for
    FirstLine,    \* the prefix of version 1.0.0
    Keys,         \* Idempotency-Key values
    None,         \* null: no header, no version, no release
    MaxReleases,  \* bound: rows of the releases table
    MaxPatch,     \* bound: patch numbers a client asks for
    CanFail,      \* whether a request may die between two of its steps
    Overlap       \* whether requests run at the same time

Proc == Merchants \cup Admins
Id == 1 .. MaxReleases            \* row ids, in order of creation
Version == [line : Lines, patch : Nat]
AskedVersion == [line : Lines, patch : 0 .. MaxPatch]
Status == {"pending_review", "published", "superseded", "rejected"}
Via == {"client", "draft", "rollback"}

ASSUME PublishingAssumption ==
    /\ Merchants \cap Admins = {}
    /\ MerchantOps \subseteq {"publish", "appReview", "rollback"}
    /\ AdminOps \subseteq {"preview", "approve", "reject", "refuse", "status"}
    /\ FirstLine \in Lines
    /\ None \notin Version \cup Id \cup Keys \cup Content
    /\ MaxReleases \in Nat
    /\ MaxPatch \in Nat
    /\ CanFail \in BOOLEAN
    /\ Overlap \in BOOLEAN

VARIABLES
    status,   \* status[r]: Release.status, "absent" before the row is created
    row,      \* row[r]: the columns of r that are never updated
    tenant,   \* Tenant.status, appStatus and activeReleaseId
    draft,    \* whose manifest the `<tenant>-draft` row holds
    idem,     \* idem[k]: the release replayed from redis for key k
    pc,       \* where each request is
    job,      \* what each request has read and computed
    tx        \* the rows its running updateMany found, its transaction wrote

vars == <<status, row, tenant, draft, idem, pc, job, tx>>

NoJob == [op |-> "none", via |-> "client", content |-> None, key |-> None,
          ver |-> None, next |-> None, build |-> 0,
          rel |-> None, seen |-> "absent", shown |-> None]
NoTx == [found |-> {}, wrote |-> {}]
NoRow == [version |-> None, build |-> 0, content |-> None,
          via |-> "client"]

-----------------------------------------------------------------------------
Rows == {r \in Id : status[r] # "absent"}
Pending == {r \in Rows : status[r] = "pending_review"}
Published == {r \in Rows : status[r] = "published"}

\* findFirst(orderBy: { buildNumber: 'desc' }): any row with the largest build.
Newest(S) == {r \in S : \A q \in S : row[q].build <= row[r].build}

\* The row the unique index (tenantId, version) finds.
WithVersion(v) == {r \in Rows : row[r].version = v}

NextVersion(v) == [v EXCEPT !.patch = @ + 1]
FirstVersion == [line |-> FirstLine, patch |-> 0]

\* The checksum covers the manifest with its version and build number. A
\* compiled draft carries the time of its compilation, a rollback the stored
\* form of an earlier manifest: neither equals what a client sends.
SameBytes(j, r, build) ==
    /\ j.via = row[r].via
    /\ j.via # "draft"
    /\ j.content = row[r].content
    /\ build = row[r].build

Init ==
    /\ status = [r \in Id |-> "absent"]
    /\ row = [r \in Id |-> NoRow]
    /\ tenant = [status |-> "draft", appStatus |-> "none", active |-> None]
    /\ draft = None
    /\ idem = [k \in Keys |-> None]
    /\ pc = [p \in Proc |-> "idle"]
    /\ job = [p \in Proc |-> NoJob]
    /\ tx = [p \in Proc |-> NoTx]

\* Moves the request of p, out of any transaction, or ends it (its reply
\* changes no state).
Goto(p, loc, j) ==
    /\ pc' = [pc EXCEPT ![p] = loc]
    /\ job' = [job EXCEPT ![p] = j]
    /\ tx' = [tx EXCEPT ![p] = NoTx]
Done(p) == Goto(p, "idle", NoJob)

\* A statement, or a transaction with its first statements, goes on.
InTx(p, loc, found, wrote) ==
    /\ pc' = [pc EXCEPT ![p] = loc]
    /\ tx' = [tx EXCEPT ![p] = [found |-> found, wrote |-> wrote]]
    /\ UNCHANGED job

\* Rows another open transaction has written: whoever writes one of them waits.
Held(p) == UNION {tx[q].wrote : q \in Proc \ {p}}
\* The tenant row is held by a rejection, whose transaction writes it first.
TenantFree(p) == \A q \in Proc \ {p} : pc[q] # "rejecting"

\* No request is between two of its steps; without Overlap one begins only then.
Quiet == \A p \in Proc : pc[p] \in {"idle", "previewed"}
MayBegin == Overlap \/ Quiet

-----------------------------------------------------------------------------
(* Merchant requests: publish, submitAppReview, rollback.                  *)

\* POST publish and POST app-review with a client manifest; a cached reply for
\* the idempotency key is replayed and changes nothing.
SubmitManifest(m, op, c, v, k) ==
    /\ pc[m] = "idle" /\ MayBegin
    /\ op \in MerchantOps \ {"rollback"}
    /\ op = "appReview" => k = None
    /\ k # None => idem[k] = None
    /\ Goto(m, "latest", [NoJob EXCEPT !.op = op, !.content = c, !.ver = v, !.key = k])
    /\ UNCHANGED <<status, row, tenant, draft, idem>>

\* The same endpoints without a manifest: the saved drafts are compiled first.
SubmitDrafts(m, op, c, k) ==
    /\ pc[m] = "idle" /\ MayBegin
    /\ op \in MerchantOps \ {"rollback"}
    /\ op = "appReview" => k = None
    /\ k # None => idem[k] = None
    /\ Goto(m, "compile", [NoJob EXCEPT !.op = op, !.via = "draft", !.content = c, !.key = k])
    /\ UNCHANGED <<status, row, tenant, draft, idem>>

\* The compiler stamps the version that follows the latest release it reads.
Compile(m) ==
    /\ pc[m] = "compile"
    /\ \/ /\ Rows = {}
          /\ Goto(m, "latest", [job[m] EXCEPT !.ver = FirstVersion])
       \/ \E l \in Newest(Rows) :
             Goto(m, "latest", [job[m] EXCEPT !.ver = NextVersion(row[l].version)])
    /\ UNCHANGED <<status, row, tenant, draft, idem>>

\* rollback: the target was live once; its manifest is resubmitted unversioned.
Rollback(m, target) ==
    /\ pc[m] = "idle" /\ MayBegin
    /\ "rollback" \in MerchantOps
    /\ status[target] \in {"published", "superseded"}
    /\ Goto(m, "latest", [NoJob EXCEPT !.op = "rollback", !.via = "rollback",
                                        !.content = row[target].content])
    /\ UNCHANGED <<status, row, tenant, draft, idem>>

\* allocateVersion, first read: the latest release fixes build and next version,
\* which a manifest without a version takes.
Allocated(j, build, next) ==
    [j EXCEPT !.build = build, !.next = next,
              !.ver = IF j.ver # None THEN j.ver
                      ELSE IF next = None THEN FirstVersion ELSE next]

ReadLatest(m) ==
    /\ pc[m] = "latest"
    /\ \/ Rows = {} /\ Goto(m, "clash", Allocated(job[m], 1, None))
       \/ \E l \in Newest(Rows) :
             Goto(m, "clash",
                  Allocated(job[m], row[l].build + 1, NextVersion(row[l].version)))
    /\ UNCHANGED <<status, row, tenant, draft, idem>>

\* A tenant's first version is free, the next one is given (VERSION_SEQUENCE).
AnyVersion(j) == TRUE                    \* mutant: no sequence check
InTurn(j) == j.next \in {None, j.ver}

\* allocateVersion, second read: the same bytes under this version are a retry,
\* other bytes a VERSION_CONFLICT, a version out of turn a VERSION_SEQUENCE.
ReadClash(m) ==
    /\ pc[m] = "clash"
    /\ LET j == job[m] IN
       \/ \E r \in WithVersion(j.ver) :
             IF SameBytes(j, r, row[r].build)
             THEN Goto(m, "create", [j EXCEPT !.build = row[r].build])
             ELSE Done(m)
       \/ /\ WithVersion(j.ver) = {}
          /\ IF InTurn(j)
             THEN Goto(m, "create", j)
             ELSE Done(m)
    /\ UNCHANGED <<status, row, tenant, draft, idem>>

\* What a request still uses once its release is stored.
Inserted(m, r, seen) ==
    [NoJob EXCEPT !.op = job[m].op, !.key = job[m].key, !.rel = r, !.seen = seen]

\* createReviewRelease when no row has the version: insert the candidate.
Insert(m, r) ==
    /\ pc[m] = "create"
    /\ WithVersion(job[m].ver) = {}
    /\ r \notin Rows /\ \A q \in Id : q < r => q \in Rows
    /\ status' = [status EXCEPT ![r] = "pending_review"]
    /\ row' = [row EXCEPT ![r] = [version |-> job[m].ver, build |-> job[m].build,
                                  content |-> job[m].content, via |-> job[m].via]]
    /\ Goto(m, "draft", Inserted(m, r, "pending_review"))
    /\ UNCHANGED <<tenant, draft, idem>>

\* ... when the unique index refuses it: the row is this very submission
\* (whose status publish checks and rollback does not) or a VERSION_CONFLICT.
InsertRefused(m) ==
    /\ pc[m] = "create"
    /\ \E r \in WithVersion(job[m].ver) :
          IF /\ SameBytes(job[m], r, job[m].build)
             /\ job[m].op = "rollback" \/ status[r] \in {"pending_review", "published"}
          THEN Goto(m, "draft", Inserted(m, r, status[r]))
          ELSE Done(m)
    /\ UNCHANGED <<status, row, tenant, draft, idem>>

\* The exact snapshot is saved for preview; an already published version is
\* not queued again.
SaveDraft(m) ==
    /\ pc[m] = "draft"
    /\ draft' = job[m].rel
    /\ IF job[m].op = "rollback" \/ job[m].seen = "pending_review"
       THEN Goto(m, "supersede", job[m])
       ELSE Goto(m, "finish", job[m])
    /\ UNCHANGED <<status, row, tenant, idem>>

\* supersedePendingCandidates
FindOlder(m) ==
    /\ pc[m] = "supersede"
    /\ InTx(m, "superseding", Pending \ {job[m].rel}, {})
    /\ UNCHANGED <<status, row, tenant, draft, idem>>

NothingSuperseded(found) == status       \* mutant: no supersedePendingCandidates
AfterSubmission(found) ==
    [r \in Id |-> IF r \in found \cap Pending THEN "superseded" ELSE status[r]]

Supersede(m) ==
    /\ pc[m] = "superseding"
    /\ tx[m].found \cap Held(m) = {}
    /\ status' = AfterSubmission(tx[m].found)
    /\ Goto(m, "mark", job[m])
    /\ UNCHANGED <<row, tenant, draft, idem>>

MarkPending(m) ==                        \* mutant: the release's status, not the app's
    /\ pc[m] = "mark"
    /\ tenant' = [tenant EXCEPT !.appStatus = "pending_review"]
    /\ IF job[m].op = "rollback" THEN Done(m) ELSE Goto(m, "finish", job[m])
    /\ UNCHANGED <<status, row, draft, idem>>

\* markSubmittedForReview
MarkSubmitted(m) ==
    /\ pc[m] = "mark" /\ TenantFree(m)
    /\ tenant' = [tenant EXCEPT !.appStatus = "in_review"]
    /\ IF job[m].op = "rollback" THEN Done(m) ELSE Goto(m, "finish", job[m])
    /\ UNCHANGED <<status, row, draft, idem>>

\* publish stores the reply under its key; submitAppReview marks the tenant
\* again, whatever submitForReview returned.
Finish(m) ==
    /\ pc[m] = "finish"
    /\ job[m].op = "appReview" => TenantFree(m)
    /\ tenant' = [tenant EXCEPT !.appStatus =
                     IF job[m].op = "appReview" THEN "in_review" ELSE @]
    /\ idem' = [k \in Keys |-> IF k = job[m].key THEN job[m].rel ELSE idem[k]]
    /\ Done(m)
    /\ UNCHANGED <<status, row, draft>>

-----------------------------------------------------------------------------
(* Administrator requests.                                                 *)

Ready(a) == pc[a] \in {"idle", "previewed"} /\ MayBegin

\* GET preview: while the app is in review it shows the newest candidate, or
\* the saved snapshot when there is none.
Preview(a) ==
    /\ Ready(a)
    /\ "preview" \in AdminOps
    /\ tenant.appStatus = "in_review"
    /\ \E r \in IF Pending = {} THEN {draft} ELSE Newest(Pending) :
          Goto(a, "previewed", [NoJob EXCEPT !.shown = r])
    /\ UNCHANGED <<status, tenant>>

\* approveApp reads the tenant: approved is a no-op, anything but in_review an
\* error. The request names the tenant, not the release that was previewed.
Approve(a) ==
    /\ Ready(a)
    /\ "approve" \in AdminOps
    /\ IF tenant.appStatus = "in_review"
       THEN Goto(a, "submitted", [job[a] EXCEPT !.op = "approve"])
       ELSE Done(a)
    /\ UNCHANGED <<status, tenant>>

\* approveApp's own check that something is awaiting review.
CheckSubmitted(a) ==
    /\ pc[a] = "submitted"
    /\ IF Pending # {} THEN Goto(a, "candidate", job[a]) ELSE Done(a)
    /\ UNCHANGED <<status, tenant>>

\* publishAsAdmin picks the newest candidate again.
PickCandidate(a) ==
    /\ pc[a] = "candidate"
    /\ \/ Pending = {} /\ Done(a)
       \/ \E r \in Newest(Pending) : Goto(a, "reread", [job[a] EXCEPT !.rel = r])
    /\ UNCHANGED <<status, tenant>>

\* activateReviewRelease re-reads it: still pending, or published meanwhile.
RereadCandidate(a) ==
    /\ pc[a] = "reread"
    /\ IF status[job[a].rel] \in {"pending_review", "published"}
       THEN Goto(a, "activate", [job[a] EXCEPT !.seen = status[job[a].rel]])
       ELSE Done(a)
    /\ UNCHANGED <<status, tenant>>

\* The activation transaction. Its first updateMany looks for what is live ...
FindPublished(a) ==
    /\ pc[a] = "activate"
    /\ InTx(a, "retire", Published \ {job[a].rel}, {})
    /\ UNCHANGED <<status, tenant>>

\* ... and holds it until the commit, superseded to nobody else yet;
Retire(a) ==
    /\ pc[a] = "retire"
    /\ tx[a].found \cap Held(a) = {}
    /\ InTx(a, "unqueue", {}, tx[a].found \cap Published)
    /\ UNCHANGED <<status, tenant>>

\* the second looks for the other candidates.
FindPending(a) ==
    /\ pc[a] = "unqueue"
    /\ InTx(a, "commit", Pending \ {job[a].rel}, tx[a].wrote)
    /\ UNCHANGED <<status, tenant>>

\* The candidate itself is written by id, unless it was read as published.
Publishes(a) == IF job[a].seen = "published" THEN {} ELSE {job[a].rel}

\* The releases once the transaction of a has committed.
KeepsLive(a) ==                          \* mutant: first updateMany left out
    [r \in Id |-> IF r \in Publishes(a) THEN "published"
                  ELSE IF r \in tx[a].found \cap Pending THEN "superseded" ELSE status[r]]
KeepsPending(a) ==                       \* mutant: second updateMany left out
    [r \in Id |-> IF r \in Publishes(a) THEN "published"
                  ELSE IF r \in tx[a].wrote THEN "superseded" ELSE status[r]]
AfterActivation(a) ==
    [r \in Id |-> IF r \in Publishes(a) THEN "published"
                  ELSE IF r \in tx[a].wrote \cup (tx[a].found \cap Pending)
                       THEN "superseded"
                  ELSE status[r]]

\* The rest of the second updateMany, the candidate, the tenant row and the
\* commit: nothing is awaited between taking the last locks and giving them up
\* that another request could tell from waiting for them.
Activate(a) ==
    /\ pc[a] = "commit"
    /\ (tx[a].found \cup Publishes(a)) \cap Held(a) = {}
    /\ TenantFree(a)
    /\ status' = AfterActivation(a)
    /\ tenant' = [status |-> "published", appStatus |-> "approved", active |-> job[a].rel]
    /\ Goto(a, "record", job[a])

\* approveApp's second transaction: approved again (and an audit row).
RecordApproval(a) ==
    /\ pc[a] = "record" /\ TenantFree(a)
    /\ tenant' = [tenant EXCEPT !.appStatus = "approved"]
    /\ Done(a)
    /\ UNCHANGED status

\* rejectApp reads the tenant, then rejects every candidate there is.
CheckReject(a) ==
    /\ Ready(a)
    /\ "reject" \in AdminOps
    /\ IF tenant.appStatus = "in_review"
       THEN Goto(a, "reject", [NoJob EXCEPT !.op = "reject"])
       ELSE Done(a)
    /\ UNCHANGED <<status, tenant>>

\* The rejection's transaction writes the tenant row, then looks for candidates.
FindRejected(a) ==
    /\ pc[a] = "reject" /\ TenantFree(a)
    /\ InTx(a, "rejecting", Pending, {})
    /\ UNCHANGED <<status, tenant>>

RejectsAll(a) ==                         \* mutant: the status filter left out
    /\ pc[a] = "rejecting"
    /\ tenant' = [tenant EXCEPT !.appStatus = "rejected"]
    /\ status' = [r \in Id |-> IF r \in Rows THEN "rejected" ELSE status[r]]
    /\ Done(a)

Reject(a) ==
    /\ pc[a] = "rejecting"
    /\ tx[a].found \cap Held(a) = {}
    /\ tenant' = [tenant EXCEPT !.appStatus = "rejected"]
    /\ status' = [r \in Id |-> IF r \in tx[a].found \cap Pending THEN "rejected"
                               ELSE status[r]]
    /\ Done(a)

\* rejectTenant refuses a published tenant; the write comes two awaits later.
CheckRefuse(a) ==
    /\ pc[a] = "idle" /\ MayBegin
    /\ "refuse" \in AdminOps
    /\ tenant.status # "published"
    /\ Goto(a, "refuse", [NoJob EXCEPT !.op = "refuse"])
    /\ UNCHANGED <<status, tenant>>

Refuse(a) ==
    /\ pc[a] = "refuse" /\ TenantFree(a)
    /\ tenant' = [tenant EXCEPT !.status = "rejected"]
    /\ Done(a)
    /\ UNCHANGED status

\* suspendTenant ("suspended") and updateTenant, which takes
\* any status but "published".
SetTenantStatus(a, s) ==
    /\ pc[a] = "idle" /\ MayBegin /\ TenantFree(a)
    /\ "status" \in AdminOps
    /\ s \in {"draft", "suspended", "rejected"}
    /\ tenant' = [tenant EXCEPT !.status = s]
    /\ UNCHANGED <<status, pc, job, tx>>

-----------------------------------------------------------------------------
\* The 24 hour TTL of a stored reply.
ExpireKey(k) ==
    /\ idem[k] # None
    /\ idem' = [idem EXCEPT ![k] = None]
    /\ UNCHANGED <<status, row, tenant, draft, pc, job, tx>>

\* A failed query, a lost connection or a restart of the server; with the
\* table at its bound an insert fails as well.
Fail(p) ==
    /\ pc[p] # "idle"
    /\ CanFail \/ (pc[p] = "create" /\ Rows = Id)
    /\ Done(p)
    /\ UNCHANGED <<status, row, tenant, draft, idem>>

MerchantStep(m) ==
    \/ \E op \in MerchantOps, c \in Content, k \in Keys \cup {None} :
          \/ \E v \in AskedVersion \cup {None} : SubmitManifest(m, op, c, v, k)
          \/ SubmitDrafts(m, op, c, k)
    \/ \E r \in Id : Rollback(m, r) \/ Insert(m, r)
    \/ Compile(m) \/ ReadLatest(m) \/ ReadClash(m) \/ InsertRefused(m)
    \/ SaveDraft(m) \/ FindOlder(m) \/ Supersede(m) \/ MarkSubmitted(m) \/ Finish(m)

\* An administrator inserts no release and touches neither the draft nor the
\* stored replies.
AdminStep(a) ==
    /\ \/ Preview(a) \/ Approve(a) \/ CheckSubmitted(a) \/ PickCandidate(a) \/ RereadCandidate(a)
       \/ FindPublished(a) \/ Retire(a) \/ FindPending(a) \/ Activate(a) \/ RecordApproval(a)
       \/ CheckReject(a) \/ FindRejected(a) \/ Reject(a)
       \/ CheckRefuse(a) \/ Refuse(a)
       \/ \E s \in {"draft", "suspended", "rejected"} : SetTenantStatus(a, s)
    /\ UNCHANGED <<row, draft, idem>>

Next ==
    \/ \E m \in Merchants : MerchantStep(m)
    \/ \E a \in Admins : AdminStep(a)
    \/ \E k \in Keys : ExpireKey(k)
    \/ \E p \in Proc : Fail(p)

Spec == Init /\ [][Next]_vars

-----------------------------------------------------------------------------
MerchantLoc == {"idle", "compile", "latest", "clash", "create", "draft",
                "supersede", "superseding", "mark", "finish"}
AdminLoc == {"idle", "previewed", "submitted", "candidate", "reread", "activate",
             "retire", "unqueue", "commit", "record", "reject", "rejecting", "refuse"}
Row == [version : Version \cup {None}, build : Nat, content : Content \cup {None},
        via : Via]
Job == [op : {"none", "publish", "appReview", "rollback", "approve", "reject", "refuse"},
        via : Via, content : Content \cup {None}, key : Keys \cup {None},
        ver : Version \cup {None}, next : Version \cup {None}, build : Nat,
        rel : Id \cup {None}, seen : Status \cup {"absent"}, shown : Id \cup {None}]

\* Every column and every local of a request holds a value of its type.
TypeOK ==
    /\ status \in [Id -> Status \cup {"absent"}]
    /\ row \in [Id -> Row]
    /\ tenant \in [status : {"draft", "published", "suspended", "rejected"},
                   appStatus : {"none", "in_review", "approved", "rejected"},
                   active : Id \cup {None}]
    /\ draft \in Id \cup {None}
    /\ idem \in [Keys -> Id \cup {None}]
    /\ pc \in [Proc -> MerchantLoc \cup AdminLoc]
    /\ job \in [Proc -> Job]
    /\ tx \in [Proc -> [found : SUBSET Id, wrote : SUBSET Id]]

\* With one administrator deciding at a time no approval, whatever submissions
\* overlap its transaction and whatever dies, leaves two published releases.
\* (Two approvals that overlap can: neither sees the row the other publishes.)
OneLive == \A r, q \in Published : r = q

\* Releases that were first for their tenant: more than one only when two first
\* submissions, asking for different versions, ran together.
Firsts == {r \in Rows : row[r].build = 1}
OneFirst == \A r, q \in Firsts : r = q

\* allocateVersion's numbering survives concurrent submissions, retries and
\* rollbacks: after a single first release every version is that release's
\* prefix with the patch number advancing exactly as the build number does, so
\* no build number repeats and the version after the latest is always free.
VersionSequence ==
    OneFirst =>
        \A r, q \in Rows :
            /\ row[r].version.line = row[q].version.line
            /\ row[r].version.patch + row[q].build = row[q].version.patch + row[r].build
            /\ row[r].build = row[q].build => r = q

\* The live pointer of the tenant names a release that is still published, so
\* that a tenant which went live once never goes dark by a later approval.
ActiveIsPublished == tenant.active # None => tenant.active \in Published

\* The promise kept to the app's users (see LiveApp): with one administrator
\* deciding at a time, every step of the pipeline submits, activates a later
\* submission than the live one, or changes nothing they can see.
RowCount == Cardinality(Rows)
LiveRow == IF Published = {} THEN 0 ELSE CHOOSE r \in Published : TRUE
App == INSTANCE LiveApp WITH count <- RowCount, live <- LiveRow
LiveMovesForward == App!Spec

\* getSubmissionStatus, what the merchant is told.
Latest == CHOOSE r \in Rows : \A q \in Rows : q <= r
SubmissionStatus ==
    IF tenant.appStatus = "in_review" THEN "in_review"
    ELSE IF tenant.appStatus = "rejected" THEN "rejected"
    ELSE IF Rows # {} /\ status[Latest] = "pending_review" THEN "in_review"
    ELSE IF Rows # {} /\ status[Latest] = "rejected" THEN "rejected"
    ELSE IF tenant.active # None THEN "live"
    ELSE "draft"

\* Between requests the review queue, the tenant row and the status reported
\* to the merchant agree: in review exactly while the newest release, and no
\* other, awaits a decision.
ReviewConsistent ==
    Quiet => /\ tenant.appStatus = "in_review" <=> Pending # {}
             /\ \A r \in Pending : r = Latest
             /\ SubmissionStatus = "in_review" <=> Pending # {}
             /\ SubmissionStatus = "live" => tenant.active \in Published

-----------------------------------------------------------------------------
(* What the comments and documents say and concurrent requests refute.     *)

\* publishing.service.ts:187 "Activate the exact candidate that an
\* administrator reviewed."
ExactCandidateReviewed ==
    \A a \in Admins :
        pc[a] = "record" /\ job[a].shown # None => job[a].rel = job[a].shown

\* publishing.service.ts:314-315 "superseded candidates must never be activated
\* by a later admin approval".
SupersededNeverActivated ==
    [][\A r \in Id : status[r] = "superseded" => status'[r] # "published"]_vars

\* publishing.service.ts:314 "Only the newest submission should be actionable":
\* between requests an app in review has a candidate an approval can activate.
InReviewActionable ==
    Quiet /\ tenant.appStatus = "in_review" => Pending # {}
=============================================================================
