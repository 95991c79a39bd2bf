------------------------------ MODULE Onboarding ------------------------------
(* A merchant from sign-up to verification: the creation of the tenant and  *)
(* its first app, the compliance submissions and their review, the admin   *)
(* invitations, the runtime configuration and the subscription.  Requests  *)
(* read, decide and write in separate steps; the writes of a request are   *)
(* one step only where the code uses a transaction.  The documents of a    *)
(* submission are in Media, the review of the app in Publishing.           *)
EXTENDS Integers, FiniteSets, Sequences

CONSTANTS
    Requests,        \* requests in flight at most
    Invites,         \* invitation tokens
    Spellings,       \* spellings of an invited email address: A@x, a@x
    Plans,           \* plan slugs
    Rivals,          \* which kinds of requests overlap one another, by behaviour
    MaxSubmissions,  \* bound: compliance submissions
    MaxWrites        \* bound: writes of the configuration

VARIABLES
    verification,    \* Tenant.verificationStatus
    kyc,             \* KycSubmission statuses, oldest first
    invite,          \* AdminInvite rows
    account,         \* per invitation, the emails that registered, as spelled
    starter,         \* the template a new app begins with, if one is active
    seeded,          \* tenant, pages, theme and navigation that exist
    config,          \* TenantConfig.config: category and rejection, by writer
    wrote,           \* configuration writes that returned, by field
    replaced,        \* fields whose last value a write of the whole dropped
    plan,            \* Plan rows: absent, active or inactive
    subscription,    \* the tenant's Subscription row
    rival,           \* the kinds of requests that may overlap one another
    call             \* what each request read and has still to write

reviewVars == <<verification, kyc>>
inviteVars == <<invite, account>>
seedVars == <<starter, seeded>>
configVars == <<config, wrote, replaced>>
planVars == <<plan, subscription>>
vars == <<reviewVars, inviteVars, seedVars, configVars, planVars, rival, call>>

Idle == [op |-> "idle"]

\* Requests whose kind is not in rival meet no other request.
Free(q, op) ==
    /\ call[q] = Idle
    /\ \A r \in Requests : call[r] # Idle => {op, call[r].op} \subseteq rival
Begin(q, c) == Free(q, c.op) /\ call' = [call EXCEPT ![q] = c]
Go(q, pc) == call' = [call EXCEPT ![q].pc = pc]
End(q) == call' = [call EXCEPT ![q] = Idle]
At(q, op, pc) == call[q].op = op /\ call[q].pc = pc

-----------------------------------------------------------------------------
(* Compliance: submission, verification, rejection *)

Pending == {i \in 1..Len(kyc) : kyc[i] = "pending"}
Has(status) == \E i \in 1..Len(kyc) : kyc[i] = status

\* submitKyc inserts the submission, and marks the tenant in another write.
SubmitKyc(q) ==
    /\ Len(kyc) < MaxSubmissions
    /\ Begin(q, [op |-> "submit", pc |-> "mark"])
    /\ kyc' = Append(kyc, "pending")
    /\ UNCHANGED verification
MarkPending(q) ==
    verification' = "pending" /\ End(q) /\ UNCHANGED kyc
SubmitDies(q) == End(q) /\ UNCHANGED reviewVars

\* verifyMerchant and rejectCredentials: the status, then the count, then a
\* transaction under READ COMMITTED. Its first statement finds what is pending;
\* when it commits it has decided what no other review decided meanwhile (it
\* waited for the row's lock and read the row again), and set the flag.
Review(q, op, done) ==
    /\ verification # done \/ (op = "reject" /\ Pending # {})
    /\ Begin(q, [op |-> op, pc |-> "count", hit |-> {}])
    /\ UNCHANGED reviewVars
CountPending(q) ==
    /\ IF Pending = {} THEN End(q) ELSE Go(q, "decide")
    /\ UNCHANGED reviewVars
FindPending(q) ==
    /\ call' = [call EXCEPT ![q].pc = "commit", ![q].hit = Pending]
    /\ UNCHANGED reviewVars
Decide(q, verdict, flag) ==
    /\ kyc' = [i \in 1..Len(kyc) |->
                 IF i \in Pending \cap call[q].hit THEN verdict ELSE kyc[i]]
    /\ verification' = flag
    /\ End(q)
\* A failed query or a deadlock: nothing of the transaction stays.
ReviewDies(q) == End(q) /\ UNCHANGED reviewVars
IsReview(q) == call[q].op \in {"verify", "reject"}

ReviewNext ==
    /\ \/ \E q \in Requests : SubmitKyc(q)
       \/ \E q \in Requests : At(q, "submit", "mark") /\ MarkPending(q)
       \/ \E q \in Requests : At(q, "submit", "mark") /\ SubmitDies(q)
       \/ \E q \in Requests : Review(q, "verify", "verified")
       \/ \E q \in Requests : Review(q, "reject", "rejected")
       \/ \E q \in Requests : IsReview(q) /\ call[q].pc = "count" /\ CountPending(q)
       \/ \E q \in Requests : IsReview(q) /\ call[q].pc = "decide" /\ FindPending(q)
       \/ \E q \in Requests : At(q, "verify", "commit")
                              /\ Decide(q, "approved", "verified")
       \/ \E q \in Requests : At(q, "reject", "commit")
                              /\ Decide(q, "rejected", "rejected")
       \/ \E q \in Requests : IsReview(q) /\ ReviewDies(q)
    /\ UNCHANGED <<inviteVars, seedVars, configVars, planVars, rival>>

-----------------------------------------------------------------------------
(* Invitations.  Registration looks the email up as it is spelled, consumes *)
(* the invitation (a read that compares the emails in lower case, and a     *)
(* later write) and creates the account, whose email is unique as it is     *)
(* spelled; each step may be the last one of a request that dies.           *)

NoInvite == [there |-> FALSE, used |-> FALSE, revoked |-> FALSE,
             expired |-> FALSE]

CreateInvite(i) ==
    /\ invite[i] = NoInvite
    /\ invite' = [invite EXCEPT ![i].there = TRUE]
    /\ UNCHANGED <<account, call>>
ExpireInvite(i) ==
    /\ invite[i].there /\ ~invite[i].expired
    /\ invite' = [invite EXCEPT ![i].expired = TRUE]
    /\ UNCHANGED <<account, call>>

\* validateInvite, and the checks consumeInvite begins with.
IsValid(row) == row.there /\ ~row.revoked /\ ~row.used /\ ~row.expired
\* The status listInvites shows.
InviteStatus(row) ==
    IF row.used THEN "used" ELSE IF row.revoked THEN "revoked"
    ELSE IF row.expired THEN "expired" ELSE "pending"

Register(q, i, email) ==
    /\ email \notin account[i]
    /\ IsValid(invite[i])
    /\ Begin(q, [op |-> "register", id |-> i, email |-> email, pc |-> "mark"])
    /\ UNCHANGED inviteVars
MarkUsed(q) ==
    /\ invite' = [invite EXCEPT ![call[q].id].used = TRUE]
    /\ Go(q, "create") /\ UNCHANGED account
CreateAccount(q) ==
    /\ account' = [account EXCEPT ![call[q].id] = @ \cup {call[q].email}]
    /\ End(q) /\ UNCHANGED invite
RegisterDies(q) == End(q) /\ UNCHANGED inviteVars

ReadRevoke(q, i) ==
    /\ invite[i].there /\ ~invite[i].used
    /\ Begin(q, [op |-> "revoke", id |-> i, pc |-> "write"])
    /\ UNCHANGED inviteVars
RevokeInvite(q) ==
    /\ invite' = [invite EXCEPT ![call[q].id].revoked = TRUE]
    /\ End(q) /\ UNCHANGED account

InviteNext ==
    /\ \/ \E i \in Invites : CreateInvite(i) \/ ExpireInvite(i)
       \/ \E q \in Requests : \E i \in Invites, e \in Spellings : Register(q, i, e)
       \/ \E q \in Requests : At(q, "register", "mark") /\ MarkUsed(q)
       \/ \E q \in Requests : At(q, "register", "create") /\ CreateAccount(q)
       \/ \E q \in Requests : call[q].op = "register" /\ RegisterDies(q)
       \/ \E q \in Requests : \E i \in Invites : ReadRevoke(q, i)
       \/ \E q \in Requests : At(q, "revoke", "write") /\ RevokeInvite(q)
    /\ UNCHANGED <<reviewVars, seedVars, configVars, planVars, rival>>

-----------------------------------------------------------------------------
(* Creation of the tenant and its first app.  The pages, theme and          *)
(* navigation an active template offers are inserted one by one; when one   *)
(* fails, or no template is active, the minimal app is tried, whose home    *)
(* page the template may already have inserted: the unique slug then fails  *)
(* the request, the tenant staying as it is.                                *)

Parts == {"home", "shop", "theme", "navigation"}
NoStarter == [there |-> FALSE, parts |-> {}]
\* The parts the code inserts before this one.
Earlier(p, minimal) ==
    CASE p = "home" -> {}
      [] p = "shop" -> {"home"}
      [] p = "theme" -> {"home", "shop"} \cup IF minimal THEN {"navigation"} ELSE {}
      [] p = "navigation" -> {"home", "shop"} \cup IF minimal THEN {} ELSE {"theme"}

CreateTenant(q) ==
    /\ "tenant" \notin seeded
    /\ Begin(q, [op |-> "create", pc |-> "seed", minimal |-> ~starter.there,
                 todo |-> IF starter.there THEN starter.parts ELSE Parts])
    /\ seeded' = {"tenant"}
SeedPart(q) ==
    /\ At(q, "create", "seed")
    /\ \E p \in call[q].todo \ seeded :
          /\ Earlier(p, call[q].minimal) \cap call[q].todo = {}
          /\ seeded' = seeded \cup {p}
          /\ call' = [call EXCEPT ![q].todo = @ \ {p}]
Answer(q) ==
    /\ At(q, "create", "seed") /\ call[q].todo = {}
    /\ seeded' = seeded \cup {"answered"}
    /\ End(q)
\* An insert of the template fails and the minimal app begins.
SeedFallsBack(q) ==
    /\ At(q, "create", "seed") /\ ~call[q].minimal /\ call[q].todo # {}
    /\ call' = [call EXCEPT ![q].minimal = TRUE, ![q].todo = Parts]
    /\ UNCHANGED seeded
\* An insert of the minimal app fails, as one that meets the template's does,
\* or the process dies.
SeedFails(q) ==
    /\ At(q, "create", "seed")
    /\ End(q) /\ UNCHANGED seeded

SeedNext ==
    /\ \/ \E q \in Requests : CreateTenant(q)
       \/ \E q \in Requests : SeedPart(q)
       \/ \E q \in Requests : Answer(q)
       \/ \E q \in Requests : SeedFallsBack(q)
       \/ \E q \in Requests : SeedFails(q)
    /\ UNCHANGED <<starter, reviewVars, inviteVars, configVars, planVars, rival>>

-----------------------------------------------------------------------------
(* TenantConfig.config is one JSON value: the category (merchants) and the  *)
(* rejection (rejectTenant) are written by reading the whole and writing    *)
(* the whole with one field changed; the merchant's own PUT writes the      *)
(* whole from its body.                                                     *)

Fields == {"category", "rejection"}
NoConfig == [f \in Fields |-> 0]
\* The category's writer takes a read that fails for an empty configuration.
ReadConfig(q, field) ==
    /\ wrote[field] < MaxWrites
    /\ \E answered \in BOOLEAN :
          /\ answered \/ field = "category"
          /\ Begin(q, [op |-> field, pc |-> "save", answered |-> answered,
                       read |-> IF answered THEN config ELSE NoConfig])
    /\ UNCHANGED configVars
SaveConfig(q) ==
    LET field == call[q].op IN
    /\ config' = [call[q].read EXCEPT ![field] = wrote[field] + 1]
    /\ wrote' = [wrote EXCEPT ![field] = @ + 1]
    /\ replaced' = (replaced \cup IF call[q].answered THEN {} ELSE Fields) \ {field}
    /\ End(q)
SaveFails(q) == End(q) /\ UNCHANGED configVars
\* updateConfig: what the body does not repeat of the configuration is gone
\* (0 stands for it, and for a value of the body's own).
UpdateConfig ==
    /\ \E kept \in SUBSET Fields :
          /\ config' = [f \in Fields |-> IF f \in kept THEN config[f] ELSE 0]
          /\ replaced' = replaced \cup (Fields \ kept)
    /\ UNCHANGED <<wrote, call>>
\* withCategory: the column, and the configuration's copy when it is empty.
Category(column, row) == IF column # 0 THEN column ELSE row.category

ConfigNext ==
    /\ \/ \E q \in Requests : \E f \in Fields : ReadConfig(q, f)
       \/ \E q \in Requests : call[q].op \in Fields /\ SaveConfig(q)
       \/ \E q \in Requests : call[q].op \in Fields /\ SaveFails(q)
       \/ UpdateConfig
    /\ UNCHANGED <<reviewVars, inviteVars, seedVars, planVars, rival>>

-----------------------------------------------------------------------------
(* Plans and the subscription *)

NoSubscription == [plan |-> "none", status |-> "none", ended |-> FALSE]
StatusSet ==
    {"active", "past_due", "canceled", "trialing", "paused", "incomplete"}

SavePlan(p) ==
    /\ \E s \in {"active", "inactive"} : plan' = [plan EXCEPT ![p] = s]
    /\ UNCHANGED <<subscription, call>>
\* The foreign key keeps a plan that a subscription names.
DeletePlan(p) ==
    /\ plan[p] # "absent" /\ subscription.plan # p
    /\ plan' = [plan EXCEPT ![p] = "absent"]
    /\ UNCHANGED <<subscription, call>>
ReadPlan(q, p) ==
    /\ plan[p] = "active"
    /\ Begin(q, [op |-> "subscribe", pc |-> "save", plan |-> p])
    /\ UNCHANGED planVars
Subscribe(q) ==
    /\ subscription' =
          IF plan[call[q].plan] = "absent" THEN subscription
          ELSE [plan |-> call[q].plan, status |-> "active", ended |-> FALSE]
    /\ End(q) /\ UNCHANGED plan
Cancel ==
    /\ subscription # NoSubscription
    /\ subscription' = [subscription EXCEPT !.status = "cancelled",
                                            !.ended = TRUE]
    /\ UNCHANGED <<plan, call>>
\* updateSubscription of the platform's administration: the fields it allows.
UpdateSubscription ==
    /\ subscription # NoSubscription
    /\ \/ \E s \in StatusSet :
            subscription' = [subscription EXCEPT !.status = s]
       \/ \E p \in Plans : plan[p] # "absent"
            /\ subscription' = [subscription EXCEPT !.plan = p]
    /\ UNCHANGED <<plan, call>>

\* getFeatures: what a tenant without an active subscription may use.
Features(sub, of) ==
    IF sub.status # "active" THEN {"forms", "notifications"} ELSE of[sub.plan]

PlanNext ==
    /\ \/ \E p \in Plans : SavePlan(p)
       \/ \E p \in Plans : DeletePlan(p)
       \/ \E q \in Requests : \E p \in Plans : ReadPlan(q, p)
       \/ \E q \in Requests : At(q, "subscribe", "save") /\ Subscribe(q)
       \/ Cancel
       \/ UpdateSubscription
    /\ UNCHANGED <<reviewVars, inviteVars, seedVars, configVars, rival>>

-----------------------------------------------------------------------------
Kinds == {"submit", "verify", "reject", "register", "revoke", "create",
          "category", "rejection", "subscribe"}

Init ==
    /\ verification = "pending" /\ kyc = <<>>
    /\ invite = [i \in Invites |-> NoInvite]
    /\ account = [i \in Invites |-> {}]
    /\ starter \in {NoStarter} \cup [there : {TRUE}, parts : SUBSET Parts]
    /\ seeded = {}
    /\ config = NoConfig /\ wrote = NoConfig /\ replaced = {}
    /\ plan = [p \in Plans |-> "absent"]
    /\ subscription = NoSubscription
    /\ rival \in Rivals
    /\ call = [q \in Requests |-> Idle]

Next == ReviewNext \/ InviteNext \/ SeedNext \/ ConfigNext \/ PlanNext
Spec == Init /\ [][Next]_vars

-----------------------------------------------------------------------------
TypeOK ==
    /\ verification \in {"pending", "verified", "rejected"}
    /\ kyc \in Seq({"pending", "approved", "rejected"})
    /\ \A i \in Invites : invite[i] \in [there : BOOLEAN, used : BOOLEAN,
                                         revoked : BOOLEAN, expired : BOOLEAN]
    /\ account \in [Invites -> SUBSET Spellings]
    /\ starter.parts \subseteq Parts
    /\ seeded \subseteq {"tenant", "answered"} \cup Parts
    /\ config \in [Fields -> 0..MaxWrites + Cardinality(Requests)]
    /\ wrote \in [Fields -> 0..MaxWrites + Cardinality(Requests)]
    /\ replaced \subseteq Fields
    /\ plan \in [Plans -> {"absent", "active", "inactive"}]
    /\ subscription.plan \in Plans \cup {"none"}
    /\ rival \subseteq Kinds
    /\ \A q \in Requests : call[q].op \in Kinds \cup {"idle"}

\* A verified merchant has an approved submission and a rejected one a
\* rejected submission: "One transaction for KYC approvals, the tenant flag,
\* and the audit trail - they can never drift apart" (admin.service.ts).
NeverDriftsApart ==
    /\ verification = "verified" => Has("approved")
    /\ verification = "rejected" => Has("rejected")
\* It holds as long as verification and rejection do not overlap, however
\* submissions overlap either of them; where they do, the flag still follows
\* the decision of some submission.
ReviewBacked ==
    /\ verification # "pending" => Has("approved") \/ Has("rejected")
    /\ ~({"verify", "reject"} \subseteq rival) => NeverDriftsApart

\* A tenant that submitted and waits for a review has something to review
\* (or verification and rejection would both refuse it), once its request has
\* ended and met no review.  A submission may have died between its writes.
PendingIsReviewable ==
    ( /\ rival \cap {"submit", "verify", "reject"} = {}
      /\ \A q \in Requests : call[q] = Idle
      /\ kyc # <<>> ) => (verification = "pending" => Pending # {})

\* An account was registered only with an invitation that is marked used, only
\* one was unless two registrations that spelled its email differently overlapped,
\* and one that was revoked before it was used registers none unless a
\* registration and the revocation overlapped.
InviteUsedOnce ==
    \A i \in Invites :
        /\ account[i] # {} => invite[i].used
        /\ "register" \notin rival => \A e, f \in account[i] : e = f
        /\ (invite[i].revoked /\ ~({"register", "revoke"} \subseteq rival)) =>
              account[i] = {} /\ ~invite[i].used

\* A creation that answered left what the template offers, or where no template
\* is active an app with its pages, theme and navigation.
AnsweredMeansSeeded ==
    "answered" \in seeded =>
        {"tenant"} \cup (IF starter.there THEN starter.parts ELSE Parts) \subseteq seeded

\* A field of the configuration is the last one written by its own writer unless
\* a write of the other field overlapped it, or a write that does not merge came
\* after: the merchant's own PUT, or a category saved over a read that failed.
NoLostUpdate ==
    ~(Fields \subseteq rival) =>
        \A f \in Fields : config[f] = wrote[f] \/ f \in replaced
=============================================================================
