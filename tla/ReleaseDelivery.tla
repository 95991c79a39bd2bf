-------------------------- MODULE ReleaseDelivery --------------------------
(***************************************************************************)
(* How an approved release reaches the app's users: the public readers of  *)
(* one tenant (the mobile BFF's manifest, the renderer's definition) over  *)
(* the tenant row, the releases and three redis caches, while approvals,   *)
(* suspensions and cache expiry go on.                                     *)
(*                                                                         *)
(* Releases are numbered by approval: the transaction of an approval (see  *)
(* Publishing) publishes release live + 1 and supersedes release live; the *)
(* later numbers are candidates, stored and not yet approved.              *)
(***************************************************************************)
EXTENDS Naturals, FiniteSets

CONSTANTS
    BffReaders,   \* request slots of the BFF's manifest endpoint
    AppReaders,   \* request slots of the renderer's definition endpoint
    MaxReleases,  \* bound: approvals
    Identifiers,  \* the names an app is asked for by: "id", "slug"
    None,         \* null: no release
    CanFail       \* whether a request may die between two of its steps

Readers == BffReaders \cup AppReaders
Release == 1 .. MaxReleases
Kind == {"bff", "app", "version"}  \* getTenantManifest, getAppDefinition, with ?version

ASSUME DeliveryAssumption ==
    /\ BffReaders \cap AppReaders = {}
    /\ "slug" \in Identifiers /\ Identifiers \subseteq {"id", "slug"}
    /\ MaxReleases \in Nat
    /\ None \notin Nat
    /\ CanFail \in BOOLEAN

VARIABLES
    public,   \* Tenant.status = "published"
    live,     \* the published release (0: none was approved yet)
    active,   \* Tenant.activeReleaseId
    pointer,  \* redis active:release:<tenant>
    snaps,    \* releases with a redis release:snap:<id>
    manifest, \* redis manifest:<identifier>
    dels,     \* deletions an approval or a suspension has yet to make
    pc,       \* where each public request is
    job       \* what it has read

db == <<public, live, active>>
redis == <<pointer, snaps, manifest>>
vars == <<db, redis, dels, pc, job>>

\* saw and base are history: every value `public` had since the request began,
\* and the release that was live when a definition was asked for.
NoJob == [kind |-> "app", key |-> "slug", tenant |-> None, rel |-> None,
          saw |-> {}, base |-> 0]

\* A new tenant, or one published before activeReleaseId existed.
Init ==
    /\ \/ public = FALSE /\ live = 0
       \/ MaxReleases > 0 /\ public = TRUE /\ live = 1
    /\ active = None
    /\ pointer = None
    /\ snaps = {}
    /\ manifest = [k \in Identifiers |-> None]
    /\ dels = 0
    /\ pc = [p \in Readers |-> "idle"]
    /\ job = [p \in Readers |-> NoJob]

Goto(p, loc, j) == pc' = [pc EXCEPT ![p] = loc] /\ job' = [job EXCEPT ![p] = j]
Reply(p, r) == Goto(p, "done", [job[p] EXCEPT !.rel = r])

-----------------------------------------------------------------------------
(* The administrators' side.                                               *)

Noticed(b) ==
    [p \in Readers |-> IF pc[p] = "idle" THEN job[p]
                       ELSE [job[p] EXCEPT !.saw = @ \cup {b}]]

\* The activation transaction of an approval; the caches are dropped after it.
\* (Deletions an earlier call still had to make are expiries from here on.)
Approve ==
    /\ live < MaxReleases
    /\ live' = live + 1
    /\ active' = live + 1
    /\ public' = TRUE
    /\ dels' = 3
    /\ job' = Noticed(TRUE)
    /\ UNCHANGED <<redis, pc>>

\* suspendTenant drops the caches, updateTenant does not.
Unpublish ==
    /\ public' = FALSE
    /\ dels' \in {dels, 3}
    /\ job' = Noticed(FALSE)
    /\ UNCHANGED <<live, active, redis, pc>>

\* invalidate: the pointer, the manifest by id, the manifest by slug.
Invalidate ==
    /\ dels > 0
    /\ dels' = dels - 1
    /\ IF dels = 3
       THEN pointer' = None /\ UNCHANGED manifest
       ELSE /\ manifest' = [k \in Identifiers |->
                               IF dels = (IF k = "slug" THEN 2 ELSE 1)
                               THEN manifest[k] ELSE None]
            /\ UNCHANGED pointer
    /\ UNCHANGED <<db, snaps, pc, job>>

\* The server dies, or redis does, before the caches are dropped.
InvalidateFails ==
    /\ CanFail /\ dels > 0
    /\ dels' = 0
    /\ UNCHANGED <<db, redis, pc, job>>

-----------------------------------------------------------------------------
(* The public readers.                                                     *)

StartedLive(kind, k) ==                  \* mutant: the published release, if any
    [NoJob EXCEPT !.kind = kind, !.key = k, !.tenant = live,
                  !.saw = {public}, !.base = IF kind = "app" THEN live ELSE 0]
Started(kind, k) ==
    [NoJob EXCEPT !.kind = kind, !.key = k, !.tenant = active,
                  !.saw = {public}, !.base = IF kind = "app" THEN live ELSE 0]

CacheFirst(p, k) ==                      \* mutant: the cache before the tenant check
    /\ pc[p] = "idle"
    /\ Goto(p, "cached", Started("bff", k))
    /\ UNCHANGED <<db, redis, dels>>

\* BFF: the tenant row is read first; an app that is not public, or has no
\* active release, is refused.
GetManifest(p, k) ==
    /\ pc[p] = "idle"
    /\ Goto(p, IF public /\ active # None THEN "cached" ELSE "done", Started("bff", k))
    /\ UNCHANGED <<db, redis, dels>>

\* ... then the manifest cache.
ReadManifest(p) ==
    /\ pc[p] = "cached"
    /\ IF manifest[job[p].key] # None
       THEN Reply(p, manifest[job[p].key])
       ELSE Goto(p, "resolve", job[p])
    /\ UNCHANGED <<db, redis, dels>>

\* Renderer, without and with ?version; BFF requests get here on a miss.
GetDefinition(p, kind) ==
    /\ pc[p] = "idle"
    /\ Goto(p, "resolve", Started(kind, "slug"))
    /\ UNCHANGED <<db, redis, dels>>

\* getActiveRelease reads the tenant (again). loadActive starts from its
\* active release, or without one from the redis pointer.
Resolve(p) ==
    /\ pc[p] = "resolve"
    /\ LET j == [job[p] EXCEPT !.tenant = active, !.rel = active] IN
       IF ~ public THEN Reply(p, None)
       ELSE IF job[p].kind = "version" THEN Goto(p, "version", j)
       ELSE Goto(p, IF active = None THEN "pointer" ELSE "snap", j)
    /\ UNCHANGED <<db, redis, dels>>

\* ?version=: the release of that version while it is the published one.
ReadVersion(p) ==
    /\ pc[p] = "version"
    /\ \E r \in {live, None} \ {0} : Reply(p, r)
    /\ UNCHANGED <<db, redis, dels>>

ReadPointer(p) ==
    /\ pc[p] = "pointer"
    /\ Goto(p, IF pointer = None THEN "fallback" ELSE "snap",
            [job[p] EXCEPT !.rel = pointer])
    /\ UNCHANGED <<db, redis, dels>>

\* The request has its release: the renderer replies, the BFF caches it first.
Loaded(p) ==
    Goto(p, IF job[p].kind = "bff" THEN "fillKey" ELSE "done",
            [job[p] EXCEPT !.tenant = None])

ReadSnap(p) ==
    /\ pc[p] = "snap"
    /\ IF job[p].rel \in snaps THEN Loaded(p) ELSE Goto(p, "load", job[p])
    /\ UNCHANGED <<db, redis, dels>>

LoadAny(p) ==                            \* mutant: its status is not checked
    /\ pc[p] = "load"
    /\ Goto(p, "keepSnap", job[p])
    /\ UNCHANGED <<db, redis, dels>>
LoadOrRefuse(p) ==                       \* mutant: no fallback after it
    /\ pc[p] = "load"
    /\ IF job[p].rel = live THEN Goto(p, "keepSnap", job[p]) ELSE Reply(p, None)
    /\ UNCHANGED <<db, redis, dels>>

\* findUnique: a release that is no longer published is not used.
LoadRelease(p) ==
    /\ pc[p] = "load"
    /\ Goto(p, IF job[p].rel = live THEN "keepSnap" ELSE "fallback", job[p])
    /\ UNCHANGED <<db, redis, dels>>

KeepSnap(p) ==
    /\ pc[p] = "keepSnap"
    /\ snaps' = snaps \cup {job[p].rel}
    /\ Goto(p, "keepPointer", job[p])
    /\ UNCHANGED <<db, pointer, manifest, dels>>

\* cacheActiveId. A pointer the tenant row did not have is then written to it.
KeepPointer(p) ==
    /\ pc[p] = "keepPointer"
    /\ pointer' = job[p].rel
    /\ IF job[p].tenant # job[p].rel THEN Goto(p, "heal", job[p]) ELSE Loaded(p)
    /\ UNCHANGED <<db, snaps, manifest, dels>>

\* The write of the tenant row may fail: .catch(() => undefined)
Heal(p) ==
    /\ pc[p] = "heal"
    /\ active' \in {active, job[p].rel}
    /\ Loaded(p)
    /\ UNCHANGED <<public, live, redis, dels>>

AnyRelease == Release                    \* mutant: no status filter

\* The published releases, as the fallback's findFirst selects them.
Candidates == {live} \ {0}

\* The latest published release, if there is one.
Fallback(p) ==
    /\ pc[p] = "fallback"
    /\ \/ Candidates = {} /\ Reply(p, None)
       \/ \E r \in Candidates : Goto(p, "repoint", [job[p] EXCEPT !.rel = r])
    /\ UNCHANGED <<db, redis, dels>>

Repoint(p) ==
    /\ pc[p] = "repoint"
    /\ active' \in {active, job[p].rel}
    /\ Goto(p, "keepFallback", job[p])
    /\ UNCHANGED <<public, live, redis, dels>>

KeepFallback(p) ==
    /\ pc[p] = "keepFallback"
    /\ pointer' = job[p].rel
    /\ Loaded(p)
    /\ UNCHANGED <<db, snaps, manifest, dels>>

\* The BFF keeps the payload under the name it was asked for, then the slug.
FillKey(p) ==
    /\ pc[p] = "fillKey"
    /\ manifest' = [manifest EXCEPT ![job[p].key] = job[p].rel]
    /\ Goto(p, "fillSlug", [job[p] EXCEPT !.key = "slug"])
    /\ UNCHANGED <<db, pointer, snaps, dels>>

FillSlug(p) ==
    /\ pc[p] = "fillSlug"
    /\ manifest' = [manifest EXCEPT ![job[p].key] = job[p].rel]
    /\ Goto(p, "done", job[p])
    /\ UNCHANGED <<db, pointer, snaps, dels>>

\* The reply is sent (or the request dies before it has one).
End(p) ==
    /\ pc[p] # "idle"
    /\ pc[p] = "done" \/ CanFail
    /\ Goto(p, "idle", NoJob)
    /\ UNCHANGED <<db, redis, dels>>

\* Cached entries live 60 s, 1 h and 5 min.
ExpirePointer ==
    /\ pointer # None
    /\ pointer' = None
    /\ UNCHANGED <<db, snaps, manifest, dels, pc, job>>

ExpireSnap(r) ==
    /\ r \in snaps
    /\ snaps' = snaps \ {r}
    /\ UNCHANGED <<db, pointer, manifest, dels, pc, job>>

ExpireManifest(k) ==
    /\ manifest[k] # None
    /\ manifest' = [manifest EXCEPT ![k] = None]
    /\ UNCHANGED <<db, pointer, snaps, dels, pc, job>>

-----------------------------------------------------------------------------
Proceed(p) ==
    \/ ReadManifest(p) \/ Resolve(p) \/ ReadVersion(p) \/ ReadPointer(p)
    \/ ReadSnap(p) \/ LoadRelease(p) \/ KeepSnap(p) \/ KeepPointer(p) \/ Heal(p)
    \/ Fallback(p) \/ Repoint(p) \/ KeepFallback(p)
    \/ FillKey(p) \/ FillSlug(p) \/ End(p)

Expire ==
    \/ ExpirePointer
    \/ \E r \in Release : ExpireSnap(r)
    \/ \E k \in Identifiers : ExpireManifest(k)

Next ==
    \/ Approve \/ Unpublish \/ Invalidate \/ InvalidateFails
    \/ \E p \in BffReaders, k \in Identifiers : GetManifest(p, k)
    \/ \E p \in AppReaders, kind \in {"app", "version"} : GetDefinition(p, kind)
    \/ \E p \in Readers : Proceed(p)
    \/ Expire

Spec == Init /\ [][Next]_vars

\* A request that was started goes on, and redis keeps its TTLs. Nothing makes
\* users read, administrators act or an invalidation complete.
FairSpec ==
    /\ Spec
    /\ \A p \in Readers : WF_vars(Proceed(p))
    /\ WF_vars(ExpirePointer)
    /\ \A r \in Release : WF_vars(ExpireSnap(r))
    /\ \A k \in Identifiers : WF_vars(ExpireManifest(k))

-----------------------------------------------------------------------------
Loc == {"idle", "cached", "resolve", "version", "pointer", "snap", "load", "keepSnap",
        "keepPointer", "heal", "fallback", "repoint", "keepFallback", "fillKey",
        "fillSlug", "done"}
Job == [kind : Kind, key : Identifiers, tenant : Release \cup {None},
        rel : Release \cup {None}, saw : SUBSET BOOLEAN, base : Nat]

TypeOK ==
    /\ public \in BOOLEAN
    /\ live \in 0 .. MaxReleases
    /\ active \in Release \cup {None}
    /\ pointer \in Release \cup {None}
    /\ snaps \subseteq Release
    /\ manifest \in [Identifiers -> Release \cup {None}]
    /\ dels \in 0 .. 3
    /\ pc \in [Readers -> Loc]
    /\ job \in [Readers -> Job]

Served(p) == pc[p] = "done" /\ job[p].rel # None
Refused(p) == pc[p] = "done" /\ job[p].rel = None

\* No reader ever gets a candidate that no administrator approved, whatever the
\* caches and the self-healing of the pointer did before.
OnlyApprovedServed == \A p \in Readers : Served(p) => job[p].rel <= live

\* An app that stays public while it is read is served: the fallback covers the
\* moment in which the release a reader resolved is superseded, and a dangling
\* pointer. (The BFF refuses an app whose row has no active release.)
NeverDark ==
    \A p \in Readers :
        Refused(p) /\ job[p].saw = {TRUE} =>
            job[p].kind = "version" \/ (job[p].kind = "bff" /\ job[p].tenant = None)

\* A read that began on an app that was not public, and has not become so
\* since, is refused, whatever is still cached. (admin.service.ts:56)
SuspendedNotServed == \A p \in Readers : Served(p) => TRUE \in job[p].saw

\* However stale the caches and the pointer became, once approvals stop every
\* reader is served the live release again. (active-release.service.ts:190
\* "so a concurrent activation that fails to invalidate still converges")
Converges == <>[](\A p \in Readers : Served(p) => job[p].rel = live)

\* renderer.service.ts:10 "Always serves the active production release": what
\* the renderer serves was not superseded before it was asked.
ServesActive ==
    \A p \in Readers : Served(p) /\ job[p].kind = "app" => job[p].rel >= job[p].base
=============================================================================
