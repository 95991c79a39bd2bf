-------------------------- MODULE Delivery_proofs --------------------------
(***************************************************************************)
(* Safety of release delivery for any number of readers and releases:      *)
(* whatever is cached was approved, a reader past the tenant check began   *)
(* on an app that was public or became so, and a reader of an app that     *)
(* stays public is not left without a release.                             *)
(***************************************************************************)
EXTENDS ReleaseDelivery, TLAPS

\* A release that was approved, or none, when n were.
Approved(r, n) == r \in (1 .. n) \cup {None}

\* Where a request has a release in hand, and where it has found the app public.
Holding == {"snap", "load", "keepSnap", "keepPointer", "heal", "repoint",
            "keepFallback", "fillKey", "fillSlug"}
Open == Loc \ {"idle", "resolve", "done"}

\* What is known of a request that stands at a step and has read that much,
\* while the app is shown or not and n releases were approved.
Fits(at, read, shown, n) ==
    /\ Approved(read.rel, n) /\ Approved(read.tenant, n)
    /\ at \in Holding => read.rel # None
    /\ at # "idle" => shown \in read.saw
    /\ at \in Open => TRUE \in read.saw
    /\ at = "version" => read.kind = "version"
    /\ at = "done" =>
         /\ read.rel # None => TRUE \in read.saw
         /\ read.rel = None /\ read.saw = {TRUE} =>
                read.kind = "version" \/ (read.kind = "bff" /\ read.tenant = None)
AllFit == \A q \in Readers : Fits(pc[q], job[q], public, live)

\* What is known of the rows and the caches.
Stored ==
    /\ public => live > 0
    /\ Approved(active, live) /\ Approved(pointer, live)
    /\ snaps \subseteq 1 .. live
    /\ \A k \in Identifiers : Approved(manifest[k], live)

DeliveryInv == TypeOK /\ Stored /\ AllFit

-----------------------------------------------------------------------------
LEMMA InitHolds == Init => DeliveryInv
<1> SUFFICES ASSUME Init PROVE DeliveryInv
    OBVIOUS
<1> USE DeliveryAssumption
<1>1. NoJob \in Job
    BY DEF NoJob, Job, Kind
<1>2. live \in 0 .. MaxReleases /\ (public => live > 0)
    BY DEF Init
<1>3. TypeOK
    <2>1. public \in BOOLEAN
        BY DEF Init
    <2>4. /\ active \in Release \cup {None} /\ pointer \in Release \cup {None}
          /\ snaps \subseteq Release /\ dels \in 0 .. 3
        BY DEF Init
    <2>2. manifest \in [Identifiers -> Release \cup {None}]
        BY DEF Init
    <2>3. pc \in [Readers -> Loc] /\ job \in [Readers -> Job]
        BY <1>1 DEF Init, Loc
    <2> QED
        BY <1>2, <2>1, <2>2, <2>3, <2>4 DEF TypeOK
<1>4. Stored
    BY <1>2 DEF Init, Stored, Approved
<1>5. AllFit
    BY DEF AllFit, Init, Fits, Approved, NoJob, Holding, Open
<1> QED
    BY <1>3, <1>4, <1>5 DEF DeliveryInv

\* A request takes a step that leaves the tenant row as readers see it.
LEMMA Moves ==
    ASSUME DeliveryInv, NEW p \in Readers, NEW loc \in Loc, NEW j \in Job,
           Goto(p, loc, j), Fits(loc, j, public, live), UNCHANGED <<public, live>>
    PROVE  pc' \in [Readers -> Loc] /\ job' \in [Readers -> Job] /\ AllFit'
<1>1. pc \in [Readers -> Loc] /\ job \in [Readers -> Job]
    BY DEF DeliveryInv, TypeOK
<1>2. pc' = [pc EXCEPT ![p] = loc] /\ job' = [job EXCEPT ![p] = j]
    BY DEF Goto
<1>3. \A q \in Readers : Fits(pc'[q], job'[q], public, live)
    BY <1>1, <1>2 DEF DeliveryInv, AllFit
<1> QED
    BY <1>1, <1>2, <1>3 DEF AllFit

\* ... and touches no table or cache.
LEMMA OnlyMoves ==
    ASSUME DeliveryInv, NEW p \in Readers, NEW loc \in Loc, NEW j \in Job,
           Goto(p, loc, j), Fits(loc, j, public, live), UNCHANGED <<db, redis, dels>>
    PROVE  DeliveryInv'
<1>1. UNCHANGED <<public, live, active, pointer, snaps, manifest, dels>>
    BY DEF db, redis
<1>2. pc' \in [Readers -> Loc] /\ job' \in [Readers -> Job] /\ AllFit'
    BY <1>1, Moves
<1>3. TypeOK'
    BY <1>1, <1>2 DEF DeliveryInv, TypeOK
<1>4. Stored'
    BY <1>1 DEF DeliveryInv, Stored, Approved
<1> QED
    BY <1>2, <1>3, <1>4 DEF DeliveryInv

\* No request moves and the tenant row stays as readers see it.
LEMMA NoneMoves ==
    ASSUME DeliveryInv, UNCHANGED <<public, live, pc, job>>
    PROVE  pc' \in [Readers -> Loc] /\ job' \in [Readers -> Job] /\ AllFit'
BY DEF DeliveryInv, TypeOK, AllFit

-----------------------------------------------------------------------------
(* Records with some fields replaced.                                      *)

LEMMA WithRel ==
    ASSUME NEW j \in Job, NEW r \in Release \cup {None}
    PROVE  LET i == [j EXCEPT !.rel = r] IN
           /\ i \in Job
           /\ i.rel = r /\ i.tenant = j.tenant /\ i.saw = j.saw /\ i.kind = j.kind
BY DEF Job

LEMMA WithTenant ==
    ASSUME NEW j \in Job, NEW r \in Release \cup {None}
    PROVE  LET i == [j EXCEPT !.tenant = r] IN
           /\ i \in Job
           /\ i.rel = j.rel /\ i.tenant = r /\ i.saw = j.saw /\ i.kind = j.kind
BY DEF Job

LEMMA WithKey ==
    ASSUME NEW j \in Job, NEW k \in Identifiers
    PROVE  LET i == [j EXCEPT !.key = k] IN
           /\ i \in Job
           /\ i.rel = j.rel /\ i.tenant = j.tenant /\ i.saw = j.saw /\ i.kind = j.kind
BY DEF Job

LEMMA AtStart ==
    ASSUME DeliveryInv, NEW kind \in Kind, NEW k \in Identifiers
    PROVE  LET i == Started(kind, k) IN
           /\ i \in Job
           /\ i.rel = None /\ i.tenant = active /\ i.saw = {public} /\ i.kind = kind
<1> DEFINE top == IF kind = "app" THEN live ELSE 0
<1>1. top \in Nat /\ active \in Release \cup {None} /\ public \in BOOLEAN
    BY DeliveryAssumption DEF DeliveryInv, TypeOK
<1>2. Started(kind, k) = [NoJob EXCEPT !.kind = kind, !.key = k, !.tenant = active,
                                       !.saw = {public}, !.base = top]
    BY DEF Started
<1>3. NoJob \in Job /\ NoJob.rel = None
    BY DeliveryAssumption DEF NoJob, Job, Kind
<1> HIDE DEF top
<1>4. {public} \in SUBSET BOOLEAN
    BY <1>1
<1> QED
    BY <1>1, <1>2, <1>3, <1>4 DEF Job

-----------------------------------------------------------------------------
(* The steps of a request.                                                 *)

LEMMA GetManifestKeeps ==
    ASSUME DeliveryInv, NEW p \in Readers, NEW k \in Identifiers, GetManifest(p, k)
    PROVE  DeliveryInv'
<1> DEFINE i == Started("bff", k)
           to == IF public /\ active # None THEN "cached" ELSE "done"
<1>1. /\ i \in Job
      /\ i.rel = None /\ i.tenant = active /\ i.saw = {public} /\ i.kind = "bff"
    BY AtStart DEF Kind
<1>2. Goto(p, to, i) /\ UNCHANGED <<db, redis, dels>> /\ to \in Loc
    BY DEF GetManifest, Loc
<1> HIDE DEF i
<1>3. Fits(to, i, public, live)
    BY <1>1 DEF Fits, DeliveryInv, TypeOK, Stored, Approved, Holding, Open
<1> HIDE DEF to
<1> QED
    BY <1>1, <1>2, <1>3, OnlyMoves

LEMMA GetDefinitionKeeps ==
    ASSUME DeliveryInv, NEW p \in Readers, NEW kind \in {"app", "version"},
           GetDefinition(p, kind)
    PROVE  DeliveryInv'
<1> DEFINE i == Started(kind, "slug")
<1>1. /\ i \in Job
      /\ i.rel = None /\ i.tenant = active /\ i.saw = {public} /\ i.kind = kind
    BY AtStart, DeliveryAssumption DEF Kind
<1>2. Goto(p, "resolve", i) /\ UNCHANGED <<db, redis, dels>> /\ "resolve" \in Loc
    BY DEF GetDefinition, Loc
<1> HIDE DEF i
<1>3. Fits("resolve", i, public, live)
    BY <1>1 DEF Fits, DeliveryInv, TypeOK, Stored, Approved, Holding, Open
<1> QED
    BY <1>1, <1>2, <1>3, OnlyMoves

\* Most steps read a row or a key and go on with the same record or another
\* release in it; the request past the step fits again.
LEMMA Here ==
    ASSUME DeliveryInv, NEW p \in Readers
    PROVE  job[p] \in Job /\ pc[p] \in Loc /\ Fits(pc[p], job[p], public, live)
BY DEF DeliveryInv, TypeOK, AllFit

LEMMA Rows ==
    ASSUME DeliveryInv
    PROVE  /\ public \in BOOLEAN /\ live \in 0 .. MaxReleases /\ (public => live > 0)
           /\ 1 .. live \subseteq Release
           /\ Approved(active, live) /\ Approved(pointer, live)
           /\ snaps \subseteq 1 .. live
           /\ \A k \in Identifiers : Approved(manifest[k], live)
           /\ \A r : Approved(r, live) => r \in Release \cup {None}
BY DeliveryAssumption DEF DeliveryInv, TypeOK, Stored, Release, Approved

LEMMA ReadManifestKeeps ==
    ASSUME DeliveryInv, NEW p \in Readers, ReadManifest(p)
    PROVE  DeliveryInv'
<1>1. /\ job[p] \in Job /\ pc[p] = "cached" /\ UNCHANGED <<db, redis, dels>>
      /\ Fits("cached", job[p], public, live)
    BY Here DEF ReadManifest
<1>2. CASE manifest[job[p].key] # None
    <2> DEFINE r == manifest[job[p].key]
               i == [job[p] EXCEPT !.rel = r]
    <2>1. Approved(r, live) /\ r \in Release \cup {None}
        BY <1>1, Rows DEF Job
    <2>2. Goto(p, "done", i)
        BY <1>2 DEF ReadManifest, Reply
    <2>3. r # None
        BY <1>2
    <2> HIDE DEF r
    <2>4. i \in Job /\ i.rel = r /\ i.tenant = job[p].tenant /\ i.saw = job[p].saw
        BY <1>1, <2>1, WithRel
    <2> HIDE DEF i
    <2>5. Fits("done", i, public, live)
        BY <1>1, <2>1, <2>3, <2>4 DEF Fits, Holding, Open, Loc
    <2> QED
        BY <1>1, <2>2, <2>4, <2>5, OnlyMoves DEF Loc
<1>3. CASE manifest[job[p].key] = None
    <2>1. Goto(p, "resolve", job[p])
        BY <1>3 DEF ReadManifest
    <2>2. Fits("resolve", job[p], public, live)
        BY <1>1 DEF Fits, Holding, Open
    <2> QED
        BY <1>1, <2>1, <2>2, OnlyMoves DEF Loc
<1> QED
    BY <1>2, <1>3

LEMMA ResolveKeeps ==
    ASSUME DeliveryInv, NEW p \in Readers, Resolve(p)
    PROVE  DeliveryInv'
<1> DEFINE j == [job[p] EXCEPT !.tenant = active, !.rel = active]
           i == [job[p] EXCEPT !.rel = None]
<1>1. /\ job[p] \in Job /\ pc[p] = "resolve" /\ UNCHANGED <<db, redis, dels>>
      /\ Fits("resolve", job[p], public, live)
    BY Here DEF Resolve
<1>2. Approved(active, live) /\ active \in Release \cup {None} /\ public \in BOOLEAN
    BY Rows
<1>3. /\ j \in Job /\ j.rel = active /\ j.tenant = active
      /\ j.saw = job[p].saw /\ j.kind = job[p].kind
    BY <1>1, <1>2 DEF Job
<1>4. i \in Job /\ i.rel = None /\ i.tenant = job[p].tenant /\ i.saw = job[p].saw
    BY <1>1, WithRel
<1>5. CASE ~ public
    <2>1. Goto(p, "done", i)
        BY <1>5 DEF Resolve, Reply
    <2> HIDE DEF i
    <2>2. Fits("done", i, public, live)
        BY <1>1, <1>2, <1>4, <1>5 DEF Fits, Approved, Holding, Open, Loc
    <2> QED
        BY <1>1, <1>4, <2>1, <2>2, OnlyMoves DEF Loc
<1>6. CASE public /\ job[p].kind = "version"
    <2>1. Goto(p, "version", j)
        BY <1>6 DEF Resolve
    <2> HIDE DEF j
    <2>2. Fits("version", j, public, live)
        BY <1>1, <1>2, <1>3, <1>6 DEF Fits, Holding, Open
    <2> QED
        BY <1>1, <1>3, <2>1, <2>2, OnlyMoves DEF Loc
<1>7. CASE public /\ job[p].kind # "version"
    <2> DEFINE to == IF active = None THEN "pointer" ELSE "snap"
    <2>1. Goto(p, to, j) /\ to \in Loc
        BY <1>7 DEF Resolve, Loc
    <2> HIDE DEF j
    <2>2. Fits(to, j, public, live)
        BY <1>1, <1>2, <1>3, <1>7 DEF Fits, Holding, Open
    <2> HIDE DEF to
    <2> QED
        BY <1>1, <1>3, <2>1, <2>2, OnlyMoves
<1> QED
    BY <1>5, <1>6, <1>7

LEMMA ReadVersionKeeps ==
    ASSUME DeliveryInv, NEW p \in Readers, ReadVersion(p)
    PROVE  DeliveryInv'
<1>1. /\ job[p] \in Job /\ pc[p] = "version" /\ UNCHANGED <<db, redis, dels>>
      /\ Fits("version", job[p], public, live)
    BY Here DEF ReadVersion
<1>2. PICK r \in {live, None} \ {0} : Goto(p, "done", [job[p] EXCEPT !.rel = r])
    BY DEF ReadVersion, Reply
<1> DEFINE i == [job[p] EXCEPT !.rel = r]
<1>3. Approved(r, live) /\ r \in Release \cup {None}
    BY Rows DEF Approved
<1>4. /\ i \in Job /\ i.rel = r /\ i.tenant = job[p].tenant
      /\ i.saw = job[p].saw /\ i.kind = job[p].kind
    BY <1>1, <1>3, WithRel
<1>5. Goto(p, "done", i)
    BY <1>2
<1> HIDE DEF i
<1>6. Fits("done", i, public, live)
    BY <1>1, <1>3, <1>4 DEF Fits, Holding, Open, Loc
<1> QED
    BY <1>1, <1>4, <1>5, <1>6, OnlyMoves DEF Loc

LEMMA ReadPointerKeeps ==
    ASSUME DeliveryInv, NEW p \in Readers, ReadPointer(p)
    PROVE  DeliveryInv'
<1> DEFINE i == [job[p] EXCEPT !.rel = pointer]
           to == IF pointer = None THEN "fallback" ELSE "snap"
<1>1. /\ job[p] \in Job /\ pc[p] = "pointer" /\ UNCHANGED <<db, redis, dels>>
      /\ Fits("pointer", job[p], public, live)
    BY Here DEF ReadPointer
<1>2. Approved(pointer, live) /\ pointer \in Release \cup {None}
    BY Rows
<1>3. i \in Job /\ i.rel = pointer /\ i.tenant = job[p].tenant /\ i.saw = job[p].saw
    BY <1>1, <1>2, WithRel
<1>4. Goto(p, to, i) /\ to \in Loc
    BY DEF ReadPointer, Loc
<1> HIDE DEF i
<1>5. Fits(to, i, public, live)
    BY <1>1, <1>2, <1>3 DEF Fits, Holding, Open, Loc
<1> HIDE DEF to
<1> QED
    BY <1>1, <1>3, <1>4, <1>5, OnlyMoves

\* A request with its release in hand: whatever the rest of the step writes.
LEMMA LoadedFits ==
    ASSUME DeliveryInv, NEW p \in Readers, Loaded(p), pc[p] \in Holding, 
           UNCHANGED <<public, live>>
    PROVE  pc' \in [Readers -> Loc] /\ job' \in [Readers -> Job] /\ AllFit'
<1> DEFINE i == [job[p] EXCEPT !.tenant = None]
           to == IF job[p].kind = "bff" THEN "fillKey" ELSE "done"
<1>1. job[p] \in Job /\ Fits(pc[p], job[p], public, live)
    BY Here
<1>2. i \in Job /\ i.rel = job[p].rel /\ i.tenant = None /\ i.saw = job[p].saw
    BY <1>1, WithTenant
<1>3. Goto(p, to, i) /\ to \in Loc
    BY DEF Loaded, Loc
<1> HIDE DEF i
<1>4. job[p].rel # None /\ TRUE \in job[p].saw /\ public \in job[p].saw
    BY <1>1 DEF Fits, Holding, Open, Loc
<1>5. Fits(to, i, public, live)
    BY <1>1, <1>2, <1>4 DEF Fits, Approved, Holding, Open, Loc
<1> HIDE DEF to
<1> QED
    BY <1>2, <1>3, <1>5, Moves

\* From one place with a release in hand to another, with the same record.
LEMMA Carries ==
    ASSUME DeliveryInv, NEW p \in Readers, NEW loc \in Holding \cup {"fallback"},
           pc[p] \in Holding, Goto(p, loc, job[p]), UNCHANGED <<public, live>>
    PROVE  pc' \in [Readers -> Loc] /\ job' \in [Readers -> Job] /\ AllFit'
<1>1. job[p] \in Job /\ Fits(pc[p], job[p], public, live)
    BY Here
<1>2. Fits(loc, job[p], public, live) /\ loc \in Loc
    BY <1>1 DEF Fits, Holding, Open, Loc
<1> QED
    BY <1>1, <1>2, Moves

\* What a request with a release in hand may store.
LEMMA InHand ==
    ASSUME DeliveryInv, NEW p \in Readers, pc[p] \in Holding
    PROVE  job[p].rel \in 1 .. live /\ job[p].rel \in Release /\ job[p].key \in Identifiers
BY Here, Rows DEF Fits, Approved, Job

LEMMA ReadSnapKeeps ==
    ASSUME DeliveryInv, NEW p \in Readers, ReadSnap(p)
    PROVE  DeliveryInv'
<1>1. pc[p] \in Holding /\ "load" \in Holding
    BY DEF ReadSnap, Holding
<1>2. UNCHANGED <<public, live, active, pointer, snaps, manifest, dels>>
    BY DEF ReadSnap, db, redis
<1>3. pc' \in [Readers -> Loc] /\ job' \in [Readers -> Job] /\ AllFit'
    BY <1>1, <1>2, LoadedFits, Carries DEF ReadSnap
<1> QED
    BY <1>2, <1>3 DEF DeliveryInv, TypeOK, Stored, Approved

LEMMA LoadReleaseKeeps ==
    ASSUME DeliveryInv, NEW p \in Readers, LoadRelease(p)
    PROVE  DeliveryInv'
<1>1. pc[p] \in Holding /\ "keepSnap" \in Holding
    BY DEF LoadRelease, Holding
<1>2. UNCHANGED <<public, live, active, pointer, snaps, manifest, dels>>
    BY DEF LoadRelease, db, redis
<1>3. pc' \in [Readers -> Loc] /\ job' \in [Readers -> Job] /\ AllFit'
    BY <1>1, <1>2, Carries DEF LoadRelease
<1> QED
    BY <1>2, <1>3 DEF DeliveryInv, TypeOK, Stored, Approved

LEMMA KeepSnapKeeps ==
    ASSUME DeliveryInv, NEW p \in Readers, KeepSnap(p)
    PROVE  DeliveryInv'
<1>1. pc[p] \in Holding /\ "keepPointer" \in Holding
    BY DEF KeepSnap, Holding
<1>2. /\ UNCHANGED <<public, live, active, pointer, manifest, dels>>
      /\ snaps' = snaps \cup {job[p].rel}
    BY DEF KeepSnap, db
<1>3. pc' \in [Readers -> Loc] /\ job' \in [Readers -> Job] /\ AllFit'
    BY <1>1, <1>2, Carries DEF KeepSnap
<1>4. snaps' \subseteq 1 .. live /\ snaps' \subseteq Release
    BY <1>1, <1>2, InHand, Rows
<1> QED
    BY <1>2, <1>3, <1>4 DEF DeliveryInv, TypeOK, Stored, Approved

LEMMA KeepPointerKeeps ==
    ASSUME DeliveryInv, NEW p \in Readers, KeepPointer(p)
    PROVE  DeliveryInv'
<1>1. pc[p] \in Holding /\ "heal" \in Holding
    BY DEF KeepPointer, Holding
<1>2. /\ UNCHANGED <<public, live, active, snaps, manifest, dels>>
      /\ pointer' = job[p].rel
    BY DEF KeepPointer, db
<1>3. pc' \in [Readers -> Loc] /\ job' \in [Readers -> Job] /\ AllFit'
    BY <1>1, <1>2, LoadedFits, Carries DEF KeepPointer
<1>4. Approved(pointer', live) /\ pointer' \in Release
    BY <1>1, <1>2, InHand DEF Approved
<1> QED
    BY <1>2, <1>3, <1>4 DEF DeliveryInv, TypeOK, Stored, Approved

LEMMA HealKeeps ==
    ASSUME DeliveryInv, NEW p \in Readers, Heal(p)
    PROVE  DeliveryInv'
<1>1. pc[p] \in Holding
    BY DEF Heal, Holding
<1>2. /\ UNCHANGED <<public, live, pointer, snaps, manifest, dels>>
      /\ active' \in {active, job[p].rel}
    BY DEF Heal, redis
<1>3. pc' \in [Readers -> Loc] /\ job' \in [Readers -> Job] /\ AllFit'
    BY <1>1, <1>2, LoadedFits DEF Heal
<1>4. Approved(active', live) /\ active' \in Release \cup {None}
    BY <1>1, <1>2, InHand, Rows DEF Approved
<1> QED
    BY <1>2, <1>3, <1>4 DEF DeliveryInv, TypeOK, Stored, Approved

LEMMA FallbackKeeps ==
    ASSUME DeliveryInv, NEW p \in Readers, Fallback(p)
    PROVE  DeliveryInv'
<1>1. /\ job[p] \in Job /\ pc[p] = "fallback" /\ UNCHANGED <<db, redis, dels>>
      /\ Fits("fallback", job[p], public, live)
    BY Here DEF Fallback
<1>2. CASE Candidates = {} /\ Reply(p, None)
    <2> DEFINE i == [job[p] EXCEPT !.rel = None]
    <2>1. i \in Job /\ i.rel = None /\ i.tenant = job[p].tenant /\ i.saw = job[p].saw
        BY <1>1, WithRel
    <2>2. Goto(p, "done", i)
        BY <1>2 DEF Reply
    <2>3. public = FALSE
        BY <1>2, Rows DEF Candidates
    <2> HIDE DEF i
    <2>4. FALSE \in i.saw
        BY <1>1, <2>1, <2>3 DEF Fits
    <2>5. Fits("done", i, public, live)
        BY <1>1, <2>1, <2>4 DEF Fits, Approved, Holding, Open, Loc
    <2> QED
        BY <1>1, <2>1, <2>2, <2>5, OnlyMoves DEF Loc
<1>3. ASSUME NEW r \in Candidates, Goto(p, "repoint", [job[p] EXCEPT !.rel = r])
      PROVE  DeliveryInv'
    <2> DEFINE i == [job[p] EXCEPT !.rel = r]
    <2>1. Approved(r, live) /\ r \in Release /\ r # None
        BY Rows, DeliveryAssumption DEF Candidates, Approved, Release
    <2>2. i \in Job /\ i.rel = r /\ i.tenant = job[p].tenant /\ i.saw = job[p].saw
        BY <1>1, <2>1, WithRel
    <2>3. Goto(p, "repoint", i)
        BY <1>3
    <2> HIDE DEF i
    <2>4. Fits("repoint", i, public, live)
        BY <1>1, <2>1, <2>2 DEF Fits, Holding, Open, Loc
    <2> QED
        BY <1>1, <2>2, <2>3, <2>4, OnlyMoves DEF Loc
<1> QED
    BY <1>2, <1>3 DEF Fallback

LEMMA RepointKeeps ==
    ASSUME DeliveryInv, NEW p \in Readers, Repoint(p)
    PROVE  DeliveryInv'
<1>1. pc[p] \in Holding /\ "keepFallback" \in Holding
    BY DEF Repoint, Holding
<1>2. /\ UNCHANGED <<public, live, pointer, snaps, manifest, dels>>
      /\ active' \in {active, job[p].rel}
    BY DEF Repoint, redis
<1>3. pc' \in [Readers -> Loc] /\ job' \in [Readers -> Job] /\ AllFit'
    BY <1>1, <1>2, Carries DEF Repoint
<1>4. Approved(active', live) /\ active' \in Release \cup {None}
    BY <1>1, <1>2, InHand, Rows DEF Approved
<1> QED
    BY <1>2, <1>3, <1>4 DEF DeliveryInv, TypeOK, Stored, Approved

LEMMA KeepFallbackKeeps ==
    ASSUME DeliveryInv, NEW p \in Readers, KeepFallback(p)
    PROVE  DeliveryInv'
<1>1. pc[p] \in Holding
    BY DEF KeepFallback, Holding
<1>2. /\ UNCHANGED <<public, live, active, snaps, manifest, dels>>
      /\ pointer' = job[p].rel
    BY DEF KeepFallback, db
<1>3. pc' \in [Readers -> Loc] /\ job' \in [Readers -> Job] /\ AllFit'
    BY <1>1, <1>2, LoadedFits DEF KeepFallback
<1>4. Approved(pointer', live) /\ pointer' \in Release
    BY <1>1, <1>2, InHand DEF Approved
<1> QED
    BY <1>2, <1>3, <1>4 DEF DeliveryInv, TypeOK, Stored, Approved

\* A manifest cache entry that takes the release in hand.
LEMMA Filled ==
    ASSUME DeliveryInv, NEW p \in Readers, pc[p] \in Holding,
           manifest' = [manifest EXCEPT ![job[p].key] = job[p].rel]
    PROVE  /\ manifest' \in [Identifiers -> Release \cup {None}]
           /\ \A k \in Identifiers : Approved(manifest'[k], live)
<1>1. job[p].rel \in 1 .. live /\ job[p].rel \in Release
    BY InHand
<1>2. manifest \in [Identifiers -> Release \cup {None}]
    BY DEF DeliveryInv, TypeOK
<1> QED
    BY <1>1, <1>2, Rows DEF Approved

LEMMA FillKeyKeeps ==
    ASSUME DeliveryInv, NEW p \in Readers, FillKey(p)
    PROVE  DeliveryInv'
<1> DEFINE i == [job[p] EXCEPT !.key = "slug"]
<1>1. job[p] \in Job /\ pc[p] = "fillKey" /\ Fits("fillKey", job[p], public, live)
    BY Here DEF FillKey
<1>2. /\ UNCHANGED <<public, live, active, pointer, snaps, dels>>
      /\ manifest' = [manifest EXCEPT ![job[p].key] = job[p].rel]
      /\ Goto(p, "fillSlug", i)
    BY DEF FillKey, db
<1>3. i \in Job /\ i.rel = job[p].rel /\ i.tenant = job[p].tenant /\ i.saw = job[p].saw
    BY <1>1, DeliveryAssumption, WithKey
<1> HIDE DEF i
<1>4. Fits("fillSlug", i, public, live)
    BY <1>1, <1>3 DEF Fits, Holding, Open, Loc
<1>5. pc' \in [Readers -> Loc] /\ job' \in [Readers -> Job] /\ AllFit'
    BY <1>2, <1>3, <1>4, Moves DEF Loc
<1>6. /\ manifest' \in [Identifiers -> Release \cup {None}]
      /\ \A k \in Identifiers : Approved(manifest'[k], live)
    BY <1>1, <1>2, Filled DEF Holding
<1> QED
    BY <1>2, <1>5, <1>6 DEF DeliveryInv, TypeOK, Stored

LEMMA FillSlugKeeps ==
    ASSUME DeliveryInv, NEW p \in Readers, FillSlug(p)
    PROVE  DeliveryInv'
<1>1. job[p] \in Job /\ pc[p] = "fillSlug" /\ Fits("fillSlug", job[p], public, live)
    BY Here DEF FillSlug
<1>2. /\ UNCHANGED <<public, live, active, pointer, snaps, dels>>
      /\ manifest' = [manifest EXCEPT ![job[p].key] = job[p].rel]
      /\ Goto(p, "done", job[p])
    BY DEF FillSlug, db
<1>3. Fits("done", job[p], public, live)
    BY <1>1 DEF Fits, Holding, Open, Loc
<1>4. pc' \in [Readers -> Loc] /\ job' \in [Readers -> Job] /\ AllFit'
    BY <1>1, <1>2, <1>3, Moves DEF Loc
<1>5. /\ manifest' \in [Identifiers -> Release \cup {None}]
      /\ \A k \in Identifiers : Approved(manifest'[k], live)
    BY <1>1, <1>2, Filled DEF Holding
<1> QED
    BY <1>2, <1>4, <1>5 DEF DeliveryInv, TypeOK, Stored

LEMMA EndKeeps ==
    ASSUME DeliveryInv, NEW p \in Readers, End(p)
    PROVE  DeliveryInv'
<1>1. NoJob \in Job /\ NoJob.rel = None /\ NoJob.tenant = None
    BY DeliveryAssumption DEF NoJob, Job, Kind
<1>2. Goto(p, "idle", NoJob) /\ UNCHANGED <<db, redis, dels>>
    BY DEF End
<1>3. Fits("idle", NoJob, public, live)
    BY <1>1 DEF Fits, Approved, Holding, Open
<1> QED
    BY <1>1, <1>2, <1>3, OnlyMoves DEF Loc

-----------------------------------------------------------------------------
(* Administrators, invalidation and expiry.                                *)

\* The requests under way see the tenant row change, and more approved.
LEMMA NoticedFits ==
    ASSUME DeliveryInv, NEW b \in BOOLEAN, NEW n \in Nat, n >= live,
           job' = Noticed(b), pc' = pc
    PROVE  /\ pc' \in [Readers -> Loc] /\ job' \in [Readers -> Job]
           /\ \A q \in Readers : Fits(pc'[q], job'[q], b, n)
<1>1. /\ pc \in [Readers -> Loc] /\ job \in [Readers -> Job] /\ public \in BOOLEAN
      /\ live \in Nat
    BY DEF DeliveryInv, TypeOK
<1>2. ASSUME NEW q \in Readers
      PROVE  job'[q] \in Job /\ Fits(pc'[q], job'[q], b, n)
    <2>1. job[q] \in Job /\ Fits(pc[q], job[q], public, live)
        BY Here
    <2>2. Approved(job[q].rel, n) /\ Approved(job[q].tenant, n)
        BY <1>1, <2>1 DEF Fits, Approved
    <2>3. CASE pc[q] = "idle"
        <3>1. pc'[q] = "idle" /\ job'[q] = job[q]
            BY <2>3 DEF Noticed
        <3>2. Fits("idle", job[q], b, n)
            BY <2>1, <2>2, <2>3 DEF Fits, Holding, Open
        <3> QED
            BY <2>1, <3>1, <3>2
    <2>4. CASE pc[q] # "idle"
        <3> DEFINE i == [job[q] EXCEPT !.saw = @ \cup {b}]
        <3>1. pc'[q] = pc[q] /\ job'[q] = i
            BY <2>4 DEF Noticed
        <3>2. job[q].saw \cup {b} \in SUBSET BOOLEAN
            BY <2>1 DEF Job
        <3>3. /\ i \in Job /\ i.rel = job[q].rel /\ i.tenant = job[q].tenant
              /\ i.saw = job[q].saw \cup {b} /\ i.kind = job[q].kind
            BY <2>1, <3>2 DEF Job
        <3> HIDE DEF i
        <3>4. /\ pc[q] \in Holding => i.rel # None
              /\ b \in i.saw
              /\ pc[q] \in Open => TRUE \in i.saw
              /\ pc[q] = "version" => i.kind = "version"
            BY <2>1, <3>3 DEF Fits
        <3>5. /\ public \in job[q].saw /\ (i.saw = {TRUE} => job[q].saw = {TRUE})
              /\ TRUE \in job[q].saw => TRUE \in i.saw
            BY <1>1, <2>1, <2>4, <3>3 DEF Fits
        <3>6. pc[q] = "done" =>
                /\ i.rel # None => TRUE \in i.saw
                /\ i.rel = None /\ i.saw = {TRUE} =>
                       i.kind = "version" \/ (i.kind = "bff" /\ i.tenant = None)
            BY <2>1, <3>3, <3>5 DEF Fits
        <3>7. Fits(pc[q], i, b, n)
            BY <2>2, <3>3, <3>4, <3>6 DEF Fits
        <3> QED
            BY <3>1, <3>3, <3>7
    <2> QED
        BY <2>3, <2>4
<1>3. DOMAIN job' = Readers /\ job' = [q \in Readers |-> job'[q]]
    BY DEF Noticed
<1> QED
    BY <1>1, <1>2, <1>3

LEMMA ApproveKeeps ==
    ASSUME DeliveryInv, Approve
    PROVE  DeliveryInv'
<1>1. /\ live \in 0 .. MaxReleases /\ live < MaxReleases /\ MaxReleases \in Nat
      /\ live' = live + 1 /\ active' = live + 1 /\ public' = TRUE /\ dels' = 3
      /\ UNCHANGED <<pointer, snaps, manifest>>
    BY DeliveryAssumption DEF DeliveryInv, TypeOK, Approve, redis
<1>2. /\ pc' \in [Readers -> Loc] /\ job' \in [Readers -> Job]
      /\ \A q \in Readers : Fits(pc'[q], job'[q], TRUE, live + 1)
    <2>1. TRUE \in BOOLEAN /\ live + 1 \in Nat /\ live + 1 >= live
        BY <1>1
    <2>2. job' = Noticed(TRUE) /\ pc' = pc
        BY DEF Approve
    <2> QED
        BY <2>1, <2>2, NoticedFits
<1>3. AllFit'
    BY <1>1, <1>2 DEF AllFit
<1>4. \A r : Approved(r, live) => Approved(r, live')
    BY <1>1 DEF Approved
<1>5. Stored'
    BY <1>1, <1>4 DEF DeliveryInv, Stored, Approved
<1>6. TypeOK'
    BY <1>1, <1>2 DEF DeliveryInv, TypeOK, Release
<1> QED
    BY <1>3, <1>5, <1>6 DEF DeliveryInv

LEMMA UnpublishKeeps ==
    ASSUME DeliveryInv, Unpublish
    PROVE  DeliveryInv'
<1>1. /\ live \in Nat /\ public' = FALSE /\ dels' \in 0 .. 3
      /\ UNCHANGED <<live, active, pointer, snaps, manifest>>
    BY DeliveryAssumption DEF DeliveryInv, TypeOK, Unpublish, redis
<1>2. /\ pc' \in [Readers -> Loc] /\ job' \in [Readers -> Job]
      /\ \A q \in Readers : Fits(pc'[q], job'[q], FALSE, live)
    <2>1. FALSE \in BOOLEAN /\ live \in Nat /\ live >= live
        BY <1>1
    <2>2. job' = Noticed(FALSE) /\ pc' = pc
        BY DEF Unpublish
    <2> QED
        BY <2>1, <2>2, NoticedFits
<1>3. AllFit'
    BY <1>1, <1>2 DEF AllFit
<1> QED
    BY <1>1, <1>2, <1>3 DEF DeliveryInv, TypeOK, Stored, Approved

LEMMA InvalidateKeeps ==
    ASSUME DeliveryInv, Invalidate \/ InvalidateFails
    PROVE  DeliveryInv'
<1>1. UNCHANGED <<public, live, active, snaps, pc, job>>
    BY DEF Invalidate, InvalidateFails, db, redis
<1>2. dels' \in 0 .. 3
    BY DEF DeliveryInv, TypeOK, Invalidate, InvalidateFails
<1>3. pointer' \in {pointer, None}
    BY DEF Invalidate, InvalidateFails, redis
<1>4. /\ manifest' \in [Identifiers -> Release \cup {None}]
      /\ \A k \in Identifiers : manifest'[k] \in {manifest[k], None}
    <2>1. manifest \in [Identifiers -> Release \cup {None}]
        BY DEF DeliveryInv, TypeOK
    <2>2. CASE manifest' = manifest
        BY <2>1, <2>2
    <2>3. CASE manifest' = [k \in Identifiers |-> IF dels = (IF k = "slug" THEN 2 ELSE 1)
                                                  THEN manifest[k] ELSE None]
        BY <2>1, <2>3
    <2> QED
        BY <2>2, <2>3 DEF Invalidate, InvalidateFails, redis
<1>5. pc' \in [Readers -> Loc] /\ job' \in [Readers -> Job] /\ AllFit'
    BY <1>1, NoneMoves
<1>6. TypeOK'
    BY <1>1, <1>2, <1>3, <1>4, <1>5 DEF DeliveryInv, TypeOK
<1>7. Stored'
    BY <1>1, <1>3, <1>4 DEF DeliveryInv, Stored, Approved
<1> QED
    BY <1>5, <1>6, <1>7 DEF DeliveryInv

LEMMA ExpireKeeps ==
    ASSUME DeliveryInv, Expire
    PROVE  DeliveryInv'
<1>1. UNCHANGED <<public, live, active, dels, pc, job>>
    BY DEF Expire, ExpirePointer, ExpireSnap, ExpireManifest, db
<1>2. pointer' \in {pointer, None} /\ snaps' \subseteq snaps
    BY DEF Expire, ExpirePointer, ExpireSnap, ExpireManifest
<1>3. /\ manifest' \in [Identifiers -> Release \cup {None}]
      /\ \A k \in Identifiers : manifest'[k] \in {manifest[k], None}
    <2>1. manifest \in [Identifiers -> Release \cup {None}]
        BY DEF DeliveryInv, TypeOK
    <2>2. CASE manifest' = manifest
        BY <2>1, <2>2
    <2>3. CASE \E k \in Identifiers : manifest' = [manifest EXCEPT ![k] = None]
        BY <2>1, <2>3
    <2> QED
        BY <2>2, <2>3 DEF Expire, ExpirePointer, ExpireSnap, ExpireManifest
<1>4. pc' \in [Readers -> Loc] /\ job' \in [Readers -> Job] /\ AllFit'
    BY <1>1, NoneMoves
<1>5. TypeOK'
    BY <1>1, <1>2, <1>3, <1>4 DEF DeliveryInv, TypeOK
<1>6. Stored'
    BY <1>1, <1>2, <1>3 DEF DeliveryInv, Stored, Approved
<1> QED
    BY <1>4, <1>5, <1>6 DEF DeliveryInv

-----------------------------------------------------------------------------
LEMMA StepKeeps == DeliveryInv /\ [Next]_vars => DeliveryInv'
<1> SUFFICES ASSUME DeliveryInv, [Next]_vars PROVE DeliveryInv'
    OBVIOUS
<1>1. CASE Approve \/ Unpublish \/ Invalidate \/ InvalidateFails \/ Expire
    BY <1>1, ApproveKeeps, UnpublishKeeps, InvalidateKeeps, ExpireKeeps
<1>2. CASE \E p \in BffReaders, k \in Identifiers : GetManifest(p, k)
    BY <1>2, GetManifestKeeps DEF Readers
<1>3. CASE \E p \in AppReaders, kind \in {"app", "version"} : GetDefinition(p, kind)
    BY <1>3, GetDefinitionKeeps DEF Readers
<1>4. ASSUME NEW p \in Readers, Proceed(p) PROVE DeliveryInv'
    <2>1. CASE ReadManifest(p) \/ Resolve(p) \/ ReadVersion(p) \/ ReadPointer(p)
        BY <2>1, ReadManifestKeeps, ResolveKeeps, ReadVersionKeeps, ReadPointerKeeps
    <2>2. CASE ReadSnap(p) \/ LoadRelease(p) \/ KeepSnap(p) \/ KeepPointer(p) \/ Heal(p)
        BY <2>2, ReadSnapKeeps, LoadReleaseKeeps, KeepSnapKeeps, KeepPointerKeeps, HealKeeps
    <2>3. CASE Fallback(p) \/ Repoint(p) \/ KeepFallback(p)
        BY <2>3, FallbackKeeps, RepointKeeps, KeepFallbackKeeps
    <2>4. CASE FillKey(p) \/ FillSlug(p) \/ End(p)
        BY <2>4, FillKeyKeeps, FillSlugKeeps, EndKeeps
    <2> QED
        BY <1>4, <2>1, <2>2, <2>3, <2>4 DEF Proceed
<1>5. CASE UNCHANGED vars
    <2>1. UNCHANGED <<public, live, active, pointer, snaps, manifest, dels, pc, job>>
        BY <1>5 DEF vars, db, redis
    <2>2. pc' \in [Readers -> Loc] /\ job' \in [Readers -> Job] /\ AllFit'
        BY <2>1, NoneMoves
    <2> QED
        BY <2>1, <2>2 DEF DeliveryInv, TypeOK, Stored, Approved
<1> QED
    BY <1>1, <1>2, <1>3, <1>4, <1>5 DEF Next

LEMMA AlwaysDelivers == Spec => []DeliveryInv
<1>1. Init => DeliveryInv
    BY InitHolds
<1>2. DeliveryInv /\ [Next]_vars => DeliveryInv'
    BY StepKeeps
<1> QED
    BY <1>1, <1>2, PTL DEF Spec

\* Rows, caches and requests keep their types for any number of readers and
\* releases, whatever overlaps, fails or expires.
THEOREM TypeCorrect == Spec => []TypeOK
<1>1. DeliveryInv => TypeOK
    BY DEF DeliveryInv
<1> QED
    BY <1>1, AlwaysDelivers, PTL

\* No reader gets a release that no administrator approved: pointer, snapshots
\* and manifests never hold one, and the self-healing write copies from them.
THEOREM OnlyApproved == Spec => []OnlyApprovedServed
<1>1. DeliveryInv => OnlyApprovedServed
    <2> SUFFICES ASSUME DeliveryInv, NEW p \in Readers, Served(p)
                 PROVE  job[p].rel <= live
        BY DEF OnlyApprovedServed
    <2>1. Fits(pc[p], job[p], public, live)
        BY Here
    <2>2. Approved(job[p].rel, live)
        BY <2>1 DEF Fits
    <2>3. job[p].rel # None
        BY DEF Served
    <2>4. live \in Nat
        BY DeliveryAssumption DEF DeliveryInv, TypeOK
    <2> QED
        BY <2>2, <2>3, <2>4 DEF Approved
<1> QED
    BY <1>1, AlwaysDelivers, PTL

\* A read that began on an app that was not public and has not become so is
\* refused, although the caches still hold its manifest.
THEOREM SuspendedIsRefused == Spec => []SuspendedNotServed
<1>1. DeliveryInv => SuspendedNotServed
    <2> SUFFICES ASSUME DeliveryInv, NEW p \in Readers, Served(p)
                 PROVE  TRUE \in job[p].saw
        BY DEF SuspendedNotServed
    <2> QED
        BY Here DEF Fits, Served
<1> QED
    BY <1>1, AlwaysDelivers, PTL

\* An app that stays public while it is read is served: an app that is public
\* has a published release, so the fallback finds one.
THEOREM PublicIsServed == Spec => []NeverDark
<1>1. DeliveryInv => NeverDark
    <2> SUFFICES ASSUME DeliveryInv, NEW p \in Readers, Refused(p), job[p].saw = {TRUE}
                 PROVE  job[p].kind = "version" \/ (job[p].kind = "bff" /\ job[p].tenant = None)
        BY DEF NeverDark
    <2> QED
        BY Here DEF Fits, Refused
<1> QED
    BY <1>1, AlwaysDelivers, PTL
=============================================================================
