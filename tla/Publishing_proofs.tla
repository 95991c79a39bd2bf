-------------------------- MODULE Publishing_proofs --------------------------
(***************************************************************************)
(* Proofs about Publishing for every number of merchants, administrators,  *)
(* rows, versions and keys.                                                *)
(***************************************************************************)
EXTENDS Publishing, FiniteSetTheorems, TLAPS

USE PublishingAssumption

(* A stored release has a version and a positive build number.             *)
RowsFormed ==
    \A r \in Rows : row[r].version \in Version /\ row[r].build > 0

(* Where a request has stored or picked a release.                         *)
Holding == {"draft", "supersede", "superseding", "mark", "finish", "reread", "activate", "retire",
            "unqueue", "commit", "record"}
USE DEF Holding

(* A request that has allocated a version knows it; one that has stored or *)
(* picked a release refers to a stored one, and transactions write stored  *)
(* ones.                                                                   *)
JobsFormed ==
    \A p \in Proc :
        /\ pc[p] \in {"clash", "create"} => job[p].ver \in Version /\ job[p].build > 0
        /\ pc[p] \in Holding => job[p].rel \in Rows
        /\ tx[p].wrote \subseteq Rows

Formed == TypeOK /\ RowsFormed /\ JobsFormed

LEMMA NextVersionType ==
    ASSUME NEW v \in Version
    PROVE  /\ NextVersion(v) \in Version
           /\ NextVersion(v).line = v.line
           /\ NextVersion(v).patch = v.patch + 1
BY DEF NextVersion, Version

LEMMA FirstVersionType == FirstVersion \in Version
BY DEF FirstVersion, Version

Tx == [found : SUBSET Id, wrote : SUBSET Id]

LEMMA NoJobType == NoJob \in Job
BY DEF NoJob, Job, Via

(* Moving one request to a place with locals of the right type.            *)
LEMMA GotoTyped ==
    ASSUME TypeOK, NEW p \in Proc, NEW loc \in MerchantLoc \cup AdminLoc,
           NEW j \in Job, Goto(p, loc, j)
    PROVE  /\ pc' \in [Proc -> MerchantLoc \cup AdminLoc]
           /\ job' \in [Proc -> Job]
           /\ tx' \in [Proc -> Tx]
           /\ pc'[p] = loc /\ job'[p] = j
           /\ tx'[p].wrote = {}
           /\ \A q \in Proc : q # p => pc'[q] = pc[q] /\ job'[q] = job[q] /\ tx'[q] = tx[q]
<1>1. NoTx \in Tx BY DEF NoTx, Tx
<1>2. /\ tx' \in [Proc -> Tx] /\ tx'[p].wrote = {}
      /\ \A q \in Proc : q # p => tx'[q] = tx[q]
  BY <1>1 DEF Goto, TypeOK, Tx, NoTx
<1> QED BY <1>2 DEF Goto, TypeOK

LEMMA DoneTyped ==
    ASSUME TypeOK, NEW p \in Proc, Done(p)
    PROVE  /\ pc' \in [Proc -> MerchantLoc \cup AdminLoc]
           /\ job' \in [Proc -> Job]
           /\ tx' \in [Proc -> Tx] /\ tx'[p].wrote = {}
           /\ pc'[p] = "idle"
           /\ \A q \in Proc : q # p => pc'[q] = pc[q] /\ job'[q] = job[q] /\ tx'[q] = tx[q]
BY NoJobType, GotoTyped DEF Done, MerchantLoc

LEMMA InitFormed == Init => Formed
<1> SUFFICES ASSUME Init PROVE Formed OBVIOUS
<1>1. TypeOK
  <2>1. NoTx \in [found : SUBSET Id, wrote : SUBSET Id] BY DEF NoTx
  <2> QED BY <2>1, NoJobType DEF Init, TypeOK, NoRow, Row, Via, MerchantLoc
<1>2. RowsFormed /\ JobsFormed
  <2>1. NoTx.wrote = {} BY DEF NoTx
  <2> QED BY <2>1 DEF Init, RowsFormed, JobsFormed, Rows
<1> QED BY <1>1, <1>2 DEF Formed

(* What a step of p must keep when it neither adds a row nor changes what  *)
(* an existing row says.                                                   *)
LEMMA RowsKept ==
    ASSUME Formed, row' = row, Rows' = Rows,
           status' \in [Id -> Status \cup {"absent"}],
           NEW p \in Proc, NEW loc \in MerchantLoc \cup AdminLoc, NEW j \in Job,
           Goto(p, loc, j),
           loc \in {"clash", "create"} => j.ver \in Version /\ j.build > 0,
           loc \in Holding => j.rel \in Rows,
           tenant' \in [status : {"draft", "published", "suspended", "rejected"},
                        appStatus : {"none", "in_review", "approved", "rejected"},
                        active : Id \cup {None}],
           draft' \in Id \cup {None}, idem' \in [Keys -> Id \cup {None}]
    PROVE  Formed'
<1>1. TypeOK'
  BY GotoTyped DEF Formed, TypeOK, Tx
<1>2. RowsFormed'
  BY DEF Formed, RowsFormed
<1>3. JobsFormed'
  <2> SUFFICES ASSUME NEW q \in Proc
               PROVE  /\ pc'[q] \in {"clash", "create"} => job'[q].ver \in Version /\ job'[q].build > 0
                      /\ pc'[q] \in Holding => job'[q].rel \in Rows'
                      /\ tx'[q].wrote \subseteq Rows'
    BY DEF JobsFormed
  <2>1. CASE q = p BY <2>1, GotoTyped DEF Formed
  <2>2. CASE q # p BY <2>2, GotoTyped DEF Formed, JobsFormed
  <2> QED BY <2>1, <2>2
<1> QED BY <1>1, <1>2, <1>3 DEF Formed

(* A step that only moves its own request.                                 *)
LEMMA OnlyMoves ==
    ASSUME Formed, UNCHANGED <<status, row, tenant, draft, idem>>,
           NEW p \in Proc, NEW loc \in MerchantLoc \cup AdminLoc, NEW j \in Job,
           Goto(p, loc, j),
           loc \in {"clash", "create"} => j.ver \in Version /\ j.build > 0,
           loc \in Holding => j.rel \in Rows
    PROVE  Formed'
<1>1. Rows' = Rows
  BY DEF Rows
<1> QED BY <1>1, RowsKept DEF Formed, TypeOK

(* A step inside a statement or a transaction that has not committed.      *)
LEMMA InTxFormed ==
    ASSUME Formed, UNCHANGED <<status, row, tenant, draft, idem>>,
           NEW p \in Proc, NEW loc \in (MerchantLoc \cup AdminLoc) \ {"clash", "create"},
           NEW S \in SUBSET Id, NEW W \in SUBSET Id, InTx(p, loc, S, W),
           loc \in Holding => job[p].rel \in Rows, W \subseteq Rows
    PROVE  /\ Formed' /\ Rows' = Rows
           /\ pc'[p] = loc /\ job' = job /\ tx'[p].found = S /\ tx'[p].wrote = W
           /\ \A q \in Proc : q # p => pc'[q] = pc[q] /\ tx'[q] = tx[q]
<1> DEFINE t == [found |-> S, wrote |-> W]
<1>1. t \in Tx BY Zenon DEF Tx
<1>2. t.found = S /\ t.wrote = W OBVIOUS
<1> HIDE DEF t
<1>3. pc' = [pc EXCEPT ![p] = loc] /\ tx' = [tx EXCEPT ![p] = t] /\ job' = job
  BY DEF InTx, t
<1>4. pc \in [Proc -> MerchantLoc \cup AdminLoc] /\ tx \in [Proc -> Tx]
  BY DEF Formed, TypeOK, Tx
<1>5. /\ pc' \in [Proc -> MerchantLoc \cup AdminLoc] /\ tx' \in [Proc -> Tx]
      /\ pc'[p] = loc /\ tx'[p] = t
      /\ \A q \in Proc : q # p => pc'[q] = pc[q] /\ tx'[q] = tx[q]
  BY <1>1, <1>3, <1>4
<1>6. Rows' = Rows BY DEF Rows
<1>7. TypeOK' BY <1>3, <1>5 DEF Formed, TypeOK, Tx
<1>8. RowsFormed' /\ JobsFormed' BY <1>2, <1>3, <1>5, <1>6 DEF Formed, RowsFormed, JobsFormed
<1> QED BY <1>2, <1>3, <1>5, <1>6, <1>7, <1>8 DEF Formed

LEMMA MovesToEnd ==
    ASSUME Formed, UNCHANGED <<status, row, tenant, draft, idem>>,
           NEW p \in Proc, Done(p)
    PROVE  Formed'
BY OnlyMoves, NoJobType DEF Done, MerchantLoc

LEMMA StartFormed ==
    ASSUME Formed, NEW m \in Merchants, NEW c \in Content,
           NEW v \in AskedVersion \cup {None}, NEW k \in Keys \cup {None},
           NEW op \in MerchantOps,
           SubmitManifest(m, op, c, v, k) \/ SubmitDrafts(m, op, c, k)
    PROVE  Formed'
<1> DEFINE j1 == [NoJob EXCEPT !.op = op, !.content = c, !.ver = v, !.key = k]
           j2 == [NoJob EXCEPT !.op = op, !.via = "draft", !.content = c, !.key = k]
<1>1. m \in Proc /\ v \in Version \cup {None}
  BY DEF Proc, AskedVersion, Version
<1>2. j1 \in Job /\ j2 \in Job
  BY <1>1 DEF NoJob, Job, Via
<1>3. CASE SubmitManifest(m, op, c, v, k)
  BY <1>1, <1>2, <1>3, OnlyMoves DEF SubmitManifest, MerchantLoc
<1>4. CASE SubmitDrafts(m, op, c, k)
  BY <1>1, <1>2, <1>4, OnlyMoves DEF SubmitDrafts, MerchantLoc
<1> QED BY <1>3, <1>4

LEMMA CompileFormed ==
    ASSUME Formed, NEW m \in Merchants, Compile(m)
    PROVE  Formed'
<1>1. m \in Proc /\ job[m] \in Job
  BY DEF Proc, Formed, TypeOK
<1>2. ASSUME NEW v \in Version, Goto(m, "latest", [job[m] EXCEPT !.ver = v])
      PROVE  Formed'
  <2>1. [job[m] EXCEPT !.ver = v] \in Job BY <1>1 DEF Job
  <2> QED BY <1>1, <1>2, <2>1, OnlyMoves DEF Compile, MerchantLoc
<1>3. CASE Rows = {} /\ Goto(m, "latest", [job[m] EXCEPT !.ver = FirstVersion])
  BY <1>2, <1>3, FirstVersionType
<1>4. ASSUME NEW l \in Newest(Rows),
             Goto(m, "latest", [job[m] EXCEPT !.ver = NextVersion(row[l].version)])
      PROVE  Formed'
  <2>1. row[l].version \in Version BY DEF Newest, Formed, RowsFormed
  <2> QED BY <2>1, <1>2, <1>4, NextVersionType
<1> QED BY <1>3, <1>4 DEF Compile

LEMMA RollbackFormed ==
    ASSUME Formed, NEW m \in Merchants, NEW target \in Id, Rollback(m, target)
    PROVE  Formed'
<1> DEFINE j == [NoJob EXCEPT !.op = "rollback", !.via = "rollback",
                              !.content = row[target].content]
<1>1. m \in Proc /\ row[target] \in Row
  BY DEF Proc, Formed, TypeOK
<1>2. j \in Job
  BY <1>1 DEF NoJob, Job, Row, Via
<1> QED BY <1>1, <1>2, OnlyMoves DEF Rollback, MerchantLoc

LEMMA AllocatedType ==
    ASSUME NEW j \in Job, NEW build \in Nat, NEW next \in Version \cup {None}
    PROVE  /\ Allocated(j, build, next) \in Job
           /\ Allocated(j, build, next).ver \in Version
           /\ Allocated(j, build, next).build = build
           /\ Allocated(j, build, next).next = next
<1> DEFINE v == IF j.ver # None THEN j.ver ELSE IF next = None THEN FirstVersion ELSE next
<1>1. v \in Version
  BY FirstVersionType DEF Job
<1> HIDE DEF v
<1>2. Allocated(j, build, next) = [j EXCEPT !.build = build, !.next = next, !.ver = v]
  BY DEF Allocated, v
<1>3. v \in Version \cup {None}
  BY <1>1
<1>4. [j EXCEPT !.build = build, !.next = next, !.ver = v] \in Job
  BY <1>3 DEF Job
<1>5. /\ [j EXCEPT !.build = build, !.next = next, !.ver = v].ver = v
      /\ [j EXCEPT !.build = build, !.next = next, !.ver = v].build = build
      /\ [j EXCEPT !.build = build, !.next = next, !.ver = v].next = next
  BY DEF Job
<1> QED BY <1>1, <1>2, <1>4, <1>5

LEMMA ReadLatestFormed ==
    ASSUME Formed, NEW m \in Merchants, ReadLatest(m)
    PROVE  Formed'
<1>1. m \in Proc /\ job[m] \in Job
  BY DEF Proc, Formed, TypeOK
<1>2. ASSUME NEW b \in Nat \ {0}, NEW n \in Version \cup {None},
             Goto(m, "clash", Allocated(job[m], b, n))
      PROVE  Formed'
  BY <1>1, <1>2, AllocatedType, OnlyMoves DEF ReadLatest, MerchantLoc
<1>3. CASE Goto(m, "clash", Allocated(job[m], 1, None))
  BY <1>2, <1>3
<1>4. ASSUME NEW l \in Newest(Rows),
             Goto(m, "clash",
                  Allocated(job[m], row[l].build + 1, NextVersion(row[l].version)))
      PROVE  Formed'
  <2>1. row[l].version \in Version /\ row[l].build + 1 \in Nat \ {0}
    BY DEF Newest, Formed, RowsFormed, TypeOK, Row, Rows
  <2>2. NextVersion(row[l].version) \in Version BY <2>1, NextVersionType
  <2> QED BY <2>1, <2>2, <1>2, <1>4
<1> QED BY <1>3, <1>4 DEF ReadLatest

LEMMA ReadClashFormed ==
    ASSUME Formed, NEW m \in Merchants, ReadClash(m)
    PROVE  Formed'
<1>1. m \in Proc /\ job[m] \in Job /\ job[m].ver \in Version /\ job[m].build > 0
  BY DEF Proc, Formed, TypeOK, JobsFormed, ReadClash
<1>2. CASE Done(m)
  BY <1>1, <1>2, MovesToEnd DEF ReadClash
<1>3. CASE Goto(m, "create", job[m])
  BY <1>1, <1>3, OnlyMoves DEF ReadClash, MerchantLoc
<1>4. ASSUME NEW r \in WithVersion(job[m].ver),
             Goto(m, "create", [job[m] EXCEPT !.build = row[r].build])
      PROVE  Formed'
  <2>1. row[r].build \in Nat /\ row[r].build > 0
    BY DEF WithVersion, Formed, RowsFormed, TypeOK, Row, Rows
  <2>2. [job[m] EXCEPT !.build = row[r].build] \in Job
    BY <1>1, <2>1 DEF Job
  <2>3. [job[m] EXCEPT !.build = row[r].build].ver \in Version
    BY <1>1 DEF Job
  <2>4. [job[m] EXCEPT !.build = row[r].build].build > 0
    BY <1>1, <2>1 DEF Job
  <2> QED BY <1>1, <1>4, <2>2, <2>3, <2>4, OnlyMoves DEF ReadClash, MerchantLoc
<1> QED BY <1>2, <1>3, <1>4 DEF ReadClash

LEMMA InsertedType ==
    ASSUME NEW m, job[m] \in Job, NEW r \in Id, NEW seen \in Status \cup {"absent"}
    PROVE  Inserted(m, r, seen) \in Job /\ Inserted(m, r, seen).rel = r
<1>1. /\ job[m].op \in {"none", "publish", "appReview", "rollback", "approve", "reject", "refuse"}
      /\ job[m].key \in Keys \cup {None}
  BY DEF Job
<1> DEFINE j1 == [NoJob EXCEPT !.op = job[m].op]
           j2 == [j1 EXCEPT !.key = job[m].key]
           j3 == [j2 EXCEPT !.rel = r]
<1>2. j1 \in Job BY <1>1, NoJobType DEF Job
<1> HIDE DEF j1
<1>3. j2 \in Job BY <1>1, <1>2 DEF Job
<1> HIDE DEF j2
<1>4. j3 \in Job /\ j3.rel = r BY <1>3 DEF Job
<1> HIDE DEF j3
<1>5. [j3 EXCEPT !.seen = seen] \in Job /\ [j3 EXCEPT !.seen = seen].rel = r BY <1>4 DEF Job
<1>6. Inserted(m, r, seen) = [j3 EXCEPT !.seen = seen] BY DEF Inserted, j3, j2, j1
<1> QED BY <1>5, <1>6

(* Inserting a candidate is the one step that adds a row.                  *)
LEMMA InsertFormed ==
    ASSUME Formed, NEW m \in Merchants, NEW r \in Id, Insert(m, r)
    PROVE  /\ Formed'
           /\ Rows' = Rows \cup {r}
           /\ row'[r].version = job[m].ver /\ row'[r].build = job[m].build
           /\ \A q \in Rows : row'[q] = row[q]
<1> DEFINE new == [version |-> job[m].ver, build |-> job[m].build,
                   content |-> job[m].content, via |-> job[m].via]
           j == Inserted(m, r, "pending_review")
<1>1. /\ m \in Proc /\ job[m] \in Job /\ pc[m] = "create"
      /\ job[m].ver \in Version /\ job[m].build > 0
  BY DEF Proc, Formed, TypeOK, JobsFormed, Insert
<1>2. new \in Row /\ new.version = job[m].ver /\ new.build = job[m].build
  BY <1>1 DEF Job, Row
<1>3. j \in Job /\ j.rel = r
  BY <1>1, InsertedType DEF Status
<1> HIDE DEF new, j
<1>4. /\ status' = [status EXCEPT ![r] = "pending_review"]
      /\ row' = [row EXCEPT ![r] = new]
      /\ Goto(m, "draft", j)
      /\ UNCHANGED <<tenant, draft, idem>>
      /\ r \notin Rows
  BY DEF Insert, new, j
<1>5. /\ status' \in [Id -> Status \cup {"absent"}] /\ row' \in [Id -> Row]
      /\ row'[r] = new /\ \A q \in Rows : row'[q] = row[q]
  BY <1>2, <1>4 DEF Formed, TypeOK, Status, Rows
<1>6. Rows' = Rows \cup {r}
  BY <1>4 DEF Rows, Formed, TypeOK
<1>7. /\ pc' \in [Proc -> MerchantLoc \cup AdminLoc] /\ job' \in [Proc -> Job]
      /\ pc'[m] = "draft" /\ job'[m] = j
      /\ tx' \in [Proc -> Tx] /\ tx'[m].wrote = {}
      /\ \A q \in Proc : q # m => pc'[q] = pc[q] /\ job'[q] = job[q] /\ tx'[q] = tx[q]
  BY <1>1, <1>3, <1>4, GotoTyped DEF Formed, MerchantLoc
<1>8. TypeOK'
  BY <1>4, <1>5, <1>7 DEF Formed, TypeOK, Tx
<1>9. RowsFormed'
  BY <1>1, <1>2, <1>5, <1>6 DEF Formed, RowsFormed
<1>10. JobsFormed'
  BY <1>3, <1>6, <1>7 DEF Formed, JobsFormed
<1> QED BY <1>2, <1>5, <1>6, <1>8, <1>9, <1>10 DEF Formed

LEMMA InsertRefusedFormed ==
    ASSUME Formed, NEW m \in Merchants, InsertRefused(m)
    PROVE  Formed'
<1>1. m \in Proc /\ job[m] \in Job
  BY DEF Proc, Formed, TypeOK
<1>2. CASE Done(m)
  BY <1>1, <1>2, MovesToEnd DEF InsertRefused
<1>3. ASSUME NEW r \in WithVersion(job[m].ver), Goto(m, "draft", Inserted(m, r, status[r]))
      PROVE  Formed'
  <2>1. r \in Rows /\ status[r] \in Status \cup {"absent"}
    BY DEF WithVersion, Rows, Formed, TypeOK
  <2>2. Inserted(m, r, status[r]) \in Job /\ Inserted(m, r, status[r]).rel = r
    BY <1>1, <2>1, InsertedType DEF Rows
  <2> QED BY <1>1, <1>3, <2>1, <2>2, OnlyMoves DEF InsertRefused, MerchantLoc
<1> QED BY <1>2, <1>3 DEF InsertRefused

LEMMA MerchantTailFormed ==
    ASSUME Formed, NEW m \in Merchants,
           SaveDraft(m) \/ FindOlder(m) \/ Supersede(m) \/ MarkSubmitted(m) \/ Finish(m)
    PROVE  Formed'
<1>1. /\ m \in Proc /\ job[m] \in Job /\ job[m].rel \in Rows /\ NoJob \in Job
      /\ {"idle", "supersede", "superseding", "mark", "finish"} \subseteq MerchantLoc
  BY NoJobType DEF Proc, Formed, TypeOK, JobsFormed, SaveDraft, FindOlder, Supersede, MarkSubmitted,
         Finish, MerchantLoc, Holding
<1>2. CASE SaveDraft(m)
  <2>1. Rows' = Rows /\ draft' \in Id \cup {None} BY <1>1, <1>2 DEF SaveDraft, Rows
  <2>2. CASE Goto(m, "supersede", job[m])
    BY <1>1, <1>2, <2>1, <2>2, RowsKept DEF SaveDraft, Formed, TypeOK
  <2>3. CASE Goto(m, "finish", job[m])
    BY <1>1, <1>2, <2>1, <2>3, RowsKept DEF SaveDraft, Formed, TypeOK
  <2> QED BY <1>2, <2>2, <2>3 DEF SaveDraft
<1>3. CASE Supersede(m)
  <2>1. Rows' = Rows /\ status' \in [Id -> Status \cup {"absent"}]
    BY <1>3 DEF Supersede, AfterSubmission, Rows, Pending, Formed, TypeOK, Status
  <2> QED BY <1>1, <1>3, <2>1, RowsKept DEF Supersede, AfterSubmission, Formed, TypeOK
<1>4. CASE MarkSubmitted(m)
  <2>1. Rows' = Rows BY <1>4 DEF MarkSubmitted, Rows
  <2>2. tenant' \in [status : {"draft", "published", "suspended", "rejected"},
                     appStatus : {"none", "in_review", "approved", "rejected"},
                     active : Id \cup {None}]
    BY <1>4 DEF MarkSubmitted, Formed, TypeOK
  <2>3. CASE Goto(m, "finish", job[m])
    BY <1>1, <1>4, <2>1, <2>2, <2>3, RowsKept DEF MarkSubmitted, Formed, TypeOK
  <2>4. CASE Done(m)
    BY <1>1, <1>4, <2>1, <2>2, <2>4, RowsKept DEF MarkSubmitted, Done, Formed, TypeOK
  <2> QED BY <1>4, <2>3, <2>4 DEF MarkSubmitted
<1>5. CASE Finish(m)
  <2>1. Rows' = Rows BY <1>5 DEF Finish, Rows
  <2>2. tenant' \in [status : {"draft", "published", "suspended", "rejected"},
                     appStatus : {"none", "in_review", "approved", "rejected"},
                     active : Id \cup {None}]
    BY <1>5 DEF Finish, Formed, TypeOK
  <2>3. idem' \in [Keys -> Id \cup {None}]
    BY <1>1, <1>5 DEF Finish, Formed, TypeOK, Rows
  <2> QED BY <1>1, <1>5, <2>1, <2>2, <2>3, RowsKept DEF Finish, Done, Formed, TypeOK, Holding
<1>6. CASE FindOlder(m)
  <2>1. Pending \ {job[m].rel} \in SUBSET Id BY DEF Pending, Rows
  <2> QED BY <1>1, <1>6, <2>1, InTxFormed DEF FindOlder
<1> QED BY <1>2, <1>3, <1>4, <1>5, <1>6

LEMMA MerchantFormed ==
    ASSUME Formed, NEW m \in Merchants, MerchantStep(m)
    PROVE  Formed'
BY StartFormed, CompileFormed, RollbackFormed, ReadLatestFormed, ReadClashFormed,
   InsertFormed, InsertRefusedFormed, MerchantTailFormed DEF MerchantStep

(* The steps of an administrator that only read.                           *)
LEMMA ReviewReadsFormed ==
    ASSUME Formed, NEW a \in Admins,
           \/ Preview(a) \/ Approve(a) \/ CheckSubmitted(a)
           \/ PickCandidate(a) \/ RereadCandidate(a)
           \/ CheckReject(a) \/ CheckRefuse(a),
           UNCHANGED <<row, draft, idem>>
    PROVE  Formed'
<1>1. a \in Proc /\ job[a] \in Job /\ NoJob \in Job
  BY NoJobType DEF Proc, Formed, TypeOK
<1>2. CASE Preview(a)
  <2>1. PICK r \in IF Pending = {} THEN {draft} ELSE Newest(Pending) :
           Goto(a, "previewed", [NoJob EXCEPT !.shown = r])
    BY <1>2 DEF Preview
  <2>2. r \in Id \cup {None}
    BY DEF Newest, Pending, Rows, Formed, TypeOK
  <2>3. [NoJob EXCEPT !.shown = r] \in Job BY <1>1, <2>2 DEF Job
  <2> QED BY <1>1, <1>2, <2>1, <2>3, OnlyMoves DEF Preview, AdminLoc
<1>3. CASE Approve(a)
  <2>1. [job[a] EXCEPT !.op = "approve"] \in Job BY <1>1 DEF Job
  <2>2. CASE Done(a) BY <1>1, <1>3, <2>2, MovesToEnd DEF Approve
  <2>3. CASE Goto(a, "submitted", [job[a] EXCEPT !.op = "approve"])
    BY <1>1, <1>3, <2>1, <2>3, OnlyMoves DEF Approve, AdminLoc
  <2> QED BY <1>3, <2>2, <2>3 DEF Approve
<1>4. CASE CheckSubmitted(a)
  <2>2. CASE Done(a) BY <1>1, <1>4, <2>2, MovesToEnd DEF CheckSubmitted
  <2>3. CASE Goto(a, "candidate", job[a])
    BY <1>1, <1>4, <2>3, OnlyMoves DEF CheckSubmitted, AdminLoc
  <2> QED BY <1>4, <2>2, <2>3 DEF CheckSubmitted
<1>5. CASE PickCandidate(a)
  <2>2. CASE Done(a) BY <1>1, <1>5, <2>2, MovesToEnd DEF PickCandidate
  <2>3. ASSUME NEW r \in Newest(Pending), Goto(a, "reread", [job[a] EXCEPT !.rel = r])
        PROVE  Formed'
    <3>1. r \in Rows BY DEF Newest, Pending
    <3>2. [job[a] EXCEPT !.rel = r] \in Job /\ [job[a] EXCEPT !.rel = r].rel = r
      BY <1>1, <3>1 DEF Job, Rows
    <3> QED BY <1>1, <1>5, <2>3, <3>1, <3>2, OnlyMoves DEF PickCandidate, AdminLoc
  <2> QED BY <1>5, <2>2, <2>3 DEF PickCandidate
<1>6. CASE RereadCandidate(a)
  <2>2. CASE Done(a) BY <1>1, <1>6, <2>2, MovesToEnd DEF RereadCandidate
  <2>3. CASE Goto(a, "activate", [job[a] EXCEPT !.seen = status[job[a].rel]])
    <3>1. job[a].rel \in Rows /\ status[job[a].rel] \in Status \cup {"absent"}
      BY <1>1, <1>6 DEF RereadCandidate, Formed, JobsFormed, TypeOK, Rows
    <3> DEFINE j == [job[a] EXCEPT !.seen = status[job[a].rel]]
    <3>2. j \in Job /\ j.rel = job[a].rel BY <1>1, <3>1 DEF Job
    <3> QED BY <1>1, <1>6, <2>3, <3>1, <3>2, OnlyMoves DEF RereadCandidate, AdminLoc
  <2> QED BY <1>6, <2>2, <2>3 DEF RereadCandidate
<1>7. CASE CheckReject(a)
  <2>1. [NoJob EXCEPT !.op = "reject"] \in Job BY <1>1 DEF Job
  <2>2. CASE Done(a) BY <1>1, <1>7, <2>2, MovesToEnd DEF CheckReject
  <2>3. CASE Goto(a, "reject", [NoJob EXCEPT !.op = "reject"])
    BY <1>1, <1>7, <2>1, <2>3, OnlyMoves DEF CheckReject, AdminLoc
  <2> QED BY <1>7, <2>2, <2>3 DEF CheckReject
<1>8. CASE CheckRefuse(a)
  <2>1. [NoJob EXCEPT !.op = "refuse"] \in Job BY <1>1 DEF Job
  <2> QED BY <1>1, <1>8, <2>1, OnlyMoves DEF CheckRefuse, AdminLoc
<1> QED BY <1>2, <1>3, <1>4, <1>5, <1>6, <1>7, <1>8

(* The statements of a decision before its commit.                         *)
LEMMA StatementsFormed ==
    ASSUME Formed, NEW a \in Admins,
           FindPublished(a) \/ Retire(a) \/ FindPending(a) \/ FindRejected(a),
           UNCHANGED <<row, draft, idem>>
    PROVE  Formed' /\ Rows' = Rows
<1>1. /\ a \in Proc
      /\ pc[a] \in Holding => job[a].rel \in Rows
      /\ tx[a] \in Tx
      /\ {"retire", "unqueue", "commit", "rejecting"} \subseteq AdminLoc \ {"clash", "create"}
  BY DEF Proc, Formed, JobsFormed, TypeOK, Tx, AdminLoc
<1>2. Pending \in SUBSET Id /\ Published \in SUBSET Id
  BY DEF Pending, Published, Rows
<1>3. tx[a].wrote \in SUBSET Id /\ tx[a].wrote \subseteq Rows
  BY <1>1 DEF Tx, Formed, JobsFormed
<1>4. CASE FindPublished(a)
  <2>1. Published \ {job[a].rel} \in SUBSET Id /\ {} \in SUBSET Id BY <1>2
  <2> QED BY <1>1, <1>4, <2>1, InTxFormed DEF FindPublished, Holding
<1>5. CASE Retire(a)
  <2>1. tx[a].found \cap Published \in SUBSET Id /\ {} \in SUBSET Id BY <1>2
  <2>2. tx[a].found \cap Published \subseteq Rows BY DEF Published
  <2> QED BY <1>1, <1>5, <2>1, <2>2, InTxFormed DEF Retire, Holding
<1>6. CASE FindPending(a)
  <2>1. Pending \ {job[a].rel} \in SUBSET Id BY <1>2
  <2> QED BY <1>1, <1>3, <1>6, <2>1, InTxFormed DEF FindPending, Holding
<1>7. CASE FindRejected(a)
  <2>1. {} \in SUBSET Id OBVIOUS
  <2> QED BY <1>1, <1>2, <1>7, <2>1, InTxFormed DEF FindRejected, Holding
<1> QED BY <1>4, <1>5, <1>6, <1>7

LEMMA ReviewWritesFormed ==
    ASSUME Formed, NEW a \in Admins,
           Activate(a) \/ RecordApproval(a) \/ Reject(a) \/ Refuse(a),
           UNCHANGED <<row, draft, idem>>
    PROVE  Formed' /\ Rows' = Rows
<1>1. a \in Proc /\ job[a] \in Job /\ NoJob \in Job
  BY NoJobType DEF Proc, Formed, TypeOK
<1> DEFINE Tenant == [status : {"draft", "published", "suspended", "rejected"},
                      appStatus : {"none", "in_review", "approved", "rejected"},
                      active : Id \cup {None}]
<1>2. tenant \in Tenant BY DEF Formed, TypeOK
<1>3. CASE Activate(a)
  <2>1. job[a].rel \in Rows /\ Rows \subseteq Id
    BY <1>1, <1>3 DEF Activate, Formed, JobsFormed, Rows, Holding
  <2>2. tenant' \in Tenant BY <1>3, <2>1 DEF Activate
  <2>3. status' \in [Id -> Status \cup {"absent"}]
    BY <1>3 DEF Activate, AfterActivation, Formed, TypeOK, Status
  <2>4. Rows' = Rows
    <3>1. Publishes(a) \subseteq Rows /\ tx[a].wrote \subseteq Rows /\ Pending \subseteq Rows
      BY <1>1, <2>1 DEF Publishes, Pending, Formed, JobsFormed
    <3>2. \A r \in Id : status'[r] \in {status[r], "published", "superseded"}
                       /\ (status'[r] # status[r] => r \in Rows)
      BY <1>3, <3>1 DEF Activate, AfterActivation
    <3> QED BY <3>2 DEF Rows
  <2> QED BY <1>1, <1>3, <2>1, <2>2, <2>3, <2>4, RowsKept DEF Activate, AdminLoc, Formed, TypeOK
<1>4. CASE RecordApproval(a)
  <2>1. tenant' \in Tenant BY <1>2, <1>4 DEF RecordApproval
  <2>2. Rows' = Rows BY <1>4 DEF RecordApproval, Rows
  <2> QED BY <1>1, <1>4, <2>1, <2>2, RowsKept DEF RecordApproval, Done, MerchantLoc, Formed, TypeOK
<1>5. CASE Reject(a)
  <2>1. tenant' \in Tenant BY <1>2, <1>5 DEF Reject
  <2>2. status' \in [Id -> Status \cup {"absent"}] /\ Rows' = Rows
    BY <1>5 DEF Reject, Rows, Pending, Formed, TypeOK, Status
  <2> QED BY <1>1, <1>5, <2>1, <2>2, RowsKept DEF Reject, Done, MerchantLoc, Formed, TypeOK
<1>6. CASE Refuse(a)
  <2>1. tenant' \in Tenant BY <1>2, <1>6 DEF Refuse
  <2>2. Rows' = Rows BY <1>6 DEF Refuse, Rows
  <2> QED BY <1>1, <1>6, <2>1, <2>2, RowsKept DEF Refuse, Done, MerchantLoc, Formed, TypeOK
<1> QED BY <1>3, <1>4, <1>5, <1>6 DEF RecordApproval, Refuse, Rows, Reject, Activate

LEMMA FormedInv == Formed /\ [Next]_vars => Formed'
<1> SUFFICES ASSUME Formed, [Next]_vars PROVE Formed' OBVIOUS
<1>1. ASSUME NEW m \in Merchants, MerchantStep(m) PROVE Formed'
  BY <1>1, MerchantFormed
<1>2. ASSUME NEW a \in Admins, NEW s \in {"draft", "suspended", "rejected"}, SetTenantStatus(a, s),
             UNCHANGED <<row, draft, idem>>
      PROVE  Formed'
  BY <1>2 DEF SetTenantStatus, Formed, TypeOK, RowsFormed, JobsFormed, Rows
<1>3. ASSUME NEW a \in Admins, AdminStep(a) PROVE Formed'
  BY <1>2, <1>3, ReviewReadsFormed, StatementsFormed, ReviewWritesFormed DEF AdminStep
<1>4. ASSUME NEW k \in Keys, ExpireKey(k) PROVE Formed'
  BY <1>4 DEF ExpireKey, Formed, TypeOK, RowsFormed, JobsFormed, Rows
<1>5. ASSUME NEW p \in Proc, Fail(p) PROVE Formed'
  BY <1>5, MovesToEnd DEF Fail
<1>6. CASE UNCHANGED vars
  BY <1>6 DEF vars, Formed, TypeOK, RowsFormed, JobsFormed, Rows
<1> QED BY <1>1, <1>3, <1>4, <1>5, <1>6 DEF Next

(* Every column and every local of a request always holds a value of its   *)
(* type, whatever the requests and however they interleave.                *)
THEOREM TypeCorrect == Spec => []TypeOK
<1>1. Formed => TypeOK BY DEF Formed
<1> QED BY InitFormed, FormedInv, <1>1, PTL DEF Spec

-----------------------------------------------------------------------------
(* A submission begins at one of two places and leaves the tables alone.   *)
LEMMA SubmissionBegins ==
    ASSUME NEW m \in Merchants,
           \E op \in MerchantOps, c \in Content, k \in Keys \cup {None} :
              \/ \E v \in AskedVersion \cup {None} : SubmitManifest(m, op, c, v, k)
              \/ SubmitDrafts(m, op, c, k)
    PROVE  /\ UNCHANGED <<status, row, tenant, draft, idem>>
           /\ \E loc \in {"latest", "compile"} : \E j : Goto(m, loc, j)
<1>1. ASSUME NEW op, NEW c, NEW v, NEW k, SubmitManifest(m, op, c, v, k)
      PROVE  /\ UNCHANGED <<status, row, tenant, draft, idem>>
             /\ \E loc \in {"latest", "compile"} : \E j : Goto(m, loc, j)
  BY <1>1, Zenon DEF SubmitManifest
<1>2. ASSUME NEW op, NEW c, NEW k, SubmitDrafts(m, op, c, k)
      PROVE  /\ UNCHANGED <<status, row, tenant, draft, idem>>
             /\ \E loc \in {"latest", "compile"} : \E j : Goto(m, loc, j)
  BY <1>2, Zenon DEF SubmitDrafts
<1> QED BY <1>1, <1>2, Zenon

(* How a step may change the tables: a row's status moves, or one row is   *)
(* inserted; nothing else touches `releases`.                              *)
LEMMA RowsGrow ==
    ASSUME Formed, [Next]_vars
    PROVE  \/ Rows' = Rows /\ row' = row
           \/ \E m \in Merchants, r \in Id : Insert(m, r)
<1>1. ASSUME NEW m \in Merchants, MerchantStep(m),
             ~ \E r \in Id : Insert(m, r)
      PROVE  Rows' = Rows /\ row' = row
  <2>0. CASE FindOlder(m) BY <2>0 DEF FindOlder, Rows
  <2>1. CASE Supersede(m)
    BY <2>1 DEF Supersede, AfterSubmission, Rows, Pending, Formed, TypeOK
  <2>2. CASE \E op \in MerchantOps, c \in Content, k \in Keys \cup {None} :
                \/ \E v \in AskedVersion \cup {None} : SubmitManifest(m, op, c, v, k)
                \/ SubmitDrafts(m, op, c, k)
    BY <2>2, SubmissionBegins DEF Rows
  <2>3. CASE \E r \in Id : Rollback(m, r)
    BY <2>3 DEF Rollback, Rows
  <2>4. CASE Compile(m) \/ ReadLatest(m) \/ ReadClash(m)
    BY <2>4 DEF Compile, ReadLatest, ReadClash, Rows
  <2>5. CASE InsertRefused(m) \/ SaveDraft(m) \/ MarkSubmitted(m) \/ Finish(m)
    BY <2>5 DEF InsertRefused, SaveDraft, MarkSubmitted, Finish, Rows
  <2> QED BY <1>1, <2>0, <2>1, <2>2, <2>3, <2>4, <2>5 DEF MerchantStep
<1>2. ASSUME NEW a \in Admins, AdminStep(a)
      PROVE  Rows' = Rows /\ row' = row
  <2>1. CASE Activate(a) \/ RecordApproval(a) \/ Reject(a) \/ Refuse(a)
    BY <1>2, <2>1, ReviewWritesFormed DEF AdminStep, Activate, RecordApproval, Reject, Refuse
  <2>2. CASE FindPublished(a) \/ Retire(a) \/ FindPending(a) \/ FindRejected(a)
    BY <1>2, <2>2, StatementsFormed DEF AdminStep
  <2> QED BY <1>2, <2>1, <2>2 DEF AdminStep, Preview, Approve, CheckSubmitted, PickCandidate,
          RereadCandidate, CheckReject, CheckRefuse, SetTenantStatus, Rows
<1>3. CASE (\E k \in Keys : ExpireKey(k)) \/ (\E p \in Proc : Fail(p)) \/ UNCHANGED vars
  BY <1>3 DEF ExpireKey, Fail, vars, Rows
<1> QED BY <1>1, <1>2, <1>3 DEF Next

(* A merchant request moves on at every step, and only the two reads lead  *)
(* to the places where a version is being allocated.                       *)
LEMMA MerchantMoves ==
    ASSUME NEW m \in Merchants, MerchantStep(m)
    PROVE  \/ \E loc \in MerchantLoc \ {"clash", "create"} : \E j : Goto(m, loc, j)
           \/ \E found : InTx(m, "superseding", found, {})
           \/ (ReadLatest(m) \/ ReadClash(m)) /\ \E loc, j : Goto(m, loc, j)
<1> USE DEF Done, MerchantLoc
<1>0. CASE FindOlder(m) BY <1>0 DEF FindOlder
<1>1. CASE ReadLatest(m) BY <1>1 DEF ReadLatest
<1>2. CASE ReadClash(m) BY <1>2 DEF ReadClash
<1>3. CASE \E r \in Id : Rollback(m, r) \/ Insert(m, r)
  BY <1>3 DEF Rollback, Insert
<1>4. CASE Compile(m) BY <1>4 DEF Compile
<1>5. CASE InsertRefused(m) BY <1>5 DEF InsertRefused
<1>6. CASE SaveDraft(m) \/ Supersede(m) BY <1>6 DEF SaveDraft, Supersede
<1>7. CASE MarkSubmitted(m) \/ Finish(m) BY <1>7 DEF MarkSubmitted, Finish
<1>8. CASE \E op \in MerchantOps, c \in Content, k \in Keys \cup {None} :
              \/ \E v \in AskedVersion \cup {None} : SubmitManifest(m, op, c, v, k)
              \/ SubmitDrafts(m, op, c, k)
  <2>1. \E loc \in {"latest", "compile"} : \E j : Goto(m, loc, j)
    BY <1>8, SubmissionBegins
  <2> QED BY <2>1
<1> QED BY <1>0, <1>1, <1>2, <1>3, <1>4, <1>5, <1>6, <1>7, <1>8 DEF MerchantStep

(* A step moves at most the request that takes it.                         *)
LEMMA OthersKeep ==
    ASSUME Formed, [Next]_vars, NEW p \in Proc
    PROVE  \/ pc'[p] = pc[p] /\ job'[p] = job[p] /\ tx'[p] = tx[p]
           \/ p \in Merchants /\ MerchantStep(p)
           \/ p \in Admins /\ AdminStep(p)
           \/ pc'[p] = "idle" /\ UNCHANGED <<status, row, tenant>>
<1>1. ASSUME NEW m \in Merchants, MerchantStep(m), m # p
      PROVE  pc'[p] = pc[p] /\ job'[p] = job[p] /\ tx'[p] = tx[p]
  <2>1. (\E loc, j : Goto(m, loc, j)) \/ (\E found : InTx(m, "superseding", found, {}))
    BY <1>1, MerchantMoves
  <2> QED BY <1>1, <2>1 DEF Goto, InTx, Formed, TypeOK, Proc
<1> USE DEF Goto, Done, InTx, Formed, TypeOK
<1>2. ASSUME NEW a \in Admins, AdminStep(a), a # p
      PROVE  pc'[p] = pc[p] /\ job'[p] = job[p] /\ tx'[p] = tx[p]
  BY <1>2 DEF AdminStep, Preview, Approve, CheckSubmitted, PickCandidate, RereadCandidate,
        FindPublished, Retire, FindPending, Activate,
        RecordApproval, CheckReject, FindRejected, Reject, CheckRefuse, Refuse, SetTenantStatus
<1>3. ASSUME NEW q \in Proc, Fail(q)
      PROVE  \/ pc'[p] = pc[p] /\ job'[p] = job[p] /\ tx'[p] = tx[p]
             \/ pc'[p] = "idle" /\ UNCHANGED <<status, row, tenant>>
  BY <1>3 DEF Fail
<1>4. CASE (\E k \in Keys : ExpireKey(k)) \/ UNCHANGED vars
  BY <1>4 DEF ExpireKey, vars
<1> QED BY <1>1, <1>2, <1>3, <1>4 DEF Next

(* The release a request computed its version and build number from.       *)
Follows(j, q) ==
    j.build = row[q].build + 1 /\ j.next = NextVersion(row[q].version)

(* What a merchant request knows of the table while it allocates a version:*)
(* it follows a stored row, or it found the table empty; by the time it    *)
(* inserts, its version is the next one or is taken already.               *)
Allocates(m) ==
    /\ pc[m] = "clash" =>
          \/ job[m].next = None /\ job[m].build = 1
          \/ \E q \in Rows : Follows(job[m], q)
    /\ pc[m] = "create" =>
          \/ WithVersion(job[m].ver) # {}
          \/ job[m].build = 1
          \/ \E q \in Rows : Follows(job[m], q) /\ job[m].ver = job[m].next

UniqueVersions == \A r, q \in Rows : row[r].version = row[q].version => r = q

VersionInv ==
    /\ Formed
    /\ \A m \in Merchants : Allocates(m)
    /\ UniqueVersions
    /\ Rows # {} => Firsts # {}
    /\ VersionSequence

LEMMA InitVersionInv == Init => VersionInv
<1> SUFFICES ASSUME Init PROVE VersionInv OBVIOUS
<1>1. Rows = {} BY DEF Init, Rows
<1>2. \A m \in Merchants : Allocates(m)
  BY DEF Init, Allocates, Proc
<1> QED BY <1>1, <1>2, InitFormed DEF VersionInv, UniqueVersions, VersionSequence

(* Stored rows stay as they are, so what a request knew of them stays true.*)
LEMMA RowsStay ==
    ASSUME Formed, [Next]_vars
    PROVE  /\ Rows \subseteq Rows'
           /\ \A q \in Rows : row'[q] = row[q]
BY RowsGrow, InsertFormed

LEMMA AllocatesKept ==
    ASSUME Formed, [Next]_vars, NEW m \in Merchants, Allocates(m)
    PROVE  Allocates(m)'
<1>1. /\ m \in Proc /\ m \notin Admins
      /\ Rows \subseteq Rows' /\ \A q \in Rows : row'[q] = row[q]
  BY RowsStay DEF Proc
<1>2. \A v : WithVersion(v) # {} => WithVersion(v)' # {}
  BY <1>1 DEF WithVersion
<1>3. CASE pc'[m] = pc[m] /\ job'[m] = job[m]
  BY <1>1, <1>2, <1>3 DEF Allocates, Follows
<1>4. CASE ReadLatest(m)
  <2>1. job[m] \in Job /\ TypeOK BY <1>1 DEF Formed, TypeOK
  <2>2. ASSUME NEW b \in Nat, NEW n \in Version \cup {None},
               Goto(m, "clash", Allocated(job[m], b, n))
        PROVE  pc'[m] = "clash" /\ job'[m].build = b /\ job'[m].next = n
    BY <1>1, <2>1, <2>2, AllocatedType DEF Goto, TypeOK
  <2>3. CASE Goto(m, "clash", Allocated(job[m], 1, None))
    BY <2>2, <2>3 DEF Allocates
  <2>4. ASSUME NEW l \in Newest(Rows),
               Goto(m, "clash",
                    Allocated(job[m], row[l].build + 1, NextVersion(row[l].version)))
        PROVE  Allocates(m)'
    <3>1. l \in Rows /\ row[l].version \in Version /\ row[l].build + 1 \in Nat
      BY DEF Newest, Formed, RowsFormed, TypeOK, Row, Rows
    <3>2. NextVersion(row[l].version) \in Version BY <3>1, NextVersionType
    <3>3. /\ pc'[m] = "clash" /\ job'[m].build = row[l].build + 1
          /\ job'[m].next = NextVersion(row[l].version)
      BY <2>2, <2>4, <3>1, <3>2
    <3>4. Rows' = Rows /\ row' = row BY <1>4 DEF ReadLatest, Rows
    <3> QED BY <3>1, <3>3, <3>4 DEF Allocates, Follows
  <2> QED BY <1>4, <2>3, <2>4 DEF ReadLatest
<1>5. CASE ReadClash(m)
  <2>1. /\ job[m] \in Job /\ pc[m] = "clash" /\ Rows' = Rows /\ row' = row
        /\ pc \in [Proc -> MerchantLoc \cup AdminLoc] /\ job \in [Proc -> Job]
    BY <1>1, <1>5 DEF ReadClash, Formed, TypeOK, Rows
  <2>2. CASE Done(m)
    BY <1>1, <2>1, <2>2 DEF Done, Goto, Allocates
  <2>3. ASSUME NEW r \in WithVersion(job[m].ver),
               Goto(m, "create", [job[m] EXCEPT !.build = row[r].build])
        PROVE  Allocates(m)'
    <3>1. job'[m].ver = job[m].ver /\ pc'[m] = "create"
      BY <1>1, <2>1, <2>3 DEF Goto, Job
    <3> QED BY <3>1, <1>2 DEF Allocates
  <2>4. CASE Goto(m, "create", job[m]) /\ job[m].next \in {None, job[m].ver}
    <3>1. job'[m] = job[m] /\ pc'[m] = "create"
      BY <1>1, <2>1, <2>4 DEF Goto
    <3>2. job[m].ver # None BY <1>1, <2>1 DEF Formed, JobsFormed
    <3>3. job[m].next = None => job[m].build = 1
      <4>1. ASSUME NEW q \in Rows, Follows(job[m], q) PROVE job[m].next \in Version
        BY <4>1, NextVersionType DEF Follows, Formed, RowsFormed
      <4> QED BY <2>1, <4>1 DEF Allocates
    <3> QED BY <2>1, <2>4, <3>1, <3>2, <3>3 DEF Allocates, Follows
  <2> QED BY <1>5, <2>2, <2>3, <2>4 DEF ReadClash, InTurn
<1>6. CASE pc'[m] \notin {"clash", "create"}
  BY <1>6 DEF Allocates
<1>7. ASSUME MerchantStep(m), ~ ReadLatest(m), ~ ReadClash(m)
      PROVE  pc'[m] \notin {"clash", "create"}
  <2>1. \/ \E loc \in MerchantLoc \ {"clash", "create"} : \E j : Goto(m, loc, j)
        \/ \E found : InTx(m, "superseding", found, {})
    BY <1>7, MerchantMoves
  <2> QED BY <1>1, <2>1 DEF Goto, InTx, Formed, TypeOK
<1> QED BY <1>1, <1>3, <1>4, <1>5, <1>6, <1>7, OthersKeep

(* An insert is the first row, or continues the numbering of a stored one. *)
LEMMA InsertVersion ==
    ASSUME VersionInv, NEW m \in Merchants, NEW r \in Id, Insert(m, r)
    PROVE  /\ UniqueVersions'
           /\ (Rows # {} => Firsts # {})'
           /\ VersionSequence'
<1>1. /\ Formed' /\ Rows' = Rows \cup {r} /\ r \notin Rows
      /\ row'[r].version = job[m].ver /\ row'[r].build = job[m].build
      /\ \A q \in Rows : row'[q] = row[q]
      /\ pc[m] = "create" /\ WithVersion(job[m].ver) = {}
  BY InsertFormed DEF VersionInv, Insert
<1>2. UniqueVersions'
  BY <1>1 DEF UniqueVersions, VersionInv, WithVersion
<1>3. \/ job[m].build = 1
      \/ \E q \in Rows : Follows(job[m], q) /\ job[m].ver = NextVersion(row[q].version)
  BY <1>1 DEF VersionInv, Allocates, Follows
<1>4. Firsts \subseteq Firsts'
  BY <1>1 DEF Firsts
<1>5. (Rows # {} => Firsts # {})'
  <2>1. CASE job[m].build = 1 BY <1>1, <2>1 DEF Firsts
  <2>2. CASE Rows # {} BY <1>4, <2>2 DEF VersionInv
  <2> QED BY <1>3, <2>1, <2>2
<1>6. VersionSequence'
  <2> SUFFICES ASSUME OneFirst'
               PROVE  (\A p, q \in Rows :
                          /\ row[p].version.line = row[q].version.line
                          /\ row[p].version.patch + row[q].build = row[q].version.patch + row[p].build
                          /\ row[p].build = row[q].build => p = q)'
    BY DEF VersionSequence
  <2>1. OneFirst BY <1>4 DEF OneFirst
  <2>2. \A p \in Rows' : row'[p].version \in Version /\ row'[p].build \in Nat
    BY <1>1 DEF Formed, RowsFormed, TypeOK, Row, Rows
  <2>3. CASE job[m].build = 1
    <3>1. r \in Firsts' BY <1>1, <2>3 DEF Firsts
    <3>2. Rows = {}
      BY <1>1, <1>4, <3>1 DEF VersionInv, OneFirst, Firsts
    <3> QED BY <1>1, <2>2, <3>2 DEF Version
  <2>4. ASSUME NEW s \in Rows, Follows(job[m], s), job[m].ver = NextVersion(row[s].version)
        PROVE  /\ \A q \in Rows :
                    /\ job[m].ver.line = row[q].version.line
                    /\ job[m].ver.patch + row[q].build = row[q].version.patch + job[m].build
               /\ \A q \in Rows : row[q].build # job[m].build
    <3>1. /\ \A q \in Rows : /\ row[s].version.line = row[q].version.line
                             /\ row[s].version.patch + row[q].build
                                   = row[q].version.patch + row[s].build
                             /\ row[q].version \in Version /\ row[q].build \in Nat
          /\ job[m].ver.line = row[s].version.line
          /\ job[m].ver.patch = row[s].version.patch + 1
          /\ job[m].build = row[s].build + 1
      BY <2>1, <2>2, <1>1, <2>4, NextVersionType DEF VersionInv, VersionSequence, Follows
    <3>2. \A q \in Rows : row[q].version.patch \in Nat
      BY <3>1 DEF Version
    <3>3. \A q \in Rows :
             /\ job[m].ver.line = row[q].version.line
             /\ job[m].ver.patch + row[q].build = row[q].version.patch + job[m].build
      BY <3>1, <3>2
    <3>4. ASSUME NEW q \in Rows, row[q].build = job[m].build PROVE FALSE
      <4>1. row[q].version.patch = job[m].ver.patch
        BY <3>1, <3>2, <3>3, <3>4
      <4>2. row[q].version = job[m].ver
        BY <4>1, <3>1, <3>3, <2>4, NextVersionType DEF Version
      <4> QED BY <4>2, <1>1 DEF WithVersion
    <3> QED BY <3>3, <3>4
  <2>5. CASE \E s \in Rows : Follows(job[m], s) /\ job[m].ver = NextVersion(row[s].version)
    <3>1. \A q \in Rows :
             /\ job[m].ver.line = row[q].version.line
             /\ job[m].ver.patch + row[q].build = row[q].version.patch + job[m].build
             /\ row[q].build # job[m].build
      BY <2>4, <2>5
    <3>2. \A p, q \in Rows :
             /\ row[p].version.line = row[q].version.line
             /\ row[p].version.patch + row[q].build = row[q].version.patch + row[p].build
             /\ row[p].build = row[q].build => p = q
      BY <2>1 DEF VersionInv, VersionSequence
    <3>3. job[m].ver.patch \in Nat /\ job[m].build \in Nat
      BY <1>1, <2>2 DEF Version
    <3> QED BY <1>1, <3>1, <3>2, <3>3
  <2> QED BY <1>3, <2>3, <2>5
<1> QED BY <1>2, <1>5, <1>6

LEMMA VersionInvInv == VersionInv /\ [Next]_vars => VersionInv'
<1> SUFFICES ASSUME VersionInv, [Next]_vars PROVE VersionInv' OBVIOUS
<1>1. Formed' /\ \A m \in Merchants : Allocates(m)'
  BY FormedInv, AllocatesKept DEF VersionInv
<1>2. CASE Rows' = Rows /\ row' = row
  <2>1. UniqueVersions' /\ (Rows # {} => Firsts # {})' /\ VersionSequence'
    BY <1>2 DEF VersionInv, UniqueVersions, Firsts, OneFirst, VersionSequence
  <2> QED BY <1>1, <2>1 DEF VersionInv
<1>3. ASSUME NEW m \in Merchants, NEW r \in Id, Insert(m, r) PROVE VersionInv'
  BY <1>1, <1>3, InsertVersion DEF VersionInv
<1> QED BY <1>2, <1>3, RowsGrow DEF VersionInv

(* However submissions, retries and rollbacks interleave, the version and  *)
(* the build number of the releases advance together, without a repetition.*)
THEOREM VersionsInSequence == Spec => []VersionSequence
<1>1. VersionInv => VersionSequence BY DEF VersionInv
<1> QED BY InitVersionInv, VersionInvInv, <1>1, PTL DEF Spec

-----------------------------------------------------------------------------
(* Only four steps write the status of a release.                          *)
LEMMA StatusWrites ==
    ASSUME [Next]_vars
    PROVE  \/ status' = status
           \/ \E m \in Merchants, r \in Id : Insert(m, r)
           \/ \E m \in Merchants : Supersede(m)
           \/ \E a \in Admins : Activate(a) \/ Reject(a)
<1>1. ASSUME NEW m \in Merchants, MerchantStep(m),
             ~ Supersede(m), ~ \E r \in Id : Insert(m, r)
      PROVE  status' = status
  <2>1. CASE \E op \in MerchantOps, c \in Content, k \in Keys \cup {None} :
                \/ \E v \in AskedVersion \cup {None} : SubmitManifest(m, op, c, v, k)
                \/ SubmitDrafts(m, op, c, k)
    BY <2>1, SubmissionBegins
  <2>2. CASE \E r \in Id : Rollback(m, r)
    BY <2>2 DEF Rollback
  <2>3. CASE \/ Compile(m) \/ ReadLatest(m) \/ ReadClash(m) \/ InsertRefused(m) \/ SaveDraft(m)
             \/ FindOlder(m) \/ MarkSubmitted(m) \/ Finish(m)
    BY <2>3 DEF Compile, ReadLatest, ReadClash, InsertRefused, SaveDraft, FindOlder, MarkSubmitted, Finish
  <2> QED BY <1>1, <2>1, <2>2, <2>3, Zenon DEF MerchantStep
<1>2. ASSUME NEW a \in Admins, AdminStep(a), ~ Activate(a), ~ Reject(a)
      PROVE  status' = status
  BY <1>2 DEF AdminStep, Preview, Approve, CheckSubmitted, PickCandidate, RereadCandidate,
     FindPublished, Retire, FindPending, FindRejected, RecordApproval, CheckReject, CheckRefuse,
     Refuse, SetTenantStatus
<1>3. CASE (\E k \in Keys : ExpireKey(k)) \/ (\E p \in Proc : Fail(p)) \/ UNCHANGED vars
  BY <1>3 DEF ExpireKey, Fail, vars
<1> QED BY <1>1, <1>2, <1>3 DEF Next

(* Only an activation publishes a release.                                 *)
LEMMA PublishedKept ==
    ASSUME Formed, [Next]_vars, ~ \E a \in Admins : Activate(a)
    PROVE  Published' = Published
<1>1. CASE status' = status BY <1>1 DEF Published, Rows
<1>2. ASSUME NEW m \in Merchants, NEW r \in Id, Insert(m, r) PROVE Published' = Published
  BY <1>2 DEF Insert, Published, Rows, Formed, TypeOK
<1>3. ASSUME NEW m \in Merchants, Supersede(m) PROVE Published' = Published
  BY <1>3 DEF Supersede, AfterSubmission, Published, Pending, Rows, Formed, TypeOK
<1>4. ASSUME NEW a \in Admins, Reject(a) PROVE Published' = Published
  BY <1>4 DEF Reject, Published, Pending, Rows, Formed, TypeOK
<1> QED BY <1>1, <1>2, <1>3, <1>4, StatusWrites

LEMMA ActivateWrites ==
    ASSUME Formed, NEW a \in Admins, Activate(a)
    PROVE  /\ job[a].rel \in Rows /\ Rows' = Rows
           /\ Pending' \subseteq Pending \ tx[a].found
           /\ tenant'.active = job[a].rel
           /\ job[a].seen # "published" =>
                 /\ job[a].rel \in Published' /\ job[a].rel \notin Pending'
                 /\ Published' \ {job[a].rel} \subseteq Published \ tx[a].wrote
<1>1. /\ job[a].rel \in Rows /\ a \in Proc
      /\ tx[a].wrote \subseteq Rows /\ Pending \subseteq Rows /\ Rows \subseteq Id
  BY DEF Activate, Formed, JobsFormed, Proc, Pending, Rows
<1>2. Publishes(a) \subseteq Rows BY <1>1 DEF Publishes
<1>3. /\ status \in [Id -> Status \cup {"absent"}] /\ status' = AfterActivation(a)
      /\ tenant'.active = job[a].rel
  BY DEF Activate, Formed, TypeOK
<1>4. \A r \in Id :
         status'[r] = IF r \in Publishes(a) THEN "published"
                      ELSE IF r \in tx[a].wrote \cup (tx[a].found \cap Pending) THEN "superseded"
                      ELSE status[r]
  BY <1>3 DEF AfterActivation
<1>5. Rows' = Rows BY <1>1, <1>2, <1>4 DEF Rows
<1>6. Pending' \subseteq Pending \ tx[a].found
  BY <1>1, <1>4, <1>5 DEF Pending
<1>7. ASSUME job[a].seen # "published"
      PROVE  /\ job[a].rel \in Published' /\ job[a].rel \notin Pending'
             /\ Published' \ {job[a].rel} \subseteq Published \ tx[a].wrote
  <2>1. Publishes(a) = {job[a].rel} BY <1>7 DEF Publishes
  <2> QED BY <1>1, <1>4, <1>5, <2>1 DEF Published, Pending
<1> QED BY <1>1, <1>3, <1>5, <1>6, <1>7

(* Rows are created in order.                                              *)
InOrder == \A r \in Rows, q \in Id : q < r => q \in Rows

LEMMA InOrderKept ==
    ASSUME Formed, InOrder, [Next]_vars
    PROVE  InOrder'
<1>1. CASE Rows' = Rows BY <1>1 DEF InOrder
<1>2. ASSUME NEW m \in Merchants, NEW n \in Id, Insert(m, n)
      PROVE  InOrder'
  <2>1. Rows' = Rows \cup {n} /\ \A q \in Id : q < n => q \in Rows
    BY <1>2, InsertFormed DEF Insert
  <2> QED BY <2>1 DEF InOrder
<1> QED BY <1>1, <1>2, RowsGrow

-----------------------------------------------------------------------------
(* With one administrator deciding at a time.                              *)
OneAdmin == \A a, b \in Admins : a = b

(* The candidate an approval is about to activate.                         *)
Approving == {"reread", "activate", "retire", "unqueue", "commit"}
Picked == {job[a].rel : a \in {b \in Admins : pc[b] \in Approving}}

(* What the statements of an activation have found still holds when it     *)
(* commits: nothing else publishes, and candidates only arrive.            *)
ApprovalInv ==
    \A a \in Admins :
        /\ pc[a] \in Approving \ {"reread"} => job[a].seen # "published"
        /\ pc[a] = "retire" => Published \subseteq tx[a].found
        /\ pc[a] \in {"unqueue", "commit"} => Published \subseteq tx[a].wrote
        /\ pc[a] = "commit" => \A r \in Pending \ tx[a].found : job[a].rel <= r

(* Everything that may still be activated came after what is live, and the *)
(* tenant points at what is live.                                          *)
ForwardInv ==
    /\ Formed
    /\ OneLive
    /\ InOrder
    /\ \A r \in Pending \cup Picked, q \in Published : q < r
    /\ ApprovalInv
    /\ tenant.active = None => Published = {}
    /\ ActiveIsPublished

LEMMA InitForwardInv == Init => ForwardInv
<1> SUFFICES ASSUME Init PROVE ForwardInv OBVIOUS
<1>1. Rows = {} /\ \A p \in Proc : pc[p] = "idle"
  BY DEF Init, Rows
<1>2. Picked = {} /\ Published = {} /\ Pending = {}
  BY <1>1 DEF Picked, Approving, Proc, Published, Pending
<1> QED BY <1>1, <1>2, InitFormed DEF ForwardInv, InOrder, OneLive, ActiveIsPublished, ApprovalInv, Approving, Init, Proc

LEMMA AdminMoves ==
    ASSUME NEW a \in Admins, AdminStep(a)
    PROVE  \/ \E loc \in {"idle", "previewed", "submitted", "candidate", "record", "reject",
                          "refuse"} : \E j : Goto(a, loc, j)
           \/ \E r \in Newest(Pending) : Goto(a, "reread", [job[a] EXCEPT !.rel = r])
           \/ /\ pc[a] = "reread"
              /\ Goto(a, "activate", [job[a] EXCEPT !.seen = status[job[a].rel]])
           \/ FindPublished(a) \/ Retire(a) \/ FindPending(a)
           \/ \E S : InTx(a, "rejecting", S, {})
           \/ UNCHANGED <<pc, job, tx>>
BY DEF AdminStep, Preview, Approve, CheckSubmitted, PickCandidate, RereadCandidate, Activate,
   RecordApproval, CheckReject, FindRejected, Reject, CheckRefuse, Refuse, SetTenantStatus, Done

(* An approval picks what is pending, re-reads what it picked and runs its *)
(* transaction.                                                            *)
LEMMA ApprovalProgress ==
    ASSUME Formed, [Next]_vars, NEW a \in Admins, pc'[a] \in Approving
    PROVE  \/ pc[a] = pc'[a] /\ job[a] = job'[a] /\ tx[a] = tx'[a]
           \/ pc'[a] = "reread" /\ job'[a].rel \in Pending
           \/ /\ pc[a] = "reread" /\ pc'[a] = "activate" /\ job'[a].rel = job[a].rel
              /\ job'[a].seen = status[job[a].rel]
           \/ FindPublished(a) \/ Retire(a) \/ FindPending(a)
<1>1. /\ a \in Proc /\ a \notin Merchants /\ job[a] \in Job
      /\ pc \in [Proc -> MerchantLoc \cup AdminLoc] /\ job \in [Proc -> Job]
  BY DEF Proc, Formed, TypeOK
<1>2. CASE AdminStep(a)
  <2>1. CASE \E loc \in {"idle", "previewed", "submitted", "candidate", "record", "reject",
                         "refuse"} : \E j : Goto(a, loc, j)
    BY <1>1, <2>1 DEF Goto, Approving
  <2>2. ASSUME NEW r \in Newest(Pending), Goto(a, "reread", [job[a] EXCEPT !.rel = r])
        PROVE  pc'[a] = "reread" /\ job'[a].rel \in Pending
    BY <1>1, <2>2 DEF Goto, Newest, Job
  <2>3. CASE /\ pc[a] = "reread"
             /\ Goto(a, "activate", [job[a] EXCEPT !.seen = status[job[a].rel]])
    BY <1>1, <2>3 DEF Goto, Job
  <2>4. ASSUME NEW S, InTx(a, "rejecting", S, {}) PROVE FALSE
    BY <1>1, <2>4 DEF InTx, Approving
  <2> QED BY <1>2, <2>1, <2>2, <2>3, <2>4, AdminMoves
<1> QED BY <1>1, <1>2, OthersKeep DEF Approving

LEMMA StatementsMove ==
    ASSUME Formed, NEW a \in Admins
    PROVE  /\ FindPublished(a) =>
                 /\ pc[a] = "activate" /\ pc'[a] = "retire" /\ job' = job /\ status' = status
                 /\ tx'[a].found = Published \ {job[a].rel} /\ tx'[a].wrote = {}
           /\ Retire(a) =>
                 /\ pc[a] = "retire" /\ pc'[a] = "unqueue" /\ job' = job /\ status' = status
                 /\ tx'[a].found = {} /\ tx'[a].wrote = tx[a].found \cap Published
           /\ FindPending(a) =>
                 /\ pc[a] = "unqueue" /\ pc'[a] = "commit" /\ job' = job /\ status' = status
                 /\ tx'[a].found = Pending \ {job[a].rel} /\ tx'[a].wrote = tx[a].wrote
           /\ FindRejected(a) =>
                 /\ pc[a] = "reject" /\ pc'[a] = "rejecting" /\ job' = job /\ status' = status
                 /\ tx'[a].found = Pending /\ tx'[a].wrote = {}
<1>1. a \in Proc /\ DOMAIN pc = Proc /\ DOMAIN tx = Proc
  BY DEF Proc, Formed, TypeOK
<1>2. ASSUME NEW loc, NEW S, NEW W, InTx(a, loc, S, W)
      PROVE  pc'[a] = loc /\ job' = job /\ tx'[a].found = S /\ tx'[a].wrote = W
  BY <1>1, <1>2 DEF InTx, Formed, TypeOK
<1> QED BY <1>2 DEF FindPublished, Retire, FindPending, FindRejected

LEMMA PickedProgress ==
    ASSUME Formed, [Next]_vars
    PROVE  Picked' \subseteq Picked \cup Pending
<1> SUFFICES ASSUME NEW a \in Admins, pc'[a] \in Approving
             PROVE  job'[a].rel \in Picked \cup Pending
  BY DEF Picked
<1> QED BY ApprovalProgress, StatementsMove DEF Picked, Approving

LEMMA ActivateEnds ==
    ASSUME Formed, OneAdmin, NEW a \in Admins, Activate(a)
    PROVE  /\ Picked' = {}
           /\ \A b \in Admins : pc'[b] = "record"
<1>1. pc'[a] = "record"
  BY DEF Activate, Goto, Formed, TypeOK, Proc
<1> QED BY <1>1 DEF Picked, OneAdmin, Approving

LEMMA PointerKept ==
    ASSUME Formed, [Next]_vars, ~ \E a \in Admins : Activate(a)
    PROVE  tenant'.active = tenant.active
<1>1. ASSUME NEW x, tenant' = [tenant EXCEPT !.appStatus = x] \/ tenant' = [tenant EXCEPT !.status = x]
      PROVE  tenant'.active = tenant.active
  BY <1>1 DEF Formed, TypeOK
<1>2. ASSUME NEW m \in Merchants, MerchantStep(m) PROVE tenant'.active = tenant.active
  <2>1. CASE MarkSubmitted(m) BY <1>1, <2>1 DEF MarkSubmitted
  <2>2. CASE Finish(m) BY <2>2 DEF Finish, Formed, TypeOK
  <2>3. CASE \E op \in MerchantOps, c \in Content, k \in Keys \cup {None} :
                \/ \E v \in AskedVersion \cup {None} : SubmitManifest(m, op, c, v, k)
                \/ SubmitDrafts(m, op, c, k)
    BY <2>3, SubmissionBegins
  <2>4. CASE \E r \in Id : Rollback(m, r) \/ Insert(m, r)
    BY <2>4 DEF Rollback, Insert
  <2>5. CASE \/ Compile(m) \/ ReadLatest(m) \/ ReadClash(m) \/ InsertRefused(m) \/ SaveDraft(m)
             \/ FindOlder(m) \/ Supersede(m)
    BY <2>5 DEF Compile, ReadLatest, ReadClash, InsertRefused, SaveDraft, FindOlder, Supersede
  <2> QED BY <1>2, <2>1, <2>2, <2>3, <2>4, <2>5, Zenon DEF MerchantStep
<1>3. ASSUME NEW a \in Admins, AdminStep(a) PROVE tenant'.active = tenant.active
  <2>1. CASE RecordApproval(a) \/ Reject(a) \/ Refuse(a)
    BY <1>1, <2>1 DEF RecordApproval, Reject, Refuse
  <2>2. CASE \E s \in {"draft", "suspended", "rejected"} : SetTenantStatus(a, s)
    BY <1>1, <2>2 DEF SetTenantStatus
  <2> QED BY <1>3, <2>1, <2>2 DEF AdminStep, Preview, Approve, CheckSubmitted, PickCandidate,
          RereadCandidate, FindPublished, Retire, FindPending, CheckReject, FindRejected, CheckRefuse
<1>4. CASE (\E k \in Keys : ExpireKey(k)) \/ (\E p \in Proc : Fail(p)) \/ UNCHANGED vars
  BY <1>4 DEF ExpireKey, Fail, vars
<1> QED BY <1>2, <1>3, <1>4 DEF Next

(* A pending row was pending before, or is the newest row of all.          *)
LEMMA PendingGrows ==
    ASSUME Formed, [Next]_vars, ~ \E a \in Admins : Activate(a), NEW r \in Pending'
    PROVE  \/ r \in Pending
           \/ \E m \in Merchants : r \in Id /\ Insert(m, r)
<1>1. CASE status' = status BY <1>1 DEF Pending, Rows
<1>2. ASSUME NEW m \in Merchants, NEW q \in Id, Insert(m, q), q # r PROVE r \in Pending
  BY <1>2 DEF Insert, Pending, Rows, Formed, TypeOK
<1>3. ASSUME NEW m \in Merchants, Supersede(m) PROVE r \in Pending
  BY <1>3 DEF Supersede, AfterSubmission, Pending, Rows, Formed, TypeOK
<1>4. ASSUME NEW a \in Admins, Reject(a) PROVE r \in Pending
  BY <1>4 DEF Reject, Pending, Rows, Formed, TypeOK
<1>5. r \in Id BY DEF Pending, Rows
<1> QED BY <1>1, <1>2, <1>3, <1>4, <1>5, StatusWrites

(* Without a commit nothing is published, and what is new in the queue is  *)
(* newer than everything.                                                  *)
LEMMA ApprovalKept ==
    ASSUME ForwardInv, [Next]_vars, ~ \E a \in Admins : Activate(a)
    PROVE  ApprovalInv'
<1>1. /\ Formed /\ Published' = Published /\ Rows \subseteq Id /\ Pending \subseteq Rows
      /\ \A x \in Id : x \in Nat
  BY PublishedKept DEF ForwardInv, Rows, Pending, Id
<1> SUFFICES ASSUME NEW a \in Admins, pc'[a] \in Approving \ {"reread"}
             PROVE  /\ job'[a].seen # "published"
                    /\ pc'[a] = "retire" => Published \subseteq tx'[a].found
                    /\ pc'[a] \in {"unqueue", "commit"} => Published \subseteq tx'[a].wrote
                    /\ pc'[a] = "commit" => \A r \in Pending' \ tx'[a].found : job'[a].rel <= r
  BY <1>1 DEF ApprovalInv, Approving
<1>2. pc[a] \in Approving => job[a].rel \in Rows /\ job[a].rel \in Picked
  BY <1>1 DEF Formed, JobsFormed, Proc, Picked, Approving
<1>3. pc[a] \in Approving => job[a].rel \notin Published
  <2>1. \A x \in Id : ~ x < x BY DEF Id
  <2> QED BY <1>1, <1>2, <2>1 DEF ForwardInv
<1>4. CASE pc[a] = pc'[a] /\ job[a] = job'[a] /\ tx[a] = tx'[a]
  <2>1. ASSUME pc'[a] = "commit", NEW r \in Pending' \ tx'[a].found PROVE job[a].rel <= r
    <3>1. CASE r \in Pending BY <1>4, <2>1, <3>1 DEF ForwardInv, ApprovalInv
    <3>2. ASSUME NEW m \in Merchants, r \in Id, Insert(m, r) PROVE job[a].rel <= r
      <4>1. job[a].rel \in Rows /\ r \notin Rows
        BY <1>2, <1>4, <3>2 DEF Insert
      <4>2. ~ r < job[a].rel BY <4>1, <3>2 DEF ForwardInv, InOrder
      <4>3. job[a].rel \in Nat /\ r \in Nat BY <1>1, <3>2, <4>1
      <4> QED BY <4>2, <4>3
    <3> QED BY <1>1, <2>1, <3>1, <3>2, PendingGrows
  <2> QED BY <1>4, <2>1 DEF ForwardInv, ApprovalInv
<1>5. CASE /\ pc[a] = "reread" /\ pc'[a] = "activate"
           /\ job'[a].seen = status[job[a].rel]
  BY <1>2, <1>3, <1>5 DEF Published, Approving
<1>6. CASE FindPublished(a)
  BY <1>1, <1>3, <1>6, StatementsMove DEF ForwardInv, ApprovalInv, Approving
<1>7. CASE Retire(a)
  BY <1>1, <1>7, StatementsMove DEF ForwardInv, ApprovalInv, Approving
<1>8. CASE FindPending(a)
  <2>1. /\ pc[a] = "unqueue" /\ pc'[a] = "commit" /\ job' = job /\ status' = status
        /\ tx'[a].found = Pending \ {job[a].rel} /\ tx'[a].wrote = tx[a].wrote
    BY <1>1, <1>8, StatementsMove
  <2>2. Pending' = Pending
    BY <2>1 DEF Pending, Rows
  <2>3. \A x \in Id : x <= x BY DEF Id
  <2>4. job[a].rel \in Id BY <1>1, <1>2, <2>1 DEF Approving
  <2> QED BY <2>1, <2>2, <2>3, <2>4 DEF ForwardInv, ApprovalInv, Approving
<1> QED BY <1>1, <1>4, <1>5, <1>6, <1>7, <1>8, ApprovalProgress DEF Approving

LEMMA ForwardInvInv ==
    ASSUME OneAdmin, ForwardInv, [Next]_vars
    PROVE  ForwardInv'
<1>1. Formed /\ Formed' /\ Rows \subseteq Rows' /\ Rows \subseteq Id /\ Published \subseteq Rows
  BY FormedInv, RowsStay DEF ForwardInv, Rows, Published
<1>2. InOrder'
  BY <1>1, InOrderKept DEF ForwardInv
<1>4. ASSUME NEW a \in Admins, Activate(a) PROVE ForwardInv'
  <2> DEFINE c == job[a].rel
  <2>1. /\ job[a].seen # "published" /\ Published \subseteq tx[a].wrote
        /\ \A r \in Pending \ tx[a].found : c <= r
    BY <1>4 DEF Activate, ForwardInv, ApprovalInv, Approving
  <2>2. /\ Published' = {c} /\ Picked' = {} /\ tenant'.active = c /\ c \in Rows
        /\ Pending' \subseteq Pending \ tx[a].found /\ c \notin Pending'
    BY <1>1, <1>4, <2>1, ActivateWrites, ActivateEnds
  <2>3. ApprovalInv'
    BY <1>1, <1>4, ActivateEnds DEF ApprovalInv, Approving
  <2> HIDE DEF c
  <2>4. \A r \in Pending' : c < r
    <3>1. Pending \subseteq Id BY DEF Pending, Rows
    <3> QED BY <1>1, <2>1, <2>2, <3>1 DEF Id
  <2>5. OneLive' /\ ActiveIsPublished' /\ (tenant.active = None => Published = {})'
    <3>1. c \in Id BY <1>1, <2>2
    <3> QED BY <2>2, <3>1 DEF OneLive, ActiveIsPublished
  <2> QED BY <1>1, <1>2, <2>2, <2>3, <2>4, <2>5 DEF ForwardInv
<1>5. CASE ~ \E a \in Admins : Activate(a)
  <2>1. Published' = Published /\ tenant'.active = tenant.active
    BY <1>1, <1>5, PublishedKept, PointerKept
  <2>2. OneLive' /\ ActiveIsPublished' /\ (tenant.active = None => Published = {})'
    BY <2>1 DEF ForwardInv, OneLive, ActiveIsPublished
  <2>3. ASSUME NEW r \in Pending' \cup Picked', NEW q \in Published' PROVE q < r
    <3>1. CASE r \in Pending \cup Picked BY <2>1, <3>1 DEF ForwardInv
    <3>2. ASSUME NEW m \in Merchants, r \in Id, Insert(m, r) PROVE q < r
      <4>1. q \in Rows /\ r \notin Rows /\ q \in Id
        BY <1>1, <2>1, <3>2 DEF Insert
      <4>2. ~ r < q BY <4>1, <3>2 DEF ForwardInv, InOrder
      <4> QED BY <4>1, <4>2, <3>2 DEF Id
    <3> QED BY <1>1, <1>5, <3>1, <3>2, PendingGrows, PickedProgress
  <2> QED BY <1>1, <1>2, <1>5, <2>2, <2>3, ApprovalKept DEF ForwardInv
<1> QED BY <1>4, <1>5

(* With one administrator deciding at a time, submissions that overlap the *)
(* activation's transaction and requests that die anywhere leave at most   *)
(* one published release (two activations that overlap can leave two).     *)
THEOREM OneLiveRelease == ASSUME OneAdmin PROVE Spec => []OneLive
<1>1. ForwardInv /\ [Next]_vars => ForwardInv' BY ForwardInvInv
<1>2. ForwardInv => OneLive BY DEF ForwardInv
<1> QED BY InitForwardInv, <1>1, <1>2, PTL DEF Spec

(* With one administrator deciding at a time the tenant's pointer always   *)
(* names a published release (two administrators can leave it dangling).   *)
THEOREM OneAdminActive == ASSUME OneAdmin PROVE Spec => []ActiveIsPublished
<1>1. ForwardInv /\ [Next]_vars => ForwardInv' BY ForwardInvInv
<1>2. ForwardInv => ActiveIsPublished BY DEF ForwardInv
<1> QED BY InitForwardInv, <1>1, <1>2, PTL DEF Spec

-----------------------------------------------------------------------------
(* The refinement of LiveApp.                                              *)

LEMMA RowsFinite ==
    /\ IsFiniteSet(Rows) /\ RowCount \in Nat
    /\ \A r \in Rows : (\A q \in Id : q < r => q \in Rows) => r <= RowCount
<1>1. IsFiniteSet(Id) BY FS_Interval DEF Id
<1>2. IsFiniteSet(Rows) /\ RowCount \in Nat
  BY <1>1, FS_Subset, FS_CardinalityType DEF Rows, RowCount
<1>3. ASSUME NEW r \in Rows, \A q \in Id : q < r => q \in Rows PROVE r <= RowCount
  <2>1. r \in Int /\ r >= 1 /\ 1 .. r \subseteq Rows
    BY <1>3 DEF Rows, Id
  <2>2. Cardinality(1 .. r) = r BY <2>1, FS_Interval
  <2> QED BY <1>2, <2>1, <2>2, FS_Subset DEF RowCount
<1> QED BY <1>2, <1>3

LEMMA LiveStep ==
    ASSUME OneAdmin, ForwardInv, [Next]_vars
    PROVE  [App!Next]_(App!vars)
<1>1. Formed /\ ForwardInv' /\ Rows \subseteq Id /\ Published \subseteq Rows
  BY ForwardInvInv DEF ForwardInv, Rows, Published
<1>2. CASE ~ \E a \in Admins : Activate(a)
  <2>1. LiveRow' = LiveRow
    <3>1. Published' = Published BY <1>1, <1>2, PublishedKept
    <3>2. CASE Published = {} BY <3>1, <3>2 DEF LiveRow
    <3>3. ASSUME NEW r \in Published PROVE LiveRow' = LiveRow
      <4>1. Published = {r} BY <3>3 DEF ForwardInv, OneLive
      <4>2. LiveRow = r BY <4>1 DEF LiveRow
      <4>3. LiveRow' = r BY <3>1, <4>1 DEF LiveRow
      <4> QED BY <4>2, <4>3
    <3> QED BY <3>2, <3>3
  <2>2. CASE Rows' = Rows
    BY <2>1, <2>2 DEF RowCount, App!vars
  <2>3. ASSUME NEW m \in Merchants, NEW r \in Id, Insert(m, r) PROVE App!Submit
    <3>1. Rows' = Rows \cup {r} /\ r \notin Rows
      BY <1>1, <2>3, InsertFormed DEF Insert
    <3>2. RowCount' = RowCount + 1
      BY <3>1, RowsFinite, FS_AddElement DEF RowCount
    <3> QED BY <2>1, <3>2 DEF App!Submit
  <2> QED BY <1>1, <2>2, <2>3, RowsGrow DEF App!Next
<1>3. ASSUME NEW a \in Admins, Activate(a) PROVE App!GoLive
  <2> DEFINE c == job[a].rel
  <2>1. /\ pc[a] = "commit" /\ Rows' = Rows
        /\ job[a].seen # "published" /\ Published \subseteq tx[a].wrote
    BY <1>1, <1>3, ActivateWrites DEF Activate, ForwardInv, ApprovalInv, Approving
  <2>2. Published' = {c} /\ c \in Rows /\ c \in Picked
    BY <1>1, <1>3, <2>1, ActivateWrites DEF Picked, Approving
  <2> HIDE DEF c
  <2>3. LiveRow' = c
    <3>1. \A r : Published' = {r} => LiveRow' = r BY DEF LiveRow
    <3> QED BY <2>2, <3>1
  <2>4. c <= RowCount /\ c \in Nat /\ c >= 1 /\ RowCount \in Nat
    <3>1. \A q \in Id : q < c => q \in Rows BY <2>2 DEF ForwardInv, InOrder
    <3>2. c \in Id BY <1>1, <2>2
    <3> QED BY <2>2, <3>1, <3>2, RowsFinite DEF Id
  <2>5. LiveRow = 0 \/ LiveRow \in Published
    BY DEF LiveRow
  <2>6. LiveRow \in Nat /\ LiveRow < c
    <3>1. CASE LiveRow = 0 BY <2>4, <3>1
    <3>2. CASE LiveRow \in Published
      <4>1. LiveRow < c BY <2>2, <3>2 DEF ForwardInv
      <4>2. \A x \in Id : x \in Nat BY DEF Id
      <4> QED BY <1>1, <3>2, <4>1, <4>2
    <3> QED BY <2>5, <3>1, <3>2
  <2>7. RowCount' = RowCount BY <2>1 DEF RowCount
  <2> QED BY <2>3, <2>4, <2>6, <2>7 DEF App!GoLive
<1> QED BY <1>2, <1>3 DEF App!Next

(* With one administrator deciding at a time the pipeline implements       *)
(* LiveApp: what is live only gives way to a later submission and the app  *)
(* never goes dark again.                                                  *)
THEOREM OneAdminForward == ASSUME OneAdmin PROVE Spec => LiveMovesForward
<1>1. Init => App!Init
  <2> SUFFICES ASSUME Init PROVE App!Init OBVIOUS
  <2>1. Rows = {} BY DEF Init, Rows
  <2>2. RowCount = 0 BY <2>1, FS_EmptySet DEF RowCount
  <2> QED BY <2>1, <2>2 DEF App!Init, LiveRow, Published
<1>2. ForwardInv /\ [Next]_vars => ForwardInv' BY ForwardInvInv
<1>3. ForwardInv /\ [Next]_vars => [App!Next]_(App!vars) BY LiveStep
<1> QED BY InitForwardInv, <1>1, <1>2, <1>3, PTL DEF Spec, App!Spec, LiveMovesForward

-----------------------------------------------------------------------------
(* Requests one after another, none of them dying, with submissions through*)
(* POST publish: every request leaves the queue and the tenant row in      *)
(* agreement. (POST app-review marks a live app in review with nothing to  *)
(* approve: InReviewActionable.)                                           *)
OneByOne == ~ Overlap /\ ~ CanFail /\ "appReview" \notin MerchantOps

Last(r) == r \in Rows /\ \A q \in Rows : q <= r

Agreed ==
    /\ tenant.appStatus = "in_review" <=> Pending # {}
    /\ \A r \in Pending : Last(r)

Resting == {"idle", "previewed"}
Waiting == Resting \cup {"compile", "latest", "clash", "create", "finish", "submitted",
                         "candidate", "reread", "reject", "rejecting", "refuse"}

(* What is known of the tables when the only request under way is at loc   *)
(* with locals j and a statement that has found what t says: a submission  *)
(* that will store a release has the last one, alone from "mark" on; an    *)
(* approval holds a pending release until it activates it.                 *)
Knows(loc, j, t) ==
    /\ loc \in Waiting => Agreed
    /\ loc \notin Resting => j.op # "appReview"
    /\ loc = "compile" => j.op # "rollback"
    /\ loc = "latest" /\ j.op = "rollback" => j.ver = None
    /\ loc \in {"clash", "create"} /\ j.op = "rollback" => WithVersion(j.ver) = {}
    /\ loc = "clash" /\ j.build = 1 => Rows = {}
    /\ loc = "create" /\ j.build = 1 /\ WithVersion(j.ver) = {} => Rows = {}
    /\ loc = "draft" =>
          \/ j.seen = "pending_review" /\ j.rel \in Pending /\ Last(j.rel)
          \/ j.seen = "published" /\ j.op # "rollback" /\ Agreed
    /\ loc \in {"supersede", "superseding"} => j.rel \in Pending /\ Last(j.rel)
    /\ loc = "superseding" => t.found = Pending \ {j.rel}
    /\ loc = "rejecting" => t.found = Pending
    /\ loc = "mark" => Pending = {j.rel} /\ Last(j.rel)
    /\ loc = "reread" => j.rel \in Pending
    /\ loc \in {"activate", "retire", "unqueue", "commit"} =>
          j.rel \in Pending /\ j.seen = "pending_review"
    /\ loc = "commit" => t.found = Pending \ {j.rel}
    /\ loc = "record" => Pending = {} /\ tenant.appStatus = "approved"

Settled(p) == Knows(pc[p], job[p], tx[p])

OthersRest(p) == \A q \in Proc \ {p} : pc[q] \in Resting

Serial ==
    /\ Quiet \/ \E p \in Proc : OthersRest(p) /\ Settled(p)
    /\ Quiet => Agreed

SerialInv ==
    /\ VersionInv
    /\ InOrder
    /\ Rows = {} \/ \E l \in Rows : Last(l)
    /\ OneFirst
    /\ ActiveIsPublished
    /\ Serial

LEMMA InitSerialInv == Init => SerialInv
<1> SUFFICES ASSUME Init PROVE SerialInv OBVIOUS
<1>1. Rows = {} BY DEF Init, Rows
<1>2. InOrder /\ OneFirst /\ ActiveIsPublished
  BY <1>1 DEF InOrder, OneFirst, Firsts, ActiveIsPublished, Init
<1>3. Pending = {} /\ tenant.appStatus = "none"
  BY <1>1 DEF Pending, Init
<1>4. Serial
  BY <1>3 DEF Serial, Quiet, Agreed, Init
<1> QED BY <1>1, <1>2, <1>4, InitVersionInv DEF SerialInv

(* What is inserted comes after every row there was.                       *)
LEMMA InsertLast ==
    ASSUME Formed, InOrder, NEW m \in Merchants, NEW r \in Id, Insert(m, r)
    PROVE  Last(r)'
<1>1. Rows' = Rows \cup {r} /\ r \notin Rows
  BY InsertFormed DEF Insert
<1>2. ASSUME NEW q \in Rows PROVE q <= r
  <2>1. ~ r < q /\ q \in Id BY <1>1, <1>2 DEF InOrder, Rows
  <2> QED BY <2>1 DEF Id
<1>3. r <= r BY DEF Id
<1> QED BY <1>1, <1>2, <1>3 DEF Last

LEMMA LastIsLatest ==
    ASSUME NEW l, Last(l)
    PROVE  Latest = l /\ l \in Rows
<1>1. \A r \in Rows : (\A q \in Rows : q <= r) => r = l
  BY DEF Last, Rows, Id
<1> QED BY <1>1 DEF Latest, Last

(* Between requests nothing but the release is read: the statement follows.*)
LEMMA SerialConsistent == SerialInv => ReviewConsistent
<1> SUFFICES ASSUME SerialInv, Quiet
             PROVE  /\ tenant.appStatus = "in_review" <=> Pending # {}
                    /\ \A r \in Pending : r = Latest
                    /\ SubmissionStatus = "in_review" <=> Pending # {}
                    /\ SubmissionStatus = "live" => tenant.active \in Published
  BY DEF ReviewConsistent
<1>1. Agreed /\ ActiveIsPublished BY DEF SerialInv, Serial
<1>2. \A r \in Pending : r = Latest
  BY <1>1, LastIsLatest DEF Agreed
<1>3. CASE Pending # {}
  BY <1>1, <1>2, <1>3 DEF Agreed, SubmissionStatus
<1>4. CASE Pending = {}
  <2>1. tenant.appStatus # "in_review" BY <1>1, <1>4 DEF Agreed
  <2>2. Rows # {} => Latest \in Rows BY LastIsLatest DEF SerialInv
  <2>3. Rows # {} => status[Latest] # "pending_review"
    BY <1>4, <2>2 DEF Pending
  <2>4. SubmissionStatus # "in_review"
    BY <2>1, <2>3 DEF SubmissionStatus
  <2>5. SubmissionStatus = "live" => tenant.active # None
    BY DEF SubmissionStatus
  <2> QED BY <1>1, <1>4, <2>1, <2>4, <2>5 DEF ActiveIsPublished
<1> QED BY <1>3, <1>4

(* Only the request that is under way can take a step, or with none under  *)
(* way one that begins.                                                    *)
LEMMA Turn ==
    ASSUME SerialInv, NEW p \in Proc, pc[p] \notin Resting \/ Quiet
    PROVE  OthersRest(p) /\ Settled(p)
<1>1. CASE Quiet
  <2>1. pc[p] \in Resting /\ Agreed /\ OthersRest(p)
    BY <1>1 DEF Quiet, SerialInv, Serial, OthersRest, Resting
  <2> QED BY <2>1 DEF Settled, Knows, Resting
<1>2. CASE pc[p] \notin Resting
  <2>1. ~ Quiet BY <1>2 DEF Quiet, Resting
  <2>2. PICK q \in Proc : OthersRest(q) /\ Settled(q)
    BY <2>1 DEF SerialInv, Serial
  <2>3. q = p BY <1>2, <2>2 DEF OthersRest
  <2> QED BY <2>2, <2>3
<1> QED BY <1>1, <1>2

LEMMA TurnTaken ==
    ASSUME NEW p \in Proc, OthersRest(p), Settled(p)',
           \A q \in Proc \ {p} : pc'[q] = pc[q]
    PROVE  Serial'
<1>1. OthersRest(p)' BY DEF OthersRest
<1>2. Quiet' => Agreed'
  BY DEF Settled, Knows, Quiet, Resting, Waiting
<1> QED BY <1>1, <1>2 DEF Serial

(* A step of p that leaves the tables alone.                               *)
LEMMA KnowsStill ==
    ASSUME UNCHANGED <<status, row>>, tenant'.appStatus = tenant.appStatus, NEW loc, NEW j, NEW t,
           Knows(loc, j, t)
    PROVE  Knows(loc, j, t)'
<1>1. Rows' = Rows /\ Pending' = Pending
  BY DEF Rows, Pending
<1>2. Agreed' <=> Agreed
  BY <1>1 DEF Agreed, Last
<1>3. \A v : WithVersion(v)' = WithVersion(v)
  BY <1>1 DEF WithVersion
<1>4. \A r : Last(r)' <=> Last(r)
  BY <1>1 DEF Last
<1> QED BY <1>1, <1>2, <1>3, <1>4 DEF Knows

LEMMA SettlesAt ==
    ASSUME Formed, NEW p \in Proc, NEW loc, NEW j, Goto(p, loc, j), Knows(loc, j, NoTx)'
    PROVE  Settled(p)'
<1>1. pc'[p] = loc /\ job'[p] = j /\ tx'[p] = NoTx
  BY DEF Goto, Formed, TypeOK
<1> QED BY <1>1 DEF Settled

(* A statement that finds what it looks for.                               *)
LEMMA FindsOn ==
    ASSUME Formed, NEW p \in Proc, NEW loc, NEW S, NEW W, InTx(p, loc, S, W),
           UNCHANGED <<status, row>>, tenant'.appStatus = tenant.appStatus,
           NEW j, NEW t, j = job[p], t = [found |-> S, wrote |-> W], Knows(loc, j, t)
    PROVE  Settled(p)'
<1>1. pc'[p] = loc /\ job'[p] = j /\ tx'[p] = t
  BY DEF InTx, Formed, TypeOK
<1>2. Knows(loc, j, t)' BY KnowsStill
<1> QED BY <1>1, <1>2 DEF Settled

LEMMA MovesOn ==
    ASSUME Formed, NEW p \in Proc, NEW loc, NEW j, Goto(p, loc, j), Knows(loc, j, NoTx),
           UNCHANGED <<status, row>>, tenant'.appStatus = tenant.appStatus
    PROVE  Settled(p)'
BY KnowsStill, SettlesAt

LEMMA Ends ==
    ASSUME Formed, NEW p \in Proc, Done(p), Agreed,
           UNCHANGED <<status, row>>, tenant'.appStatus = tenant.appStatus
    PROVE  Settled(p)'
<1>1. Knows("idle", NoJob, NoTx)
  BY DEF Knows, Waiting, Resting
<1> QED BY <1>1, MovesOn DEF Done

(* The version that follows the latest release is free.                    *)
LEMMA NextIsFree ==
    ASSUME SerialInv, NEW l \in Newest(Rows)
    PROVE  WithVersion(NextVersion(row[l].version)) = {}
<1> SUFFICES ASSUME NEW r \in Rows, row[r].version = NextVersion(row[l].version)
             PROVE  FALSE
  BY DEF WithVersion
<1>1. /\ l \in Rows /\ row[r].build <= row[l].build
      /\ row[l].version \in Version /\ row[r].build \in Nat /\ row[l].build \in Nat
  BY DEF Newest, SerialInv, VersionInv, Formed, RowsFormed, TypeOK, Row, Rows
<1>2. row[r].version.patch = row[l].version.patch + 1 /\ row[l].version.patch \in Nat
  BY <1>1, NextVersionType DEF Version
<1>3. row[r].version.patch + row[l].build = row[l].version.patch + row[r].build
  BY <1>1 DEF SerialInv, VersionInv, VersionSequence
<1> QED BY <1>1, <1>2, <1>3

LEMMA SubmissionSettles ==
    ASSUME SerialInv, OneByOne, NEW m \in Merchants, Settled(m),
           \/ \E op \in MerchantOps, c \in Content, k \in Keys \cup {None} :
                 \/ \E v \in AskedVersion \cup {None} : SubmitManifest(m, op, c, v, k)
                 \/ SubmitDrafts(m, op, c, k)
           \/ \E r \in Id : Rollback(m, r)
           \/ Compile(m)
    PROVE  Settled(m)'
<1>1. Formed /\ m \in Proc /\ job[m] \in Job
  BY DEF SerialInv, VersionInv, Formed, TypeOK, Proc
<1>2. Agreed
  BY DEF Settled, Knows, Waiting, Resting, SubmitManifest, SubmitDrafts, Rollback, Compile
<1>3. ASSUME NEW loc \in {"latest", "compile"}, NEW j, Goto(m, loc, j), UNCHANGED <<status, row, tenant>>,
             j.op # "appReview", j.op = "rollback" => loc = "latest" /\ j.ver = None
      PROVE  Settled(m)'
  <2>1. Knows(loc, j, NoTx) BY <1>2, <1>3 DEF Knows, Resting
  <2> QED BY <1>1, <1>3, <2>1, MovesOn
<1>4. ASSUME NEW op \in MerchantOps, NEW c \in Content, NEW k \in Keys \cup {None},
             NEW v \in AskedVersion \cup {None}, SubmitManifest(m, op, c, v, k)
      PROVE  Settled(m)'
  <2>1. op # "appReview" /\ op # "rollback"
    BY <1>4 DEF SubmitManifest, OneByOne
  <2>2. [NoJob EXCEPT !.op = op, !.content = c, !.ver = v, !.key = k].op = op
    BY DEF NoJob
  <2> QED BY <1>4, <2>1, <2>2, <1>3 DEF SubmitManifest
<1>5. ASSUME NEW op \in MerchantOps, NEW c \in Content, NEW k \in Keys \cup {None},
             SubmitDrafts(m, op, c, k)
      PROVE  Settled(m)'
  <2>1. op # "appReview" /\ op # "rollback"
    BY <1>5 DEF SubmitDrafts, OneByOne
  <2>2. [NoJob EXCEPT !.op = op, !.via = "draft", !.content = c, !.key = k].op = op
    BY DEF NoJob
  <2> QED BY <1>5, <2>1, <2>2, <1>3 DEF SubmitDrafts
<1>6. ASSUME NEW r \in Id, Rollback(m, r)
      PROVE  Settled(m)'
  <2> DEFINE j == [NoJob EXCEPT !.op = "rollback", !.via = "rollback", !.content = row[r].content]
  <2>1. j.op = "rollback" /\ j.ver = None BY DEF NoJob
  <2> HIDE DEF j
  <2>2. Goto(m, "latest", j) /\ UNCHANGED <<status, row, tenant>> BY <1>6 DEF Rollback, j
  <2> QED BY <2>1, <2>2, <1>3
<1>7. CASE Compile(m)
  <2>1. job[m].op # "appReview" /\ job[m].op # "rollback"
    BY <1>7 DEF Compile, Settled, Knows, Resting
  <2>2. ASSUME NEW v, Goto(m, "latest", [job[m] EXCEPT !.ver = v]) PROVE Settled(m)'
    <3>1. [job[m] EXCEPT !.ver = v].op = job[m].op BY <1>1 DEF Job
    <3> QED BY <2>1, <2>2, <3>1, <1>3, <1>7 DEF Compile
  <2> QED BY <2>2, <1>7 DEF Compile
<1> QED BY <1>4, <1>5, <1>6, <1>7

(* A rollback is given the free version that follows the latest release.   *)
LEMMA AllocationSettles ==
    ASSUME SerialInv, NEW m \in Merchants, Settled(m), ReadLatest(m)
    PROVE  Settled(m)'
<1>1. /\ Formed /\ m \in Proc /\ job[m] \in Job /\ Agreed /\ job[m].op # "appReview"
      /\ job[m].op = "rollback" => job[m].ver = None
  BY DEF SerialInv, VersionInv, Formed, TypeOK, Proc, Settled, Knows, Waiting, Resting, ReadLatest
<1>2. ASSUME NEW b \in Nat, NEW n \in Version \cup {None},
             Goto(m, "clash", Allocated(job[m], b, n)),
             b = 1 => Rows = {},
             WithVersion(IF n = None THEN FirstVersion ELSE n) = {}
      PROVE  Settled(m)'
  <2> DEFINE j == Allocated(job[m], b, n)
  <2>1. j.op = job[m].op /\ j.build = b
    BY <1>1 DEF Allocated, Job
  <2>2. job[m].ver = None => j.ver = IF n = None THEN FirstVersion ELSE n
    BY <1>1 DEF Allocated, Job
  <2> HIDE DEF j
  <2>3. Knows("clash", j, NoTx)
    BY <1>1, <1>2, <2>1, <2>2 DEF Knows, Resting
  <2>4. Goto(m, "clash", j) BY <1>2 DEF j
  <2> QED BY <1>1, <2>3, <2>4, MovesOn DEF ReadLatest
<1>3. CASE Rows = {} /\ Goto(m, "clash", Allocated(job[m], 1, None))
  <2>1. WithVersion(FirstVersion) = {} BY <1>3 DEF WithVersion
  <2> QED BY <1>2, <1>3, <2>1
<1>4. ASSUME NEW l \in Newest(Rows),
             Goto(m, "clash", Allocated(job[m], row[l].build + 1, NextVersion(row[l].version)))
      PROVE  Settled(m)'
  <2>1. /\ row[l].version \in Version /\ row[l].build + 1 \in Nat /\ row[l].build + 1 # 1
    BY <1>1 DEF Newest, Formed, RowsFormed, TypeOK, Row, Rows
  <2>2. NextVersion(row[l].version) \in Version /\ None \notin Version
    BY <2>1, NextVersionType
  <2>3. NextVersion(row[l].version) # None BY <2>2
  <2>4. WithVersion(NextVersion(row[l].version)) = {} BY NextIsFree
  <2> QED BY <1>2, <1>4, <2>1, <2>2, <2>3, <2>4
<1> QED BY <1>3, <1>4 DEF ReadLatest

LEMMA ClashSettles ==
    ASSUME SerialInv, NEW m \in Merchants, Settled(m), ReadClash(m)
    PROVE  Settled(m)'
<1>1. Formed /\ m \in Proc /\ job[m] \in Job /\ pc[m] = "clash"
  BY DEF SerialInv, VersionInv, Formed, TypeOK, Proc, ReadClash
<1>2. Knows("clash", job[m], tx[m]) /\ Agreed
  BY <1>1 DEF Settled, Knows, Waiting
<1>3. CASE Done(m) BY <1>1, <1>2, <1>3, Ends DEF ReadClash
<1>4. CASE Goto(m, "create", job[m])
  <2>1. Knows("create", job[m], NoTx) BY <1>2 DEF Knows, Resting, Waiting
  <2>2. PICK j : j = job[m] OBVIOUS
  <2> QED BY <1>1, <1>4, <2>1, <2>2, MovesOn DEF ReadClash
<1>5. ASSUME NEW r \in WithVersion(job[m].ver),
             Goto(m, "create", [job[m] EXCEPT !.build = row[r].build])
      PROVE  Settled(m)'
  <2>1. PICK j : j = [job[m] EXCEPT !.build = row[r].build] OBVIOUS
  <2>2. j.op = job[m].op /\ j.ver = job[m].ver BY <1>1, <2>1 DEF Job
  <2>3. WithVersion(j.ver) # {} BY <2>2
  <2>4. Knows("create", j, NoTx) BY <1>2, <2>2, <2>3 DEF Knows, Resting, Waiting
  <2> QED BY <1>1, <1>5, <2>1, <2>4, MovesOn DEF ReadClash
<1> QED BY <1>3, <1>4, <1>5 DEF ReadClash

(* What is inserted is the last row and awaits its review.                 *)
LEMMA InsertSettles ==
    ASSUME SerialInv, NEW m \in Merchants, NEW r \in Id, Settled(m), Insert(m, r)
    PROVE  Settled(m)'
<1>1. Formed /\ m \in Proc /\ InOrder /\ job[m].op # "appReview"
  BY DEF SerialInv, VersionInv, Proc, Insert, Settled, Knows, Resting
<1>2. PICK j : j = Inserted(m, r, "pending_review") OBVIOUS
<1>3. j.op = job[m].op /\ j.rel = r /\ j.seen = "pending_review"
  BY <1>2 DEF Inserted, NoJob
<1>4. r \in Pending' /\ Last(r)'
  <2>1. r \in Pending' BY <1>1 DEF Insert, Pending, Rows, Formed, TypeOK
  <2> QED BY <1>1, <2>1, InsertLast
<1>5. Knows("draft", j, NoTx)'
  BY <1>1, <1>3, <1>4 DEF Knows, Resting, Waiting
<1>6. Goto(m, "draft", j) BY <1>2 DEF Insert
<1> QED BY <1>1, <1>5, <1>6, SettlesAt

(* What the unique index refused is the live release or the one in review: *)
(* a rollback is never refused.                                            *)
LEMMA RefusedSettles ==
    ASSUME SerialInv, NEW m \in Merchants, Settled(m), InsertRefused(m)
    PROVE  Settled(m)'
<1>1. /\ Formed /\ m \in Proc /\ Agreed /\ job[m].op # "appReview"
      /\ job[m].op = "rollback" => WithVersion(job[m].ver) = {}
  BY DEF SerialInv, VersionInv, Proc, InsertRefused, Settled, Knows, Resting, Waiting
<1>2. CASE Done(m) BY <1>1, <1>2, Ends DEF InsertRefused
<1>3. ASSUME NEW r \in WithVersion(job[m].ver),
             job[m].op = "rollback" \/ status[r] \in {"pending_review", "published"},
             Goto(m, "draft", Inserted(m, r, status[r]))
      PROVE  Settled(m)'
  <2>1. PICK j : j = Inserted(m, r, status[r]) OBVIOUS
  <2>2. j.op = job[m].op /\ j.rel = r /\ j.seen = status[r]
    BY <2>1 DEF Inserted, NoJob
  <2>3. job[m].op # "rollback" /\ r \in Rows
    BY <1>1, <1>3 DEF WithVersion
  <2>4. status[r] = "pending_review" => r \in Pending /\ Last(r)
    BY <1>1, <2>3 DEF Pending, Agreed
  <2>5. Knows("draft", j, NoTx)
    BY <1>1, <1>3, <2>2, <2>3, <2>4 DEF Knows, Resting, Waiting
  <2> QED BY <1>1, <1>3, <2>1, <2>5, MovesOn DEF InsertRefused
<1> QED BY <1>2, <1>3 DEF InsertRefused

LEMMA TailSettles ==
    ASSUME SerialInv, NEW m \in Merchants, Settled(m),
           SaveDraft(m) \/ FindOlder(m) \/ Supersede(m) \/ MarkSubmitted(m) \/ Finish(m)
    PROVE  Settled(m)'
<1>1. Formed /\ m \in Proc /\ job[m].op # "appReview"
  BY DEF SerialInv, VersionInv, Proc, SaveDraft, FindOlder, Supersede, MarkSubmitted, Finish, Settled,
         Knows, Resting
<1>2. PICK j : j = job[m] OBVIOUS
<1>3. CASE SaveDraft(m)
  <2>1. Knows("draft", j, tx[m]) BY <1>2, <1>3 DEF SaveDraft, Settled
  <2>2. CASE j.op = "rollback" \/ j.seen = "pending_review"
    <3>1. Knows("supersede", j, NoTx) BY <2>1, <2>2 DEF Knows, Resting, Waiting
    <3> QED BY <1>1, <1>2, <1>3, <2>2, <3>1, MovesOn DEF SaveDraft
  <2>3. CASE ~ (j.op = "rollback" \/ j.seen = "pending_review")
    <3>1. Knows("finish", j, NoTx) BY <2>1, <2>3 DEF Knows, Resting, Waiting
    <3> QED BY <1>1, <1>2, <1>3, <2>3, <3>1, MovesOn DEF SaveDraft
  <2> QED BY <2>2, <2>3
<1>4. CASE Supersede(m)
  <2>1. j.rel \in Pending /\ Last(j.rel) /\ tx[m].found = Pending \ {j.rel}
    BY <1>2, <1>4 DEF Supersede, Settled, Knows
  <2>2. Rows' = Rows /\ Pending' = {j.rel}
    BY <1>1, <1>2, <1>4, <2>1 DEF Supersede, AfterSubmission, Rows, Pending, Formed, TypeOK
  <2>3. Knows("mark", j, NoTx)'
    BY <1>1, <1>2, <2>1, <2>2 DEF Knows, Last, Resting, Waiting
  <2> QED BY <1>1, <1>2, <1>4, <2>3, SettlesAt DEF Supersede
<1>5. CASE MarkSubmitted(m)
  <2>1. Pending = {j.rel} /\ Last(j.rel) BY <1>2, <1>5 DEF MarkSubmitted, Settled, Knows
  <2>2. Rows' = Rows /\ Pending' = Pending /\ tenant'.appStatus = "in_review"
    BY <1>1, <1>5 DEF MarkSubmitted, Rows, Pending, Formed, TypeOK
  <2>3. Agreed' BY <2>1, <2>2 DEF Agreed, Last
  <2>4. Knows("finish", j, NoTx)' /\ Knows("idle", NoJob, NoTx)'
    BY <1>1, <1>2, <2>3 DEF Knows, Resting, Waiting
  <2> QED BY <1>1, <1>2, <1>5, <2>4, SettlesAt DEF MarkSubmitted, Done
<1>6. CASE Finish(m)
  <2>1. Agreed BY <1>6 DEF Finish, Settled, Knows, Waiting
  <2>2. tenant'.appStatus = tenant.appStatus
    BY <1>1, <1>6 DEF Finish, Formed, TypeOK
  <2> QED BY <1>1, <1>6, <2>1, <2>2, Ends DEF Finish
<1>7. CASE FindOlder(m)
  <2>1. PICK t : t = [found |-> Pending \ {j.rel}, wrote |-> {}] OBVIOUS
  <2>2. j.rel \in Pending /\ Last(j.rel) /\ j.op # "appReview"
    BY <1>1, <1>2, <1>7 DEF FindOlder, Settled, Knows
  <2>3. Knows("superseding", j, t)
    BY <2>1, <2>2 DEF Knows, Resting, Waiting
  <2> QED BY <1>1, <1>2, <1>7, <2>1, <2>3, FindsOn DEF FindOlder
<1> QED BY <1>3, <1>4, <1>5, <1>6, <1>7

LEMMA MerchantSettles ==
    ASSUME SerialInv, OneByOne, NEW m \in Merchants, MerchantStep(m)
    PROVE  Settled(m)' /\ OthersRest(m)
<1>1. pc[m] \notin Resting \/ Quiet
  BY DEF MerchantStep, SubmitManifest, SubmitDrafts, Rollback, Compile, ReadLatest, ReadClash, Insert,
     InsertRefused, SaveDraft, FindOlder, Supersede, MarkSubmitted, Finish, Resting, MayBegin, OneByOne
<1>2. Settled(m) /\ OthersRest(m) BY <1>1, Turn DEF Proc
<1>3. Settled(m)'
  BY <1>2, SubmissionSettles, AllocationSettles, ClashSettles, InsertSettles, RefusedSettles,
     TailSettles DEF MerchantStep
<1> QED BY <1>2, <1>3

(* An approval finds what it picked still pending and empties the queue.   *)
LEMMA ApprovalSettles ==
    ASSUME SerialInv, NEW a \in Admins, Settled(a),
           \/ Preview(a) \/ Approve(a) \/ CheckSubmitted(a) \/ PickCandidate(a)
           \/ RereadCandidate(a) \/ CheckReject(a) \/ CheckRefuse(a),
           UNCHANGED row
    PROVE  Settled(a)'
<1>1. Formed /\ a \in Proc /\ job[a] \in Job
  BY DEF SerialInv, VersionInv, Formed, TypeOK, Proc
<1>2. /\ Agreed /\ UNCHANGED <<status, row, tenant>>
      /\ pc[a] \notin Resting => job[a].op # "appReview"
      /\ pc[a] \in Resting \cup {"submitted", "candidate", "reread"}
  BY DEF Settled, Knows, Waiting, Resting, Ready, Preview, Approve, CheckSubmitted, PickCandidate,
     RereadCandidate, CheckReject, CheckRefuse
<1>3. CASE Done(a) BY <1>1, <1>2, <1>3, Ends
<1>4. ASSUME NEW r, Goto(a, "previewed", [NoJob EXCEPT !.shown = r]) PROVE Settled(a)'
  <2>1. Knows("previewed", [NoJob EXCEPT !.shown = r], NoTx) BY <1>2 DEF Knows, Resting
  <2> QED BY <1>1, <1>2, <1>4, <2>1, MovesOn
<1>5. CASE Approve(a)
  <2>1. PICK j : j = [job[a] EXCEPT !.op = "approve"] OBVIOUS
  <2>2. j.op = "approve" BY <1>1, <2>1 DEF Job
  <2>3. Knows("submitted", j, NoTx) BY <1>2, <2>2 DEF Knows, Resting
  <2>4. Done(a) \/ Goto(a, "submitted", j) BY <1>5, <2>1 DEF Approve
  <2> QED BY <1>1, <1>2, <1>3, <2>3, <2>4, MovesOn
<1>6. CASE CheckSubmitted(a)
  <2>1. PICK j : j = job[a] OBVIOUS
  <2>2. Knows("candidate", j, NoTx)
    BY <1>2, <1>6, <2>1 DEF Knows, Resting, CheckSubmitted
  <2>3. Done(a) \/ Goto(a, "candidate", j) BY <1>6, <2>1 DEF CheckSubmitted
  <2> QED BY <1>1, <1>2, <1>3, <2>2, <2>3, MovesOn
<1>7. ASSUME NEW r \in Newest(Pending), Goto(a, "reread", [job[a] EXCEPT !.rel = r]),
             pc[a] = "candidate"
      PROVE  Settled(a)'
  <2>1. PICK j : j = [job[a] EXCEPT !.rel = r] OBVIOUS
  <2>2. j.op = job[a].op /\ j.rel = r /\ r \in Pending BY <1>1, <2>1 DEF Job, Newest
  <2>3. Knows("reread", j, NoTx)
    BY <1>2, <1>7, <2>2 DEF Knows, Resting
  <2> QED BY <1>1, <1>2, <1>7, <2>1, <2>3, MovesOn
<1>8. CASE RereadCandidate(a)
  <2>1. PICK j : j = [job[a] EXCEPT !.seen = status[job[a].rel]] OBVIOUS
  <2>2. job[a].rel \in Pending BY <1>8 DEF RereadCandidate, Settled, Knows
  <2>3. j.op = job[a].op /\ j.rel = job[a].rel /\ j.seen = "pending_review"
    BY <1>1, <2>1, <2>2 DEF Job, Pending
  <2>4. Knows("activate", j, NoTx)
    BY <1>2, <1>8, <2>2, <2>3 DEF Knows, Resting, Waiting, RereadCandidate
  <2>5. Done(a) \/ Goto(a, "activate", j) BY <1>8, <2>1 DEF RereadCandidate
  <2> QED BY <1>1, <1>2, <1>3, <2>4, <2>5, MovesOn
<1>9. ASSUME NEW op \in {"reject", "refuse"}, Goto(a, op, [NoJob EXCEPT !.op = op])
      PROVE  Settled(a)'
  <2>1. [NoJob EXCEPT !.op = op].op = op BY DEF NoJob
  <2>2. Knows(op, [NoJob EXCEPT !.op = op], NoTx) BY <1>2, <2>1 DEF Knows, Resting
  <2> QED BY <1>1, <1>2, <1>9, <2>2, MovesOn
<1>10. CASE Preview(a) BY <1>10, <1>4 DEF Preview
<1>11. CASE PickCandidate(a) BY <1>11, <1>3, <1>7 DEF PickCandidate
<1>12. CASE CheckReject(a) BY <1>12, <1>3, <1>9 DEF CheckReject
<1>13. CASE CheckRefuse(a) BY <1>13, <1>9 DEF CheckRefuse
<1> QED BY <1>5, <1>6, <1>8, <1>10, <1>11, <1>12, <1>13

(* The statements of a decision find all there is.                         *)
LEMMA StatementSettles ==
    ASSUME SerialInv, NEW a \in Admins, Settled(a),
           FindPublished(a) \/ Retire(a) \/ FindPending(a) \/ FindRejected(a),
           UNCHANGED row
    PROVE  Settled(a)'
<1>1. Formed /\ a \in Proc
  BY DEF SerialInv, VersionInv, Proc
<1>2. PICK j : j = job[a] OBVIOUS
<1>3. CASE FindPublished(a)
  <2>1. PICK t : t = [found |-> Published \ {j.rel}, wrote |-> {}] OBVIOUS
  <2>2. Knows("retire", j, t)
    BY <1>2, <1>3 DEF FindPublished, Settled, Knows, Resting, Waiting
  <2> QED BY <1>1, <1>2, <1>3, <2>1, <2>2, FindsOn DEF FindPublished
<1>4. CASE Retire(a)
  <2>1. PICK W : W = tx[a].found \cap Published OBVIOUS
  <2>2. PICK t : t = [found |-> {}, wrote |-> W] OBVIOUS
  <2>3. Knows("unqueue", j, t)
    BY <1>2, <1>4 DEF Retire, Settled, Knows, Resting, Waiting
  <2> QED BY <1>1, <1>2, <1>4, <2>1, <2>2, <2>3, FindsOn DEF Retire
<1>5. CASE FindPending(a)
  <2>1. PICK W : W = tx[a].wrote OBVIOUS
  <2>2. PICK t : t = [found |-> Pending \ {j.rel}, wrote |-> W] OBVIOUS
  <2>3. Knows("commit", j, t)
    BY <1>2, <1>5, <2>2 DEF FindPending, Settled, Knows, Resting, Waiting
  <2> QED BY <1>1, <1>2, <1>5, <2>1, <2>2, <2>3, FindsOn DEF FindPending
<1>6. CASE FindRejected(a)
  <2>1. PICK t : t = [found |-> Pending, wrote |-> {}] OBVIOUS
  <2>2. Knows("rejecting", j, t)
    BY <1>2, <1>6, <2>1 DEF FindRejected, Settled, Knows, Resting, Waiting
  <2> QED BY <1>1, <1>2, <1>6, <2>1, <2>2, FindsOn DEF FindRejected
<1> QED BY <1>3, <1>4, <1>5, <1>6

LEMMA DecisionSettles ==
    ASSUME SerialInv, NEW a \in Admins, Settled(a),
           Activate(a) \/ RecordApproval(a) \/ Reject(a) \/ Refuse(a),
           UNCHANGED row
    PROVE  Settled(a)'
<1>1. Formed /\ a \in Proc
  BY DEF SerialInv, VersionInv, Proc
<1>2. CASE Activate(a)
  <2>1. /\ job[a].seen # "published" /\ job[a].op # "appReview"
        /\ tx[a].found = Pending \ {job[a].rel}
    BY <1>2 DEF Activate, Settled, Knows, Resting
  <2>2. Pending' = {} BY <1>1, <1>2, <2>1, ActivateWrites
  <2>3. PICK j : j = job[a] OBVIOUS
  <2>4. Knows("record", j, NoTx)'
    BY <1>2, <2>1, <2>2, <2>3 DEF Knows, Resting, Waiting, Activate
  <2> QED BY <1>1, <1>2, <2>3, <2>4, SettlesAt DEF Activate
<1>3. ASSUME Pending' = {}, tenant'.appStatus # "in_review", Done(a)
      PROVE  Settled(a)'
  <2>1. Knows("idle", NoJob, NoTx)' BY <1>3 DEF Knows, Agreed, Resting
  <2> QED BY <1>1, <1>3, <2>1, SettlesAt DEF Done
<1>4. CASE RecordApproval(a)
  <2>1. Pending' = {} /\ tenant'.appStatus = "approved"
    BY <1>1, <1>4 DEF RecordApproval, Settled, Knows, Pending, Rows, Formed, TypeOK
  <2> QED BY <1>3, <1>4, <2>1 DEF RecordApproval
<1>5. CASE Reject(a)
  <2>1. Pending' = {} /\ tenant'.appStatus = "rejected"
    <3>1. tx[a].found = Pending BY <1>5 DEF Reject, Settled, Knows
    <3> QED BY <1>1, <1>5, <3>1 DEF Reject, Pending, Rows, Formed, TypeOK
  <2> QED BY <1>3, <1>5, <2>1 DEF Reject
<1>6. CASE Refuse(a)
  <2>1. Agreed BY <1>6 DEF Refuse, Settled, Knows, Waiting
  <2>2. tenant'.appStatus = tenant.appStatus
    BY <1>1, <1>6 DEF Refuse, Formed, TypeOK
  <2> QED BY <1>1, <1>6, <2>1, <2>2, Ends DEF Refuse
<1> QED BY <1>2, <1>4, <1>5, <1>6

LEMMA AdminSettles ==
    ASSUME SerialInv, OneByOne, NEW a \in Admins, AdminStep(a)
    PROVE  Settled(a)' /\ OthersRest(a)
<1>1. pc[a] \notin Resting \/ Quiet
  BY DEF AdminStep, Preview, Approve, CheckSubmitted, PickCandidate, RereadCandidate, FindPublished,
     Retire, FindPending, Activate, RecordApproval, CheckReject, FindRejected, Reject, CheckRefuse,
     Refuse, SetTenantStatus, Ready, Resting, MayBegin, OneByOne
<1>2. Settled(a) /\ OthersRest(a) BY <1>1, Turn DEF Proc
<1>3. ASSUME NEW s \in {"draft", "suspended", "rejected"}, SetTenantStatus(a, s), UNCHANGED row
      PROVE  Settled(a)'
  <2>1. tenant'.appStatus = tenant.appStatus
    BY <1>3 DEF SetTenantStatus, SerialInv, VersionInv, Formed, TypeOK
  <2>2. PICK loc, j, t : loc = pc[a] /\ j = job[a] /\ t = tx[a] OBVIOUS
  <2>3. Knows(loc, j, t)'
    BY <1>2, <1>3, <2>1, <2>2, KnowsStill DEF SetTenantStatus, Settled
  <2> QED BY <1>3, <2>2, <2>3 DEF SetTenantStatus, Settled
<1>4. Settled(a)'
  BY <1>2, <1>3, ApprovalSettles, StatementSettles, DecisionSettles DEF AdminStep
<1> QED BY <1>2, <1>4

(* A request that dies does so before it has written anything: the table   *)
(* is full.                                                                *)
LEMMA FailSettles ==
    ASSUME SerialInv, OneByOne, NEW p \in Proc, Fail(p)
    PROVE  Settled(p)' /\ OthersRest(p)
<1>1. pc[p] = "create" BY DEF Fail, OneByOne
<1>2. Settled(p) /\ OthersRest(p) BY <1>1, Turn DEF Resting
<1>3. Agreed BY <1>1, <1>2 DEF Settled, Knows, Waiting
<1>4. Formed BY DEF SerialInv, VersionInv
<1>5. Settled(p)' BY <1>3, <1>4, Ends DEF Fail
<1> QED BY <1>2, <1>5

LEMMA SerialKept ==
    ASSUME SerialInv, OneByOne, [Next]_vars
    PROVE  Serial'
<1>1. Formed BY DEF SerialInv, VersionInv
<1> USE DEF Goto, Done, InTx, Formed, TypeOK
<1>2. ASSUME NEW m \in Merchants, MerchantStep(m) PROVE Serial'
  <2>1. (\E loc, j : Goto(m, loc, j)) \/ (\E found : InTx(m, "superseding", found, {}))
    BY <1>2, MerchantMoves
  <2>2. \A q \in Proc \ {m} : pc'[q] = pc[q] BY <1>1, <2>1
  <2> QED BY <1>2, <2>2, MerchantSettles, TurnTaken DEF Proc
<1>3. ASSUME NEW a \in Admins, AdminStep(a) PROVE Serial'
  <2>1. \A q \in Proc \ {a} : pc'[q] = pc[q]
    BY <1>1, <1>3 DEF AdminStep, Preview, Approve, CheckSubmitted, PickCandidate, RereadCandidate,
       FindPublished, Retire, FindPending, Activate, RecordApproval, CheckReject, FindRejected, Reject, CheckRefuse, Refuse, SetTenantStatus
  <2> QED BY <1>3, <2>1, AdminSettles, TurnTaken DEF Proc
<1>4. ASSUME NEW p \in Proc, Fail(p) PROVE Serial'
  <2>1. \A q \in Proc \ {p} : pc'[q] = pc[q] BY <1>1, <1>4 DEF Fail
  <2> QED BY <1>4, <2>1, FailSettles, TurnTaken
<1>5. CASE (\E k \in Keys : ExpireKey(k)) \/ UNCHANGED vars
  <2>1. UNCHANGED <<status, row, tenant, pc, job, tx>> BY <1>5 DEF ExpireKey, vars
  <2>2. Quiet' <=> Quiet BY <2>1 DEF Quiet
  <2>3. Agreed' <=> Agreed BY <2>1 DEF Agreed, Pending, Rows, Last
  <2>4. \A p \in Proc : OthersRest(p)' <=> OthersRest(p) BY <2>1 DEF OthersRest
  <2>5. ASSUME NEW p \in Proc, Settled(p) PROVE Settled(p)'
    <3>1. PICK loc, j, t : loc = pc[p] /\ j = job[p] /\ t = tx[p] OBVIOUS
    <3>2. Knows(loc, j, t)' BY <2>1, <2>5, <3>1, KnowsStill DEF Settled
    <3> QED BY <2>1, <3>1, <3>2 DEF Settled
  <2> QED BY <2>2, <2>3, <2>4, <2>5 DEF SerialInv, Serial
<1> QED BY <1>2, <1>3, <1>4, <1>5 DEF Next

LEMMA SerialInvInv ==
    ASSUME OneByOne, SerialInv, [Next]_vars
    PROVE  SerialInv'
<1>1. /\ Formed /\ VersionInv' /\ InOrder' /\ Serial'
      /\ Rows \subseteq Rows' /\ \A q \in Rows : row'[q] = row[q]
  BY VersionInvInv, InOrderKept, SerialKept, RowsStay DEF SerialInv, VersionInv
<1>2. (Rows = {} \/ \E l \in Rows : Last(l))' /\ OneFirst'
  <2>1. CASE Rows' = Rows /\ row' = row
    BY <2>1 DEF SerialInv, Last, OneFirst, Firsts
  <2>2. ASSUME NEW m \in Merchants, NEW r \in Id, Insert(m, r)
        PROVE  (Rows = {} \/ \E l \in Rows : Last(l))' /\ OneFirst'
    <3>1. /\ Rows' = Rows \cup {r} /\ row'[r].build = job[m].build
          /\ \A q \in Rows : row'[q] = row[q]
      BY <1>1, <2>2, InsertFormed
    <3>2. job[m].build = 1 => Rows = {}
      <4>1. Settled(m) BY <2>2, Turn DEF Insert, Resting, Proc
      <4> QED BY <2>2, <4>1 DEF Settled, Knows, Insert
    <3>3. OneFirst' BY <3>1, <3>2 DEF SerialInv, OneFirst, Firsts
    <3>4. Last(r)' BY <1>1, <2>2, InsertLast DEF SerialInv
    <3> QED BY <3>1, <3>3, <3>4
  <2> QED BY <1>1, <2>1, <2>2, RowsGrow
<1>3. ActiveIsPublished'
  <2>1. ASSUME NEW a \in Admins, Activate(a) PROVE ActiveIsPublished'
    <3>1. job[a].seen # "published"
      <4>1. Settled(a) BY <2>1, Turn DEF Activate, Resting, Proc
      <4> QED BY <2>1, <4>1 DEF Settled, Knows, Activate
    <3> QED BY <1>1, <2>1, <3>1, ActivateWrites DEF ActiveIsPublished
  <2>2. CASE ~ \E a \in Admins : Activate(a)
    BY <1>1, <2>2, PublishedKept, PointerKept DEF SerialInv, ActiveIsPublished
  <2> QED BY <2>1, <2>2
<1> QED BY <1>1, <1>2, <1>3 DEF SerialInv

(* Requests that run one after another, none of them dying half way and    *)
(* none through POST app-review, always leave the review queue, the tenant *)
(* row and the status told to the merchant agreed, however many merchants, *)
(* administrators, releases and versions there are.                        *)
THEOREM OneByOneConsistent == ASSUME OneByOne PROVE Spec => []ReviewConsistent
<1>1. SerialInv /\ [Next]_vars => SerialInv' BY SerialInvInv
<1> QED BY InitSerialInv, <1>1, SerialConsistent, PTL DEF Spec
=============================================================================
