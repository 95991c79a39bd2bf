---------------------------- MODULE Services_proofs ----------------------------
(* The services, for any number of requests, intents, tenants, policies,     *)
(* tickets, invitations, roles, keys, users, posts, messages, devices,       *)
(* webhooks and instances.  Payments book no money as received that was not  *)
(* paid; what is in force rests on a decision (DecisionsBacked); no step     *)
(* takes what somebody else owns (OwnersKeepTheirs); and every counter and   *)
(* history says what the rows behind it say (TalliesExact), whatever         *)
(* overlaps or fails.  Each part has invariants of its own: what a request   *)
(* under way still knows of the rows it read, and what it owes the counters  *)
(* it has begun to change.  Theorems put the parts together over focus.      *)
EXTENDS Services, Integers, Sequences, FiniteSetTheorems, WellFoundedInduction, TLAPS

-----------------------------------------------------------------------------
(* Payments *)

ProviderType == [session : BOOLEAN, paid : BOOLEAN, told : BOOLEAN, refunds : Nat]
JobType == [row : Intents \cup Settlements \cup {"none"}, ok : BOOLEAN]
RowOf(loc) == IF loc \in {"confirm", "confirmed"} THEN Settlements ELSE Intents

\* What the move of one request to a location asks of its record.
Fits(loc, j) == loc \in Loc /\ j \in JobType /\ (loc # "idle" => j.row \in RowOf(loc))

JobsTyped ==
    /\ pc \in [Requests -> Loc]
    /\ job \in [Requests -> JobType]
    /\ \A p \in Requests : pc[p] # "idle" => job[p].row \in RowOf(pc[p])

\* A request that moves with a fitting record leaves all requests well typed.
LEMMA GotoTyped ==
    ASSUME JobsTyped, NEW p \in Requests, NEW loc, NEW j, Fits(loc, j), Goto(p, loc, j)
    PROVE  JobsTyped'
<1>1. pc' \in [Requests -> Loc] /\ job' \in [Requests -> JobType]
  BY DEF JobsTyped, Fits, Goto
<1>2. ASSUME NEW q \in Requests, pc'[q] # "idle"
      PROVE  job'[q].row \in RowOf(pc'[q])
  <2>1. CASE q = p
    BY <1>2, <2>1 DEF JobsTyped, Fits, Goto
  <2>2. CASE q # p
    BY <1>2, <2>2 DEF JobsTyped, Goto
  <2> QED BY <2>1, <2>2
<1> QED BY <1>1, <1>2 DEF JobsTyped, RowOf

LEMMA NoJobFits == Fits("idle", NoJob)
BY DEF Fits, NoJob, JobType, Loc

\* Beginning on a row of the right table, and going on with the same record.
LEMMA BeginFits ==
    ASSUME NEW loc \in Loc \ {"idle"}, NEW r \in RowOf(loc)
    PROVE  Fits(loc, [NoJob EXCEPT !.row = r])
BY Zenon DEF Fits, NoJob, JobType, RowOf

LEMMA SameJobFits ==
    ASSUME JobsTyped, NEW p \in Requests, pc[p] # "idle",
           NEW loc \in Loc, RowOf(loc) = RowOf(pc[p]), NEW ok \in BOOLEAN
    PROVE  Fits(loc, job[p]) /\ Fits(loc, [job[p] EXCEPT !.ok = ok])
BY DEF Fits, JobsTyped, JobType

RowsTyped ==
    /\ provider \in [Intents -> ProviderType]
    /\ intent \in [Intents -> [status : IntentStatus, ext : BOOLEAN]]
    /\ charge \in [Intents -> {"absent", "pending"} \cup Outcomes]
    /\ refunds \in [Intents -> Nat]
    /\ ledger \in [Intents -> [received : Nat, issued : Nat]]
    /\ settlement \in [Settlements -> [status : {"absent", "pending", "settled"}, events : Nat]]

-----------------------------------------------------------------------------
\* A write of an intent's status, and one of what the provider knows of it.
LEMMA StatusTyped ==
    ASSUME RowsTyped, NEW i \in Intents, NEW s \in IntentStatus,
           intent' = [intent EXCEPT ![i].status = s],
           UNCHANGED <<provider, charge, refunds, ledger, settlement>>
    PROVE  RowsTyped'
<1>1. intent' \in [Intents -> [status : IntentStatus, ext : BOOLEAN]]
  <2>1. intent \in [Intents -> [status : IntentStatus, ext : BOOLEAN]]
    BY DEF RowsTyped
  <2>2. [intent[i] EXCEPT !.status = s] \in [status : IntentStatus, ext : BOOLEAN]
    BY <2>1
  <2> QED BY <2>1, <2>2
<1> QED BY <1>1 DEF RowsTyped

LEMMA ProviderTyped ==
    ASSUME RowsTyped, NEW i \in Intents,
           \/ provider' = [provider EXCEPT ![i].session = TRUE]
           \/ provider' = [provider EXCEPT ![i].paid = TRUE]
           \/ provider' = [provider EXCEPT ![i].told = TRUE],
           UNCHANGED <<rows, settlement>>
    PROVE  RowsTyped'
<1>1. /\ [provider[i] EXCEPT !.session = TRUE] \in ProviderType
      /\ [provider[i] EXCEPT !.paid = TRUE] \in ProviderType
      /\ [provider[i] EXCEPT !.told = TRUE] \in ProviderType
  <2>1. provider[i] \in ProviderType
    BY DEF RowsTyped
  <2> QED BY <2>1, Zenon DEF ProviderType
<1>2. provider' \in [Intents -> ProviderType]
  <2>1. provider \in [Intents -> ProviderType]
    BY DEF RowsTyped
  <2> QED BY <1>1, <2>1, Zenon
<1> QED BY <1>2 DEF RowsTyped, rows

\* Every step keeps TypeOK: rows by the row written, jobs by the moves above.
LEMMA StepTyped == TypeOK /\ [Next]_vars => TypeOK'
<1> SUFFICES ASSUME RowsTyped, JobsTyped, [Next]_vars
             PROVE  RowsTyped' /\ JobsTyped'
  BY DEF TypeOK, RowsTyped, JobsTyped, ProviderType, JobType, RowOf
<1> USE DEF ProviderType
<1>1. ASSUME NEW p \in Requests, NEW i \in Intents, InitializePayment(p, i)
      PROVE  RowsTyped' /\ JobsTyped'
  <2>1. JobsTyped'
    <3>1. Fits("open", [NoJob EXCEPT !.row = i]) /\ Goto(p, "open", [NoJob EXCEPT !.row = i])
      BY <1>1, BeginFits DEF InitializePayment, Begin, RowOf, Loc
    <3> QED BY <3>1, GotoTyped
  <2>2. RowsTyped'
    <3>1. "created" \in IntentStatus
      BY DEF IntentStatus
    <3> QED BY <1>1, <3>1, StatusTyped, Zenon DEF InitializePayment
  <2> QED BY <2>1, <2>2
<1>2. ASSUME NEW p \in Requests, NEW i \in Intents,
             VerifyPayment(p, i) \/ ReceiveWebhook(p, i) \/ ProcessRefund(p, i)
      PROVE  RowsTyped' /\ JobsTyped'
  <2>1. PICK loc \in {"ask", "webhook", "refund"} : Goto(p, loc, [NoJob EXCEPT !.row = i])
    BY <1>2 DEF VerifyPayment, ReceiveWebhook, ProcessRefund, Begin
  <2>2. Fits(loc, [NoJob EXCEPT !.row = i])
    BY BeginFits DEF RowOf, Loc
  <2>3. JobsTyped'
    BY <2>1, <2>2, GotoTyped
  <2>4. CASE ReceiveWebhook(p, i)
    <3>1. RowsTyped'
      BY <2>4, ProviderTyped, Zenon DEF ReceiveWebhook
    <3> QED BY <2>3, <3>1
  <2>5. CASE VerifyPayment(p, i) \/ ProcessRefund(p, i)
    BY <2>3, <2>5 DEF VerifyPayment, ProcessRefund, RowsTyped, rows
  <2> QED BY <1>2, <2>4, <2>5
<1>3. ASSUME NEW p \in Requests, NEW s \in Settlements, ConfirmSettlement(p, s)
      PROVE  RowsTyped' /\ JobsTyped'
  <2>1. Fits("confirm", [NoJob EXCEPT !.row = s]) /\ Goto(p, "confirm", [NoJob EXCEPT !.row = s])
    BY <1>3, BeginFits DEF ConfirmSettlement, Begin, RowOf, Loc
  <2>2. JobsTyped'
    BY <2>1, GotoTyped
  <2> QED BY <1>3, <2>2 DEF ConfirmSettlement, RowsTyped, rows
<1>4. ASSUME NEW p \in Requests,
             \/ OpenSession(p) \/ MarkPending(p) \/ CreateCharge(p) \/ MarkFailed(p)
             \/ AskProvider(p) \/ WriteVerdict(p) \/ SettleCharge(p) \/ RecordReceipt(p)
             \/ CompleteByWebhook(p)
             \/ AskRefund(p) \/ RecordRefund(p) \/ MarkRefunded(p) \/ IssueRefund(p)
      PROVE  JobsTyped'
  <2>0. pc[p] \notin {"idle", "confirm", "confirmed"}
    BY <1>4 DEF OpenSession, MarkPending, CreateCharge, MarkFailed, AskProvider, WriteVerdict,
         SettleCharge, RecordReceipt, CompleteByWebhook, AskRefund, RecordRefund, MarkRefunded, IssueRefund
  <2>1. \/ Done(p)
        \/ \E loc \in Loc \ {"idle", "confirm", "confirmed"} : Goto(p, loc, job[p])
        \/ \E loc \in Loc \ {"idle", "confirm", "confirmed"}, ok \in BOOLEAN :
               Goto(p, loc, [job[p] EXCEPT !.ok = ok])
    <3>1. CASE OpenSession(p) \/ MarkPending(p) \/ CreateCharge(p) \/ MarkFailed(p)
      BY <3>1 DEF OpenSession, MarkPending, CreateCharge, MarkFailed, Loc
    <3>2. CASE AskProvider(p)
      <4>1. \A i : Reports(i) \subseteq BOOLEAN
        BY Zenon DEF Reports
      <4>2. PICK ok \in BOOLEAN : Goto(p, "verdict", [job[p] EXCEPT !.ok = ok])
        BY <3>2, <4>1 DEF AskProvider
      <4> QED BY <4>2 DEF Loc
    <3>3. CASE WriteVerdict(p) \/ SettleCharge(p) \/ RecordReceipt(p) \/ CompleteByWebhook(p)
      BY <3>3 DEF WriteVerdict, SettleCharge, RecordReceipt, CompleteByWebhook, Loc
    <3>4. CASE AskRefund(p)
      <4>1. PICK ok \in BOOLEAN : Goto(p, "granted", [job[p] EXCEPT !.ok = ok])
        BY <3>4, Zenon DEF AskRefund
      <4> QED BY <4>1 DEF Loc
    <3>5. CASE RecordRefund(p) \/ MarkRefunded(p) \/ IssueRefund(p)
      BY <3>5 DEF RecordRefund, MarkRefunded, IssueRefund, Loc
    <3> QED BY <1>4, <3>1, <3>2, <3>3, <3>4, <3>5, Zenon
  <2>2. CASE Done(p)
    BY <2>2, NoJobFits, GotoTyped DEF Done
  <2>3. ASSUME NEW loc \in Loc \ {"idle", "confirm", "confirmed"}, NEW ok \in BOOLEAN
        PROVE  Fits(loc, job[p]) /\ Fits(loc, [job[p] EXCEPT !.ok = ok])
    BY <2>0, SameJobFits DEF RowOf
  <2> QED BY <2>1, <2>2, <2>3, GotoTyped, Zenon
<1>5. ASSUME NEW p \in Requests,
             \/ OpenSession(p) \/ MarkPending(p) \/ CreateCharge(p) \/ MarkFailed(p)
             \/ AskProvider(p) \/ WriteVerdict(p) \/ SettleCharge(p) \/ RecordReceipt(p)
             \/ CompleteByWebhook(p)
             \/ AskRefund(p) \/ RecordRefund(p) \/ MarkRefunded(p) \/ IssueRefund(p)
      PROVE  RowsTyped'
  <2>1. PICK r \in Intents : job[p].row = r
    BY <1>5 DEF JobsTyped, RowOf, OpenSession, MarkPending, CreateCharge, MarkFailed, AskProvider, WriteVerdict,
         SettleCharge, RecordReceipt, CompleteByWebhook, AskRefund, RecordRefund, MarkRefunded, IssueRefund
  <2>2. Outcome(p) \in Outcomes
    BY DEF Outcome, Outcomes
  <2>3. CASE OpenSession(p)
    <3>1. CASE UNCHANGED provider
      BY <2>3, <3>1 DEF OpenSession, RowsTyped, rows
    <3>2. CASE provider' = [provider EXCEPT ![r].session = TRUE]
      BY <2>3, <3>2, ProviderTyped, Zenon DEF OpenSession
    <3> QED BY <2>1, <2>3, <3>1, <3>2 DEF OpenSession
  <2>4. CASE AskRefund(p)
    <3>1. CASE UNCHANGED provider
      BY <2>4, <3>1 DEF AskRefund, RowsTyped, rows
    <3>2. CASE provider' = [provider EXCEPT ![r].refunds = @ + 1]
      <4>1. provider[r].refunds + 1 \in Nat
        BY DEF RowsTyped
      <4>2. provider' \in [Intents -> ProviderType]
        BY <3>2, <4>1 DEF RowsTyped
      <4> QED BY <2>4, <4>2 DEF AskRefund, RowsTyped, rows
    <3> QED BY <2>1, <2>4, <3>1, <3>2 DEF AskRefund
  <2>5. CASE AskProvider(p)
    BY <2>5 DEF AskProvider, RowsTyped, rows
  <2>6. CASE MarkPending(p)
    BY <2>1, <2>6 DEF MarkPending, RowsTyped, IntentStatus
  <2>7. CASE MarkFailed(p)
    <3>1. "failed" \in IntentStatus
      BY DEF IntentStatus
    <3> QED BY <2>1, <2>7, <3>1, StatusTyped, Zenon DEF MarkFailed
  <2>8. CASE WriteVerdict(p)
    <3>1. intent' = [intent EXCEPT ![r].status = Outcome(p)]
      BY <2>1, <2>8 DEF WriteVerdict
    <3>2. Outcome(p) \in IntentStatus
      BY <2>2 DEF IntentStatus, Outcomes
    <3> QED BY <2>8, <3>1, <3>2, StatusTyped, Zenon DEF WriteVerdict
  <2>9. CASE CompleteByWebhook(p)
    <3>1. CASE UNCHANGED intent
      BY <2>9, <3>1 DEF CompleteByWebhook, RowsTyped
    <3>2. CASE intent' = [intent EXCEPT ![r].status = "completed"]
      <4>1. "completed" \in IntentStatus
        BY DEF IntentStatus, Outcomes
      <4> QED BY <2>9, <3>2, <4>1, StatusTyped, Zenon DEF CompleteByWebhook
    <3> QED BY <2>1, <2>9, <3>1, <3>2 DEF CompleteByWebhook
  <2>10. CASE MarkRefunded(p)
    <3>1. "refunded" \in IntentStatus
      BY DEF IntentStatus, Outcomes
    <3> QED BY <2>1, <2>10, <3>1, StatusTyped, Zenon DEF MarkRefunded
  <2>11. CASE CreateCharge(p)
    BY <2>1, <2>11 DEF CreateCharge, RowsTyped
  <2>12. CASE SettleCharge(p)
    BY <2>1, <2>2, <2>12 DEF SettleCharge, RowsTyped
  <2>13. CASE RecordReceipt(p)
    <3>1. CASE job[p].ok
      <4>1. ledger' = [ledger EXCEPT ![r].received = @ + 1]
        BY <2>1, <2>13, <3>1 DEF RecordReceipt
      <4>2. ledger[r].received + 1 \in Nat
        BY DEF RowsTyped
      <4>3. ledger' \in [Intents -> [received : Nat, issued : Nat]]
        BY <4>1, <4>2 DEF RowsTyped
      <4> QED BY <2>1, <2>13, <4>3 DEF RecordReceipt, RowsTyped
    <3>2. CASE ~ job[p].ok
      BY <2>1, <2>13, <3>2 DEF RecordReceipt, RowsTyped
    <3> QED BY <3>1, <3>2
  <2>14. CASE RecordRefund(p)
    BY <2>1, <2>14 DEF RecordRefund, RowsTyped
  <2>15. CASE IssueRefund(p)
    <3>1. ledger[r].issued + 1 \in Nat /\ ledger' = [ledger EXCEPT ![r].issued = @ + 1]
      BY <2>1, <2>15 DEF IssueRefund, RowsTyped
    <3>2. ledger' \in [Intents -> [received : Nat, issued : Nat]]
      BY <3>1 DEF RowsTyped
    <3> QED BY <2>15, <3>2 DEF IssueRefund, RowsTyped
  <2> QED BY <1>5, <2>3, <2>4, <2>5, <2>6, <2>7, <2>8, <2>9, <2>10, <2>11, <2>12, <2>13, <2>14, <2>15
<1>6. ASSUME NEW p \in Requests, MarkSettled(p) \/ RecordSettled(p)
      PROVE  RowsTyped' /\ JobsTyped'
  <2>0. pc[p] \in {"confirm", "confirmed"}
    BY <1>6 DEF MarkSettled, RecordSettled
  <2>1. PICK r \in Settlements : job[p].row = r
    BY <2>0 DEF MarkSettled, RecordSettled, JobsTyped, RowOf
  <2>2. Done(p) \/ Goto(p, "confirmed", job[p])
    BY <1>6 DEF MarkSettled, RecordSettled
  <2>3. Fits("confirmed", job[p])
    BY <2>0, <2>1, SameJobFits, Zenon DEF RowOf, Loc
  <2>4. JobsTyped'
    BY <2>2, <2>3, NoJobFits, GotoTyped DEF Done
  <2>5. CASE MarkSettled(p)
    BY <2>1, <2>4, <2>5 DEF MarkSettled, RowsTyped, rows
  <2>6. CASE RecordSettled(p)
    BY <2>1, <2>4, <2>6 DEF RecordSettled, RowsTyped, rows
  <2> QED BY <1>6, <2>5, <2>6
<1>7. ASSUME NEW p \in Requests, Fail(p)
      PROVE  RowsTyped' /\ JobsTyped'
  BY <1>7, NoJobFits, GotoTyped DEF Fail, Done, RowsTyped, rows
<1>8. ASSUME NEW i \in Intents, Pay(i)
      PROVE  RowsTyped' /\ JobsTyped'
  <2>1. RowsTyped'
    BY <1>8, ProviderTyped, Zenon DEF Pay
  <2> QED BY <1>8, <2>1 DEF Pay, JobsTyped
<1>9. ASSUME NEW s \in Settlements, RecordSettlement(s)
      PROVE  RowsTyped' /\ JobsTyped'
  BY <1>9, Zenon DEF RecordSettlement, RowsTyped, JobsTyped, rows
<1>10. CASE UNCHANGED vars
  BY <1>10 DEF vars, rows, RowsTyped, JobsTyped
<1> QED BY <1>1, <1>2, <1>3, <1>4, <1>5, <1>6, <1>7, <1>8, <1>9, <1>10 DEF Next, Step

LEMMA InitTyped == Init => TypeOK
BY DEF Init, TypeOK, NoJob, IntentStatus, Loc

\* Every row and every local of a request keeps its type, and a request works
\* on the table its step writes.
THEOREM TypeCorrect == Spec => []TypeOK
<1> QED BY InitTyped, StepTyped, PTL DEF Spec

-----------------------------------------------------------------------------
\* A request between the provider's good word and its last write works on a
\* payment that was made; one that was named by a webhook, or checked that the
\* intent is completed, on an intent somebody vouched for.
Heard(loc, j) == loc \in {"verdict", "settle", "receive"} /\ j.ok
Works(loc) == loc \in {"webhook", "refund", "granted", "refunded", "issue"}
Backs(loc, j) ==
    /\ Heard(loc, j) => provider[j.row].paid
    /\ Works(loc) => Vouched(j.row)
Carried == \A p \in Requests : Backs(pc[p], job[p])
PaidInv == TypeOK /\ ReceivedWasPaid /\ Carried

\* What the provider knows of an intent, or was told of it, stays.
LEMMA PaidForGood ==
    ASSUME TypeOK, [Next]_vars, NEW i \in Intents
    PROVE  (provider[i].paid => provider'[i].paid) /\ (Vouched(i) => Vouched(i)')
<1> USE DEF ProviderType, Vouched
<1>1. provider \in [Intents -> ProviderType]
  BY DEF TypeOK
<1> SUFFICES /\ provider[i].paid => provider'[i].paid
             /\ provider[i].told => provider'[i].told
  OBVIOUS
<1>2. ASSUME NEW p \in Requests, OpenSession(p) \/ AskRefund(p)
      PROVE  /\ provider[i].paid => provider'[i].paid
             /\ provider[i].told => provider'[i].told
  BY <1>1, <1>2 DEF OpenSession, AskRefund
<1>3. ASSUME NEW k \in Intents, Pay(k)
      PROVE  /\ provider[i].paid => provider'[i].paid
             /\ provider[i].told => provider'[i].told
  BY <1>1, <1>3 DEF Pay
<1>4. ASSUME NEW p \in Requests, NEW k \in Intents, ReceiveWebhook(p, k)
      PROVE  /\ provider[i].paid => provider'[i].paid
             /\ provider[i].told => provider'[i].told
  BY <1>1, <1>4 DEF ReceiveWebhook
<1>5. ASSUME UNCHANGED provider
      PROVE  /\ provider[i].paid => provider'[i].paid
             /\ provider[i].told => provider'[i].told
  BY <1>5
<1> QED BY <1>2, <1>3, <1>4, <1>5, Zenon DEF Next, Step, vars, InitializePayment, MarkPending, CreateCharge, MarkFailed,
      VerifyPayment, AskProvider, WriteVerdict, SettleCharge, RecordReceipt, CompleteByWebhook,
      ProcessRefund, RecordRefund, MarkRefunded, IssueRefund, RecordSettlement, ConfirmSettlement, MarkSettled,
      RecordSettled, Fail

\* A request that moves with what backs its new place leaves all requests backed.
LEMMA CarriedMove ==
    ASSUME TypeOK, Carried, [Next]_vars, NEW p \in Requests, NEW loc, NEW j, Goto(p, loc, j),
           Heard(loc, j) => j.row \in Intents /\ provider[j.row].paid,
           Works(loc) => j.row \in Intents /\ (Vouched(j.row) \/ Vouched(j.row)')
    PROVE  Carried'
<1> SUFFICES ASSUME NEW q \in Requests
             PROVE  Backs(pc[q], job[q])'
  BY DEF Carried
<1>1. pc' = [pc EXCEPT ![p] = loc] /\ job' = [job EXCEPT ![p] = j]
  BY DEF Goto
<1>2. CASE q = p
  <2>1. pc'[q] = loc /\ job'[q] = j
    BY <1>1, <1>2 DEF TypeOK
  <2>2. Heard(loc, j) => provider'[j.row].paid
    BY PaidForGood
  <2>3. Works(loc) => Vouched(j.row)'
    BY PaidForGood
  <2> QED BY <2>1, <2>2, <2>3 DEF Backs, Heard, Works, Vouched
<1>3. CASE q # p
  <2>1. pc'[q] = pc[q] /\ job'[q] = job[q]
    BY <1>1, <1>3 DEF TypeOK
  <2>2. Heard(pc[q], job[q]) \/ Works(pc[q]) => job[q].row \in Intents
    BY Zenon DEF Heard, Works, TypeOK
  <2>3. /\ Heard(pc[q], job[q]) => provider[job[q].row].paid
        /\ Works(pc[q]) => Vouched(job[q].row)
    BY DEF Carried, Backs
  <2>4. Heard(pc[q], job[q]) => provider'[job[q].row].paid
    BY <2>2, <2>3, PaidForGood
  <2>5. PICK r : r = job[q].row
    OBVIOUS
  <2>6. (Heard(pc[q], job[q]) => provider'[r].paid) /\ (Works(pc[q]) => Vouched(r)')
    BY <2>2, <2>3, <2>4, <2>5, PaidForGood
  <2> QED BY <2>1, <2>5, <2>6 DEF Backs, Heard, Works, Vouched
<1> QED BY <1>2, <1>3

\* What the provider answers is true of the payment.
LEMMA ReportsPaid == ASSUME NEW i PROVE \A ok \in Reports(i) : ok => provider[i].paid
BY Zenon DEF Reports

LEMMA CarriedStep == PaidInv /\ [Next]_vars => Carried'
<1> SUFFICES ASSUME TypeOK, ReceivedWasPaid, Carried, [Next]_vars
             PROVE  Carried'
  BY DEF PaidInv
<1>0. \A p \in Requests : pc[p] \notin {"idle", "confirm", "confirmed"} => job[p].row \in Intents
  BY Zenon DEF TypeOK
<1>1. ASSUME NEW p \in Requests, NEW i \in Intents, InitializePayment(p, i) \/ VerifyPayment(p, i)
      PROVE  Carried'
  <2>1. PICK loc \in {"open", "ask"} : Goto(p, loc, [NoJob EXCEPT !.row = i])
    BY <1>1 DEF InitializePayment, VerifyPayment, Begin
  <2> QED BY <2>1, CarriedMove DEF Heard, Works
<1>2. ASSUME NEW p \in Requests, NEW i \in Intents, ReceiveWebhook(p, i) \/ ProcessRefund(p, i)
      PROVE  Carried'
  <2>1. PICK loc \in {"webhook", "refund"} : Goto(p, loc, [NoJob EXCEPT !.row = i])
    BY <1>2 DEF ReceiveWebhook, ProcessRefund, Begin
  <2>2. ASSUME ReceiveWebhook(p, i) PROVE Vouched(i) \/ Vouched(i)'
    <3>1. provider \in [Intents -> ProviderType] /\ provider' = [provider EXCEPT ![i].told = TRUE]
      BY <2>2 DEF ReceiveWebhook, TypeOK, ProviderType
    <3>2. provider'[i].told
      BY <3>1 DEF ProviderType
    <3> QED BY <3>2 DEF Vouched
  <2>3. ASSUME ProcessRefund(p, i) PROVE Vouched(i) \/ Vouched(i)'
    BY <2>3 DEF ProcessRefund, ReceivedWasPaid
  <2>4. Vouched(i) \/ Vouched(i)'
    BY <1>2, <2>2, <2>3
  <2>5. [NoJob EXCEPT !.row = i].row = i
    BY DEF NoJob
  <2>6. ~ Heard(loc, [NoJob EXCEPT !.row = i])
    BY DEF Heard
  <2> QED BY <2>1, <2>4, <2>5, <2>6, CarriedMove, Zenon DEF Vouched
<1>3. ASSUME NEW p \in Requests, OpenSession(p) \/ MarkPending(p) \/ MarkSettled(p)
      PROVE  Carried'
  <2>1. PICK loc \in {"opened", "refused", "charge", "confirmed"} : Goto(p, loc, job[p])
    BY <1>3 DEF OpenSession, MarkPending, MarkSettled
  <2> QED BY <2>1, CarriedMove DEF Heard, Works
<1>4. ASSUME NEW p \in Requests, Done(p)
      PROVE  Carried'
  BY <1>4, CarriedMove DEF Done, Heard, Works
<1>5. ASSUME NEW p \in Requests, AskProvider(p)
      PROVE  Carried'
  <2>1. PICK ok \in Reports(job[p].row) : Goto(p, "verdict", [job[p] EXCEPT !.ok = ok])
    BY <1>5 DEF AskProvider
  <2>2. job[p].row \in Intents /\ job[p] \in JobType
    BY <1>5, Zenon DEF AskProvider, TypeOK, JobType
  <2>3. [job[p] EXCEPT !.ok = ok].row = job[p].row /\ [job[p] EXCEPT !.ok = ok].ok = ok
    BY <2>2 DEF JobType
  <2>4. ~ Works("verdict")
    BY DEF Works
  <2> QED BY <2>1, <2>2, <2>3, <2>4, ReportsPaid, CarriedMove, Zenon DEF Heard
<1>6. ASSUME NEW p \in Requests,
             WriteVerdict(p) \/ SettleCharge(p) \/ RecordRefund(p) \/ MarkRefunded(p), ~ Done(p)
      PROVE  Carried'
  <2>1. PICK loc \in Loc : /\ Goto(p, loc, job[p])
                          /\ (Heard(loc, job[p]) => Heard(pc[p], job[p]))
                          /\ (Works(loc) => Works(pc[p]))
    BY <1>6 DEF WriteVerdict, SettleCharge, RecordRefund, MarkRefunded, Loc, Heard, Works
  <2>2. pc[p] \in {"verdict", "settle", "granted", "refunded"}
    BY <1>6 DEF WriteVerdict, SettleCharge, RecordRefund, MarkRefunded
  <2>3. job[p].row \in Intents
    BY <1>0, <2>2
  <2> QED BY <2>1, <2>3, CarriedMove DEF Carried, Backs
<1>7. ASSUME NEW p \in Requests, AskRefund(p)
      PROVE  Carried'
  <2>1. PICK ok \in BOOLEAN : Goto(p, "granted", [job[p] EXCEPT !.ok = ok])
    BY <1>7, Zenon DEF AskRefund
  <2>2. job[p].row \in Intents /\ Vouched(job[p].row) /\ job[p] \in JobType
    BY <1>0, <1>7, Zenon DEF AskRefund, Carried, Backs, Works, TypeOK, JobType
  <2>3. [job[p] EXCEPT !.ok = ok].row = job[p].row
    BY <2>2 DEF JobType
  <2>4. ~ Heard("granted", [job[p] EXCEPT !.ok = ok])
    BY DEF Heard
  <2> QED BY <2>1, <2>2, <2>3, <2>4, CarriedMove, Zenon
<1>8. ASSUME NEW i \in Intents, Pay(i)
      PROVE  Carried'
  <2>1. pc' = pc /\ job' = job
    BY <1>8 DEF Pay
  <2> SUFFICES ASSUME NEW q \in Requests PROVE Backs(pc[q], job[q])'
    BY DEF Carried
  <2>2. Backs(pc[q], job[q]) /\ (Heard(pc[q], job[q]) \/ Works(pc[q]) => job[q].row \in Intents)
    BY <1>0 DEF Carried, Heard, Works
  <2>3. Heard(pc[q], job[q]) => provider'[job[q].row].paid
    BY <2>2, PaidForGood DEF Backs
  <2>4. PICK r : r = job[q].row
    OBVIOUS
  <2>5. (Heard(pc[q], job[q]) => provider'[r].paid) /\ (Works(pc[q]) => Vouched(r)')
    BY <2>2, <2>3, <2>4, PaidForGood DEF Backs
  <2> QED BY <2>1, <2>4, <2>5 DEF Backs, Heard, Works, Vouched
<1>9. ASSUME NEW p \in Requests, NEW s \in Settlements, ConfirmSettlement(p, s)
      PROVE  Carried'
  <2>1. Goto(p, "confirm", [NoJob EXCEPT !.row = s])
    BY <1>9 DEF ConfirmSettlement, Begin
  <2> QED BY <2>1, CarriedMove DEF Heard, Works
<1>10. CASE UNCHANGED <<provider, pc, job>>
  BY <1>10 DEF Carried, Backs, Heard, Works, Vouched
<1>11. ASSUME NEW p \in Requests,
              \/ CreateCharge(p) \/ MarkFailed(p) \/ RecordReceipt(p) \/ CompleteByWebhook(p)
              \/ IssueRefund(p) \/ RecordSettled(p) \/ Fail(p)
       PROVE  Done(p)
  BY <1>11 DEF CreateCharge, MarkFailed, RecordReceipt, CompleteByWebhook, IssueRefund, RecordSettled, Fail
<1>12. ASSUME NEW s \in Settlements, RecordSettlement(s)
       PROVE  Carried'
  BY <1>10, <1>12 DEF RecordSettlement
<1> QED BY <1>1, <1>2, <1>3, <1>4, <1>5, <1>6, <1>7, <1>8, <1>9, <1>10, <1>11, <1>12, Zenon
        DEF Next, Step, vars

\* What the books do not say of an intent that was not paid, and what its status
\* and refunds do not say of one nobody vouched for, no step makes them say.
Unbooked(i) == charge[i] # "completed" /\ ledger[i].received = 0
Silent(i) ==
    /\ intent[i].status \notin {"completed", "refunded"}
    /\ refunds[i] = 0 /\ provider[i].refunds = 0

LEMMA SilentIfUnpaid ==
    TypeOK => ( ReceivedWasPaid <=>
                \A i \in Intents : /\ provider[i].paid \/ Unbooked(i)
                                   /\ Vouched(i) \/ Silent(i) )
<1> SUFFICES ASSUME TypeOK, NEW i \in Intents
             PROVE  /\ Unbooked(i) <=> ~ (charge[i] = "completed" \/ ledger[i].received > 0)
                    /\ Silent(i) <=> ~ ( \/ intent[i].status \in {"completed", "refunded"}
                                        \/ refunds[i] > 0 \/ provider[i].refunds > 0 )
  BY DEF ReceivedWasPaid
<1>1. ledger[i].received \in Nat /\ refunds[i] \in Nat /\ provider[i].refunds \in Nat
  BY DEF TypeOK
<1> QED BY <1>1 DEF Silent, Unbooked

LEMMA UnbookedStep ==
    ASSUME PaidInv, [Next]_vars, NEW i \in Intents, ~ provider[i].paid, Unbooked(i)
    PROVE  Unbooked(i)'
<1>1. ASSUME NEW p \in Requests, CreateCharge(p)
      PROVE  Unbooked(i)'
  BY <1>1 DEF CreateCharge, Unbooked, PaidInv, TypeOK
<1>2. ASSUME NEW p \in Requests, SettleCharge(p) \/ RecordReceipt(p)
      PROVE  Unbooked(i)'
  <2>1. job[p].row = i => ~ job[p].ok
    BY <1>2 DEF SettleCharge, RecordReceipt, PaidInv, Carried, Backs, Heard
  <2> USE DEF Unbooked, PaidInv, TypeOK
  <2>2. CASE SettleCharge(p)
    BY <2>1, <2>2 DEF SettleCharge, Outcome
  <2>3. CASE RecordReceipt(p)
    BY <2>1, <2>3 DEF RecordReceipt
  <2> QED BY <1>2, <2>2, <2>3
<1>3. ASSUME NEW p \in Requests, IssueRefund(p)
      PROVE  Unbooked(i)'
  BY <1>3 DEF IssueRefund, Unbooked, PaidInv, TypeOK
<1>4. CASE UNCHANGED <<charge, ledger>>
  BY <1>4 DEF Unbooked
<1> QED BY <1>1, <1>2, <1>3, <1>4, Zenon DEF Next, Step, vars, rows, InitializePayment, OpenSession, MarkPending, MarkFailed,
      VerifyPayment, AskProvider, WriteVerdict, ReceiveWebhook, CompleteByWebhook, ProcessRefund, AskRefund, RecordRefund,
      MarkRefunded, RecordSettlement, ConfirmSettlement, MarkSettled, RecordSettled, Fail, Pay

LEMMA SilentStep ==
    ASSUME PaidInv, [Next]_vars, NEW i \in Intents, ~ Vouched(i), Silent(i)
    PROVE  Silent(i)'
<1>1. ASSUME NEW p \in Requests, NEW k \in Intents,
             InitializePayment(p, k) \/ VerifyPayment(p, k) \/ ReceiveWebhook(p, k) \/ ProcessRefund(p, k)
      PROVE  Silent(i)'
  <2> USE DEF Silent, PaidInv, TypeOK, rows
  <2>1. CASE InitializePayment(p, k)
    BY <2>1 DEF InitializePayment
  <2>2. CASE VerifyPayment(p, k) \/ ProcessRefund(p, k)
    BY <2>2 DEF VerifyPayment, ProcessRefund
  <2>3. CASE ReceiveWebhook(p, k)
    BY <2>3 DEF ReceiveWebhook
  <2> QED BY <1>1, <2>1, <2>2, <2>3
<1>2. ASSUME NEW p \in Requests, OpenSession(p) \/ MarkPending(p) \/ MarkFailed(p)
      PROVE  Silent(i)'
  <2> USE DEF Silent, PaidInv, TypeOK
  <2>1. CASE OpenSession(p)
    BY <2>1 DEF OpenSession, rows
  <2>2. CASE MarkPending(p)
    BY <2>2 DEF MarkPending
  <2>3. CASE MarkFailed(p)
    BY <2>3 DEF MarkFailed
  <2> QED BY <1>2, <2>1, <2>2, <2>3
<1>3. ASSUME NEW p \in Requests, WriteVerdict(p)
      PROVE  Silent(i)'
  <2>1. job[p].row = i => ~ job[p].ok
    BY <1>3 DEF WriteVerdict, PaidInv, Carried, Backs, Heard, Vouched
  <2> QED BY <1>3, <2>1 DEF WriteVerdict, Outcome, Silent, PaidInv, TypeOK
<1>4. ASSUME NEW p \in Requests,
             CompleteByWebhook(p) \/ AskRefund(p) \/ RecordRefund(p) \/ MarkRefunded(p)
      PROVE  Silent(i)'
  <2>1. job[p].row # i
    BY <1>4 DEF CompleteByWebhook, AskRefund, RecordRefund, MarkRefunded, PaidInv, Carried, Backs, Works
  <2> USE DEF Silent, PaidInv, TypeOK
  <2>2. CASE CompleteByWebhook(p) \/ MarkRefunded(p)
    BY <2>1, <2>2 DEF CompleteByWebhook, MarkRefunded
  <2>3. CASE AskRefund(p)
    BY <2>1, <2>3 DEF AskRefund, rows
  <2>4. CASE RecordRefund(p)
    BY <2>1, <2>4 DEF RecordRefund
  <2> QED BY <1>4, <2>2, <2>3, <2>4
<1>5. ASSUME NEW k \in Intents, Pay(k)
      PROVE  Silent(i)'
  BY <1>5 DEF Pay, Silent, rows, PaidInv, TypeOK
<1>6. CASE UNCHANGED <<provider, intent, refunds>>
  BY <1>6 DEF Silent
<1> QED BY <1>1, <1>2, <1>3, <1>4, <1>5, <1>6, Zenon DEF Next, Step, CreateCharge, AskProvider, SettleCharge, RecordReceipt,
      IssueRefund, ConfirmSettlement, MarkSettled, RecordSettled, Fail, RecordSettlement, vars, rows

\* In every order of verifications, webhooks, refunds and failures a charge is
\* completed and money booked as received only for a payment that was made; an
\* intent's status and its refunds may rest on a webhook that named it instead.
THEOREM PaidBeforeBooked == Spec => []ReceivedWasPaid
<1>1. Init => PaidInv
  <2>1. Init => ReceivedWasPaid /\ Carried
    BY DEF Init, ReceivedWasPaid, Carried, Backs, Heard, Works
  <2> QED BY <2>1, InitTyped DEF PaidInv
<1>2. PaidInv /\ [Next]_vars => PaidInv'
  <2> SUFFICES ASSUME PaidInv, [Next]_vars
               PROVE  PaidInv'
    OBVIOUS
  <2>1. TypeOK'
    BY StepTyped DEF PaidInv
  <2>2. Carried'
    BY CarriedStep
  <2>3. \A i \in Intents : provider'[i].paid \/ Unbooked(i)'
    BY SilentIfUnpaid, UnbookedStep, PaidForGood DEF PaidInv
  <2>4. \A i \in Intents : Vouched(i)' \/ Silent(i)'
    BY SilentIfUnpaid, SilentStep, PaidForGood DEF PaidInv
  <2>5. ReceivedWasPaid'
    BY <2>1, <2>3, <2>4 DEF ReceivedWasPaid, Unbooked, Silent, Vouched, TypeOK
  <2> QED BY <2>1, <2>2, <2>5 DEF PaidInv
<1>3. PaidInv => ReceivedWasPaid
  BY DEF PaidInv
<1> QED BY <1>1, <1>2, <1>3, PTL DEF Spec

-----------------------------------------------------------------------------
\* Counting the requests that carry a granted refund through a move of one.
LEMMA InFlightNat ==
    ASSUME NEW i, NEW L
    PROVE  IsFiniteSet(InStep(i, L)) /\ InFlight(i, L) \in Nat
<1>1. InStep(i, L) \subseteq Requests
  BY DEF InStep
<1>2. IsFiniteSet(InStep(i, L))
  BY <1>1, PaymentsAssumption, FS_Subset
<1> QED BY <1>2, FS_CardinalityType DEF InFlight

One(b) == IF b THEN 1 ELSE 0

LEMMA InFlightMove ==
    ASSUME TypeOK, NEW p \in Requests, NEW loc, NEW j, Goto(p, loc, j), NEW i, NEW L
    PROVE  /\ InFlight(i, L)' \in Nat
           /\ InFlight(i, L)' + One(p \in InStep(i, L))
                = InFlight(i, L) + One(j.row = i /\ j.ok /\ loc \in L)
<1> DEFINE S == InStep(i, L)
           T == {q \in Requests : job'[q].row = i /\ job'[q].ok /\ pc'[q] \in L}
           goes == j.row = i /\ j.ok /\ loc \in L
<1>0. InFlight(i, L)' = Cardinality(T)
  BY DEF InFlight, InStep
<1>1. p \in T <=> goes
  BY DEF Goto, TypeOK
<1>2. \A q \in Requests \ {p} : q \in T <=> q \in S
  BY DEF Goto, TypeOK, InStep
<1>3. S \subseteq Requests /\ T \subseteq Requests
  BY DEF InStep
<1>4. IsFiniteSet(S) /\ InFlight(i, L) = Cardinality(S) /\ Cardinality(S) \in Nat
  BY InFlightNat DEF InFlight
<1>5. IsFiniteSet(T) /\ Cardinality(T) \in Nat
  BY <1>3, PaymentsAssumption, FS_Subset, FS_CardinalityType
<1>6. CASE p \in S /\ goes
  <2>1. T = S
    BY <1>1, <1>2, <1>3, <1>6
  <2> QED BY <1>0, <1>4, <1>6, <2>1 DEF One
<1>7. CASE p \notin S /\ ~ goes
  <2>1. T = S
    BY <1>1, <1>2, <1>3, <1>7
  <2> QED BY <1>0, <1>4, <1>7, <2>1, Zenon DEF One
<1>8. CASE p \notin S /\ goes
  <2>1. T = S \cup {p}
    BY <1>1, <1>2, <1>3, <1>8
  <2>2. Cardinality(S \cup {p}) = Cardinality(S) + 1
    <3> HIDE DEF S
    <3> QED BY <1>4, <1>8, FS_AddElement, Zenon
  <2>3. Cardinality(T) = Cardinality(S) + 1
    BY <2>1, <2>2
  <2> QED BY <1>0, <1>4, <1>8, <2>3 DEF One
<1>9. CASE p \in S /\ ~ goes
  <2>1. S = T \cup {p} /\ p \notin T
    BY <1>1, <1>2, <1>3, <1>9
  <2>2. Cardinality(S) = Cardinality(T) + 1
    BY <1>5, <2>1, FS_AddElement
  <2> QED BY <1>0, <1>4, <1>5, <1>9, <2>2 DEF One
<1> QED BY <1>6, <1>7, <1>8, <1>9

Backed(i) ==
    /\ ledger[i].issued + InFlight(i, {"refunded", "issue"}) <= refunds[i]
    /\ refunds[i] + InFlight(i, {"granted"}) <= provider[i].refunds

\* Only a granted refund gets past its own record.
Granted == \A p \in Requests : pc[p] \in {"refunded", "issue"} => job[p].ok

\* A request that moves anywhere but into a refund leaves the accounts in order.
LEMMA BackedMove ==
    ASSUME TypeOK, NEW i \in Intents, Backed(i), NEW p \in Requests, NEW loc, NEW j, Goto(p, loc, j),
           loc \notin {"granted", "refunded", "issue"},
           UNCHANGED <<ledger[i].issued, refunds[i], provider[i].refunds>>
    PROVE  Backed(i)'
<1> DEFINE A == {"refunded", "issue"}
           B == {"granted"}
<1>1. InFlight(i, A)' \in Nat /\ InFlight(i, A)' <= InFlight(i, A)
  <2>1. InFlight(i, A)' \in Nat /\ InFlight(i, A)' + One(p \in InStep(i, A)) = InFlight(i, A) + 0
    BY InFlightMove DEF One
  <2> QED BY <2>1, InFlightNat DEF One
<1>2. InFlight(i, B)' \in Nat /\ InFlight(i, B)' <= InFlight(i, B)
  <2>1. InFlight(i, B)' \in Nat /\ InFlight(i, B)' + One(p \in InStep(i, B)) = InFlight(i, B) + 0
    BY InFlightMove DEF One
  <2> QED BY <2>1, InFlightNat DEF One
<1>3. ledger[i].issued \in Nat /\ refunds[i] \in Nat /\ provider[i].refunds \in Nat
  BY DEF TypeOK
<1> QED BY <1>1, <1>2, <1>3, InFlightNat DEF Backed

LEMMA BackedStep ==
    ASSUME TypeOK, Granted, [Next]_vars, NEW i \in Intents, Backed(i)
    PROVE  Backed(i)'
<1> DEFINE A == {"refunded", "issue"}
           B == {"granted"}
<1>0. /\ ledger[i].issued \in Nat /\ refunds[i] \in Nat /\ provider[i].refunds \in Nat
      /\ InFlight(i, A) \in Nat /\ InFlight(i, B) \in Nat
  BY InFlightNat DEF TypeOK
<1>1. ASSUME NEW p \in Requests, NEW loc \in Loc \ {"granted", "refunded", "issue"}, NEW j, Goto(p, loc, j),
             UNCHANGED <<ledger[i].issued, refunds[i], provider[i].refunds>>
      PROVE  Backed(i)'
  BY <1>1, BackedMove
<1>2. ASSUME NEW p \in Requests, AskRefund(p)
      PROVE  Backed(i)'
  <2>1. PICK ok \in BOOLEAN : Goto(p, "granted", [job[p] EXCEPT !.ok = ok])
                             /\ (ok => provider' = [provider EXCEPT ![job[p].row].refunds = @ + 1])
    BY <1>2, Zenon DEF AskRefund
  <2>2. /\ pc[p] = "refund" /\ UNCHANGED <<ledger, refunds>> /\ job[p] \in JobType
        /\ provider'[i].refunds \in Nat /\ provider'[i].refunds >= provider[i].refunds
        /\ (ok /\ job[p].row = i => provider'[i].refunds = provider[i].refunds + 1)
    <3>1. pc[p] = "refund" /\ UNCHANGED <<ledger, refunds>> /\ job[p] \in JobType
      BY <1>2 DEF AskRefund, rows, TypeOK, JobType
    <3>2. \/ UNCHANGED provider
          \/ provider' = [provider EXCEPT ![job[p].row].refunds = @ + 1]
      BY <1>2 DEF AskRefund
    <3>3. provider \in [Intents -> ProviderType]
      BY DEF TypeOK, ProviderType
    <3>4. CASE UNCHANGED provider
      <4>1. ~ (ok /\ job[p].row = i)
        <5> SUFFICES ASSUME ok, job[p].row = i PROVE FALSE
          OBVIOUS
        <5>1. provider' = [provider EXCEPT ![i].refunds = @ + 1]
          BY <2>1
        <5>2. provider'[i].refunds = provider[i].refunds + 1
          BY <3>3, <5>1 DEF ProviderType
        <5> QED BY <1>0, <3>4, <5>2
      <4> QED BY <1>0, <3>1, <3>4, <4>1
    <3>5. CASE provider' = [provider EXCEPT ![job[p].row].refunds = @ + 1]
      BY <1>0, <3>1, <3>3, <3>5 DEF ProviderType
    <3> QED BY <3>2, <3>4, <3>5
  <2>3. [job[p] EXCEPT !.ok = ok].row = job[p].row /\ [job[p] EXCEPT !.ok = ok].ok = ok
    BY <2>2 DEF JobType
  <2>4. p \notin InStep(i, A) /\ p \notin InStep(i, B)
    BY <2>2 DEF InStep
  <2>5. InFlight(i, A)' \in Nat /\ InFlight(i, A)' = InFlight(i, A)
    BY <2>1, <2>4, <1>0, InFlightMove DEF One
  <2>6. InFlight(i, B)' \in Nat /\ InFlight(i, B)' = InFlight(i, B) + One(job[p].row = i /\ ok)
    <3> DEFINE j == [job[p] EXCEPT !.ok = ok]
    <3> HIDE DEF j
    <3>1. Goto(p, "granted", j) /\ j.row = job[p].row /\ j.ok = ok
      BY <2>1, <2>3 DEF j
    <3>2. /\ InFlight(i, B)' \in Nat
          /\ InFlight(i, B)' + One(p \in InStep(i, B)) = InFlight(i, B) + One(j.row = i /\ j.ok /\ "granted" \in B)
      BY <3>1, InFlightMove
    <3> QED BY <1>0, <2>4, <3>1, <3>2 DEF One
  <2> QED BY <1>0, <2>2, <2>5, <2>6 DEF Backed, One
<1>3. ASSUME NEW p \in Requests, RecordRefund(p)
      PROVE  Backed(i)'
  <2>1. pc[p] = "granted" /\ UNCHANGED <<ledger, provider>>
    BY <1>3 DEF RecordRefund
  <2>2. CASE job[p].ok
    <3>1. Goto(p, "refunded", job[p]) /\ refunds' = [refunds EXCEPT ![job[p].row] = @ + 1]
      BY <1>3, <2>2 DEF RecordRefund
    <3>2. refunds'[i] = refunds[i] + One(job[p].row = i)
      BY <1>0, <3>1 DEF TypeOK, One
    <3>3. /\ p \in InStep(i, B) <=> job[p].row = i
          /\ p \notin InStep(i, A)
      BY <2>1, <2>2 DEF InStep
    <3>4. InFlight(i, A)' \in Nat /\ InFlight(i, A)' = InFlight(i, A) + One(job[p].row = i)
      BY <1>0, <2>2, <3>1, <3>3, InFlightMove DEF One
    <3>5. InFlight(i, B)' \in Nat /\ InFlight(i, B)' + One(job[p].row = i) = InFlight(i, B)
      BY <1>0, <2>2, <3>1, <3>3, InFlightMove DEF One
    <3> QED BY <1>0, <2>1, <3>2, <3>4, <3>5 DEF Backed, One
  <2>3. CASE ~ job[p].ok
    <3>1. Goto(p, "idle", NoJob) /\ refunds' = [refunds EXCEPT ![job[p].row] = @]
      BY <1>3, <2>3 DEF RecordRefund, Done
    <3>2. UNCHANGED <<ledger[i].issued, refunds[i], provider[i].refunds>>
      BY <2>1, <3>1 DEF TypeOK
    <3> QED BY <1>1, <3>1, <3>2 DEF Loc
  <2> QED BY <2>2, <2>3
<1>4. ASSUME NEW p \in Requests, MarkRefunded(p)
      PROVE  Backed(i)'
  <2>1. pc[p] = "refunded" /\ Goto(p, "issue", job[p]) /\ UNCHANGED <<provider, refunds, ledger>>
    BY <1>4 DEF MarkRefunded
  <2>2. /\ p \in InStep(i, A) <=> job[p].row = i /\ job[p].ok
        /\ p \notin InStep(i, B)
    BY <2>1 DEF InStep
  <2>3. InFlight(i, A)' \in Nat /\ InFlight(i, A)' = InFlight(i, A)
    BY <1>0, <2>1, <2>2, InFlightMove DEF One
  <2>4. InFlight(i, B)' \in Nat /\ InFlight(i, B)' = InFlight(i, B)
    BY <1>0, <2>1, <2>2, InFlightMove DEF One
  <2> QED BY <1>0, <2>1, <2>3, <2>4 DEF Backed
<1>5. ASSUME NEW p \in Requests, IssueRefund(p)
      PROVE  Backed(i)'
  <2>1. /\ pc[p] = "issue" /\ job[p].ok /\ Goto(p, "idle", NoJob)
        /\ ledger' = [ledger EXCEPT ![job[p].row].issued = @ + 1]
        /\ UNCHANGED <<provider, refunds>>
    BY <1>5 DEF IssueRefund, Done, Granted
  <2>2. ledger'[i].issued = ledger[i].issued + One(job[p].row = i)
    BY <1>0, <2>1 DEF TypeOK, One
  <2>3. /\ p \in InStep(i, A) <=> job[p].row = i
        /\ p \notin InStep(i, B)
    BY <2>1 DEF InStep
  <2>4. InFlight(i, A)' \in Nat /\ InFlight(i, A)' + One(job[p].row = i) = InFlight(i, A)
    BY <1>0, <2>1, <2>3, InFlightMove DEF One
  <2>5. InFlight(i, B)' \in Nat /\ InFlight(i, B)' = InFlight(i, B)
    BY <1>0, <2>1, <2>3, InFlightMove DEF One
  <2> QED BY <1>0, <2>1, <2>2, <2>4, <2>5 DEF Backed, One
<1>6. ASSUME NEW p \in Requests, NEW k \in Intents,
             InitializePayment(p, k) \/ VerifyPayment(p, k) \/ ReceiveWebhook(p, k) \/ ProcessRefund(p, k)
      PROVE  Backed(i)'
  <2>0. UNCHANGED <<ledger, refunds, provider[i].refunds>>
    <3>1. CASE ReceiveWebhook(p, k)
      <4>1. provider \in [Intents -> ProviderType] /\ provider' = [provider EXCEPT ![k].told = TRUE]
        BY <3>1 DEF ReceiveWebhook, TypeOK, ProviderType
      <4>2. provider'[i].refunds = provider[i].refunds
        BY <4>1 DEF ProviderType
      <4> QED BY <3>1, <4>2 DEF ReceiveWebhook, rows
    <3>2. CASE InitializePayment(p, k) \/ VerifyPayment(p, k) \/ ProcessRefund(p, k)
      BY <3>2 DEF InitializePayment, VerifyPayment, ProcessRefund, rows
    <3> QED BY <1>6, <3>1, <3>2
  <2>1. /\ \E loc \in {"open", "ask", "webhook", "refund"} : Goto(p, loc, [NoJob EXCEPT !.row = k])
        /\ UNCHANGED <<ledger, refunds, provider[i].refunds>>
    BY <1>6, <2>0 DEF InitializePayment, VerifyPayment, ReceiveWebhook, ProcessRefund, Begin
  <2> QED BY <1>1, <2>1 DEF Loc
<1>7. ASSUME NEW p \in Requests, NEW s \in Settlements, ConfirmSettlement(p, s)
      PROVE  Backed(i)'
  <2>1. Goto(p, "confirm", [NoJob EXCEPT !.row = s]) /\ UNCHANGED <<ledger, refunds, provider>>
    BY <1>7 DEF ConfirmSettlement, Begin, rows
  <2> QED BY <1>1, <2>1 DEF Loc
<1>8. ASSUME NEW p \in Requests, OpenSession(p)
      PROVE  Backed(i)'
  <2>1. \E loc \in {"opened", "refused"} : Goto(p, loc, job[p])
    BY <1>8 DEF OpenSession
  <2>2. UNCHANGED <<ledger, refunds, provider[i].refunds>>
    <3>1. \/ UNCHANGED provider
          \/ provider' = [provider EXCEPT ![job[p].row].session = TRUE]
      BY <1>8 DEF OpenSession
    <3>2. provider \in [Intents -> ProviderType]
      BY DEF TypeOK, ProviderType
    <3>3. provider'[i].refunds = provider[i].refunds
      <4>1. CASE UNCHANGED provider
        BY <4>1
      <4>2. CASE provider' = [provider EXCEPT ![job[p].row].session = TRUE]
        BY <3>2, <4>2 DEF ProviderType
      <4> QED BY <3>1, <4>1, <4>2
    <3> QED BY <1>8, <3>3 DEF OpenSession, rows
  <2> QED BY <1>1, <2>1, <2>2 DEF Loc
<1>9. ASSUME NEW p \in Requests, AskProvider(p)
      PROVE  Backed(i)'
  <2>1. PICK ok \in Reports(job[p].row) : Goto(p, "verdict", [job[p] EXCEPT !.ok = ok])
    BY <1>9 DEF AskProvider
  <2>2. UNCHANGED <<ledger, refunds, provider>>
    BY <1>9 DEF AskProvider, rows
  <2> QED BY <1>1, <2>1, <2>2 DEF Loc
<1>10. ASSUME NEW p \in Requests, RecordReceipt(p)
       PROVE  Backed(i)'
  <2>1. Goto(p, "idle", NoJob) /\ UNCHANGED <<ledger[i].issued, refunds, provider>>
    <3>1. \/ UNCHANGED ledger
          \/ ledger' = [ledger EXCEPT ![job[p].row].received = @ + 1]
      BY <1>10 DEF RecordReceipt
    <3>2. CASE UNCHANGED ledger
      BY <1>10, <3>2 DEF RecordReceipt, Done
    <3>3. CASE ledger' = [ledger EXCEPT ![job[p].row].received = @ + 1]
      <4>1. ledger \in [Intents -> [received : Nat, issued : Nat]]
        BY DEF TypeOK
      <4>2. ledger'[i].issued = ledger[i].issued
        BY <3>3, <4>1
      <4> QED BY <1>10, <4>2 DEF RecordReceipt, Done
    <3> QED BY <3>1, <3>2, <3>3
  <2> QED BY <1>1, <2>1 DEF Loc
<1>11. ASSUME NEW p \in Requests,
              \/ MarkPending(p) \/ CreateCharge(p) \/ MarkFailed(p) \/ WriteVerdict(p) \/ SettleCharge(p)
              \/ CompleteByWebhook(p) \/ MarkSettled(p) \/ RecordSettled(p) \/ Fail(p)
       PROVE  Backed(i)'
  <2>1. /\ \/ \E loc \in {"charge", "settle", "receive", "confirmed"} : Goto(p, loc, job[p])
           \/ Goto(p, "idle", NoJob)
        /\ UNCHANGED <<ledger, refunds, provider>>
    BY <1>11 DEF MarkPending, CreateCharge, MarkFailed, WriteVerdict, SettleCharge, CompleteByWebhook, MarkSettled,
         RecordSettled, Fail, Done, rows
  <2> QED BY <1>1, <2>1 DEF Loc
<1>12. ASSUME NEW k \in Intents, Pay(k)
       PROVE  Backed(i)'
  <2>1. UNCHANGED <<provider[i].refunds, ledger, refunds, pc, job>>
    BY <1>12 DEF Pay, rows, TypeOK
  <2> QED BY <2>1 DEF Backed, InFlight, InStep
<1>13. CASE UNCHANGED <<provider, ledger, refunds, pc, job>>
  BY <1>13 DEF Backed, InFlight, InStep
<1> QED BY <1>2, <1>3, <1>4, <1>5, <1>6, <1>7, <1>8, <1>9, <1>10, <1>11, <1>12, <1>13
        DEF Next, Step, RecordSettlement, vars, rows

LEMMA GrantedStep == TypeOK /\ Granted /\ [Next]_vars => Granted'
<1> SUFFICES ASSUME TypeOK, Granted, [Next]_vars
             PROVE  Granted'
  OBVIOUS
<1>1. ASSUME NEW p \in Requests, NEW loc, NEW j, Goto(p, loc, j), loc \in {"refunded", "issue"} => j.ok
      PROVE  Granted'
  BY <1>1 DEF Goto, Granted, TypeOK
<1>2. ASSUME NEW p \in Requests, NEW k \in Intents,
             InitializePayment(p, k) \/ VerifyPayment(p, k) \/ ReceiveWebhook(p, k) \/ ProcessRefund(p, k)
      PROVE  Granted'
  <2>1. \E loc \in {"open", "ask", "webhook", "refund"} : Goto(p, loc, [NoJob EXCEPT !.row = k])
    BY <1>2 DEF InitializePayment, VerifyPayment, ReceiveWebhook, ProcessRefund, Begin
  <2> QED BY <1>1, <2>1
<1>3. ASSUME NEW p \in Requests, NEW s \in Settlements, ConfirmSettlement(p, s)
      PROVE  Granted'
  <2>1. Goto(p, "confirm", [NoJob EXCEPT !.row = s])
    BY <1>3 DEF ConfirmSettlement, Begin
  <2> QED BY <1>1, <2>1
<1>4. ASSUME NEW p \in Requests, AskProvider(p) \/ AskRefund(p)
      PROVE  Granted'
  <2>1. \E loc \in {"verdict", "granted"} : \E ok : Goto(p, loc, [job[p] EXCEPT !.ok = ok])
    BY <1>4, Zenon DEF AskProvider, AskRefund
  <2> QED BY <1>1, <2>1
<1>5. ASSUME NEW p \in Requests, RecordRefund(p) \/ MarkRefunded(p)
      PROVE  Granted'
  <2>1. Goto(p, "idle", NoJob) \/ \E loc \in {"refunded", "issue"} : Goto(p, loc, job[p]) /\ job[p].ok
    BY <1>5 DEF RecordRefund, MarkRefunded, Done, Granted
  <2> QED BY <1>1, <2>1
<1>6. ASSUME NEW p \in Requests,
             \/ OpenSession(p) \/ MarkPending(p) \/ CreateCharge(p) \/ MarkFailed(p) \/ WriteVerdict(p)
             \/ SettleCharge(p) \/ RecordReceipt(p) \/ CompleteByWebhook(p) \/ IssueRefund(p)
             \/ MarkSettled(p) \/ RecordSettled(p) \/ Fail(p)
      PROVE  Granted'
  <2>1. \/ \E loc \in {"opened", "refused", "charge", "settle", "receive", "confirmed"} : Goto(p, loc, job[p])
        \/ Goto(p, "idle", NoJob)
    BY <1>6 DEF OpenSession, MarkPending, CreateCharge, MarkFailed, WriteVerdict, SettleCharge, RecordReceipt,
         CompleteByWebhook, IssueRefund, MarkSettled, RecordSettled, Fail, Done
  <2> QED BY <1>1, <2>1
<1>7. CASE UNCHANGED <<pc, job>>
  BY <1>7 DEF Granted
<1> QED BY <1>2, <1>3, <1>4, <1>5, <1>6, <1>7 DEF Next, Step, Pay, RecordSettlement, vars

\* The ledger never shows more refunds than were stored, nor the store more
\* than the provider granted, whoever is between these records.
THEOREM RefundsAccounted == Spec => []RefundsBacked
<1> DEFINE Inv == TypeOK /\ Granted /\ \A i \in Intents : Backed(i)
<1>1. Init => Inv
  <2> SUFFICES ASSUME Init
               PROVE  Inv
    OBVIOUS
  <2>1. TypeOK /\ Granted
    BY InitTyped DEF Init, Granted
  <2>2. ASSUME NEW i \in Intents
        PROVE  Backed(i)
    <3>1. \A L : "idle" \notin L => InStep(i, L) = {}
      BY DEF InStep, Init
    <3>2. InFlight(i, {"refunded", "issue"}) = 0 /\ InFlight(i, {"granted"}) = 0
      BY <3>1, FS_EmptySet DEF InFlight
    <3> QED BY <3>2 DEF Backed, Init
  <2> QED BY <2>1, <2>2
<1>2. Inv /\ [Next]_vars => Inv'
  <2> SUFFICES ASSUME Inv, [Next]_vars
               PROVE  Inv'
    OBVIOUS
  <2>1. TypeOK' /\ Granted'
    BY StepTyped, GrantedStep
  <2>2. \A i \in Intents : Backed(i)'
    BY BackedStep
  <2> QED BY <2>1, <2>2
<1>3. Inv => RefundsBacked
  BY DEF Backed, RefundsBacked
<1> QED BY <1>1, <1>2, <1>3, PTL DEF Spec

-----------------------------------------------------------------------------
\* A request that is about to write the event has marked the settlement.
Marked == \A p \in Requests : pc[p] = "confirmed" => settlement[job[p].row].status = "settled"
SettleInv == TypeOK /\ Marked /\ SettledBeforeRecorded

\* A settlement stays settled.
LEMMA SettledForGood ==
    ASSUME TypeOK, [Next]_vars, NEW s \in Settlements, settlement[s].status = "settled"
    PROVE  settlement'[s].status = "settled"
<1>1. ASSUME NEW p \in Requests, MarkSettled(p) \/ RecordSettled(p)
      PROVE  settlement'[s].status = "settled"
  <2>1. settlement \in [Settlements -> [status : {"absent", "pending", "settled"}, events : Nat]]
    BY DEF TypeOK
  <2>2. CASE MarkSettled(p)
    BY <2>1, <2>2 DEF MarkSettled
  <2>3. CASE RecordSettled(p)
    <3>1. settlement' = [settlement EXCEPT ![job[p].row].events = @ + 1]
      BY <2>3 DEF RecordSettled
    <3> QED BY <2>1, <3>1
  <2> QED BY <1>1, <2>2, <2>3
<1>2. ASSUME NEW r \in Settlements, RecordSettlement(r)
      PROVE  settlement'[s].status = "settled"
  BY <1>2 DEF RecordSettlement, TypeOK
<1>3. ASSUME UNCHANGED settlement
      PROVE  settlement'[s].status = "settled"
  BY <1>3
<1> QED BY <1>1, <1>2, <1>3, Zenon DEF Next, Step, vars, InitializePayment, OpenSession, MarkPending, CreateCharge,
      MarkFailed, VerifyPayment, AskProvider, WriteVerdict, SettleCharge, RecordReceipt, ReceiveWebhook,
      CompleteByWebhook, ProcessRefund, AskRefund, RecordRefund, MarkRefunded, IssueRefund, ConfirmSettlement,
      Pay, Fail

LEMMA MarkedMove ==
    ASSUME TypeOK, Marked, [Next]_vars, NEW p \in Requests, NEW loc, NEW j, Goto(p, loc, j),
           loc = "confirmed" => settlement'[j.row].status = "settled"
    PROVE  Marked'
<1> SUFFICES ASSUME NEW q \in Requests, pc'[q] = "confirmed"
             PROVE  settlement'[job'[q].row].status = "settled"
  BY DEF Marked
<1>1. CASE q = p
  BY <1>1 DEF Goto, TypeOK
<1>2. CASE q # p
  <2>1. pc'[q] = pc[q] /\ job'[q] = job[q]
    BY <1>2 DEF Goto, TypeOK
  <2>2. job[q].row \in Settlements
    BY <2>1, Zenon DEF TypeOK
  <2> QED BY <2>1, <2>2, SettledForGood DEF Marked
<1> QED BY <1>1, <1>2

LEMMA MarkedStep == SettleInv /\ [Next]_vars => Marked'
<1> SUFFICES ASSUME TypeOK, Marked, [Next]_vars PROVE Marked'
  BY DEF SettleInv
<1>1. ASSUME NEW p \in Requests, NEW i \in Intents,
             InitializePayment(p, i) \/ VerifyPayment(p, i) \/ ReceiveWebhook(p, i) \/ ProcessRefund(p, i)
      PROVE  Marked'
  <2>1. \E loc \in {"open", "ask", "webhook", "refund"} : Goto(p, loc, [NoJob EXCEPT !.row = i])
    BY <1>1 DEF InitializePayment, VerifyPayment, ReceiveWebhook, ProcessRefund, Begin
  <2> QED BY <2>1, MarkedMove
<1>2. ASSUME NEW p \in Requests, NEW s \in Settlements, ConfirmSettlement(p, s)
      PROVE  Marked'
  <2>1. Goto(p, "confirm", [NoJob EXCEPT !.row = s])
    BY <1>2 DEF ConfirmSettlement, Begin
  <2> QED BY <2>1, MarkedMove
<1>3. ASSUME NEW p \in Requests, MarkSettled(p)
      PROVE  Marked'
  <2>1. /\ Goto(p, "confirmed", job[p]) /\ job[p].row \in Settlements
        /\ settlement' = [settlement EXCEPT ![job[p].row].status = "settled"]
    BY <1>3, Zenon DEF MarkSettled, TypeOK
  <2>2. settlement'[job[p].row].status = "settled"
    BY <2>1 DEF TypeOK
  <2> QED BY <2>1, <2>2, MarkedMove
<1>4. ASSUME NEW p \in Requests, AskProvider(p) \/ AskRefund(p)
      PROVE  Marked'
  <2>1. \E loc \in {"verdict", "granted"} : \E ok : Goto(p, loc, [job[p] EXCEPT !.ok = ok])
    BY <1>4, Zenon DEF AskProvider, AskRefund
  <2> QED BY <2>1, MarkedMove
<1>5. ASSUME NEW p \in Requests,
             \/ OpenSession(p) \/ MarkPending(p) \/ CreateCharge(p) \/ MarkFailed(p) \/ WriteVerdict(p)
             \/ SettleCharge(p) \/ RecordReceipt(p) \/ CompleteByWebhook(p) \/ RecordRefund(p)
             \/ MarkRefunded(p) \/ IssueRefund(p) \/ RecordSettled(p) \/ Fail(p)
      PROVE  Marked'
  <2>1. \/ \E loc \in {"opened", "refused", "charge", "settle", "receive", "refunded", "issue"} :
               Goto(p, loc, job[p])
        \/ Goto(p, "idle", NoJob)
    BY <1>5 DEF OpenSession, MarkPending, CreateCharge, MarkFailed, WriteVerdict, SettleCharge, RecordReceipt,
         CompleteByWebhook, RecordRefund, MarkRefunded, IssueRefund, RecordSettled, Fail, Done
  <2> QED BY <2>1, MarkedMove
<1>6. CASE UNCHANGED <<pc, job>>
  <2> SUFFICES ASSUME NEW q \in Requests, pc[q] = "confirmed"
               PROVE  settlement'[job[q].row].status = "settled"
    BY <1>6 DEF Marked
  <2>1. job[q].row \in Settlements /\ settlement[job[q].row].status = "settled"
    BY DEF TypeOK, Marked
  <2> QED BY <2>1, SettledForGood
<1> QED BY <1>1, <1>2, <1>3, <1>4, <1>5, <1>6 DEF Next, Step, Pay, RecordSettlement, vars

\* Two confirmations of one settlement may overlap, and either may die between
\* its two writes: the ledger never tells of a settlement that is not settled.
THEOREM SettledFirst == Spec => []SettledBeforeRecorded
<1>1. Init => SettleInv
  BY InitTyped DEF Init, SettleInv, Marked, SettledBeforeRecorded
<1>2. SettleInv /\ [Next]_vars => SettleInv'
  <2> SUFFICES ASSUME SettleInv, [Next]_vars PROVE SettleInv'
    OBVIOUS
  <2>1. TypeOK' /\ Marked'
    BY StepTyped, MarkedStep DEF SettleInv
  <2>2. SettledBeforeRecorded'
    <3> SUFFICES ASSUME NEW s \in Settlements, settlement'[s].events > 0
                 PROVE  settlement'[s].status = "settled"
      BY DEF SettledBeforeRecorded
    <3>1. CASE settlement[s].events > 0
      BY <3>1, SettledForGood DEF SettleInv, SettledBeforeRecorded
    <3>2. CASE ~ (settlement[s].events > 0)
      <4>1. settlement'[s].events # settlement[s].events
        BY <3>2
      <4>2. PICK p \in Requests : RecordSettled(p) /\ job[p].row = s
        <5>1. \/ \E p \in Requests : MarkSettled(p) \/ RecordSettled(p)
              \/ \E r \in Settlements : RecordSettlement(r)
          BY <4>1, Zenon DEF Next, Step, vars, InitializePayment, OpenSession, MarkPending, CreateCharge,
               MarkFailed, VerifyPayment, AskProvider, WriteVerdict, SettleCharge, RecordReceipt,
               ReceiveWebhook, CompleteByWebhook, ProcessRefund, AskRefund, RecordRefund, MarkRefunded,
               IssueRefund, ConfirmSettlement, Pay, Fail
        <5>2. ASSUME NEW p \in Requests, MarkSettled(p) PROVE FALSE
          BY <4>1, <5>2 DEF MarkSettled, SettleInv, TypeOK
        <5>3. ASSUME NEW r \in Settlements, RecordSettlement(r) PROVE FALSE
          BY <4>1, <5>3 DEF RecordSettlement, SettleInv, TypeOK
        <5>4. ASSUME NEW p \in Requests, RecordSettled(p), job[p].row # s PROVE FALSE
          BY <4>1, <5>4 DEF RecordSettled, SettleInv, TypeOK
        <5> QED BY <5>1, <5>2, <5>3, <5>4
      <4>3. settlement[s].status = "settled"
        BY <4>2 DEF RecordSettled, SettleInv, Marked
      <4> QED BY <4>3, SettledForGood DEF SettleInv
    <3> QED BY <3>1, <3>2
  <2> QED BY <2>1, <2>2 DEF SettleInv
<1>3. SettleInv => SettledBeforeRecorded
  BY DEF SettleInv
<1> QED BY <1>1, <1>2, <1>3, PTL DEF Spec

-----------------------------------------------------------------------------
(* Policies *)

\* A step is one of the part in focus, or leaves its rows alone.
LEMMA PolicyTurn == ASSUME [ServicesNext]_servicesVars
  PROVE  /\ UNCHANGED <<focus, solo>>
         /\ focus = "policies" => PA!PolicyNext \/ UNCHANGED PA!vars
         /\ focus = "tickets" => PA!TicketNext \/ UNCHANGED PA!vars
<1> USE DEF PA!vars, paVars, PA!policyVars, PA!ticketVars, PA!catalogVars, PA!quotaVars
<1>1. CASE ServiceStep /\ UNCHANGED <<focus, solo>>
  BY <1>1 DEF ServiceStep, PAStep, OBStep, FEStep, MSStep, NOStep, IGStep, ACStep, SEStep, SRStep
<1>2. CASE PaymentsStep /\ UNCHANGED <<focus, solo>>
  BY <1>2 DEF PaymentsStep
<1>3. CASE UNCHANGED servicesVars
  BY <1>3 DEF servicesVars
<1> QED BY <1>1, <1>2, <1>3 DEF ServicesNext

PolicyOps == {"update", "submit", "publish", "archive"}
PolicyCall(c) ==
    c = PA!Idle \/ \E op \in PolicyOps : \E k \in Policies : c = [op |-> op, key |-> k]

\* What a request read of a policy was so, and the audit rows remember it.
PolicyKnows(c) ==
    c # PA!Idle =>
        /\ policy[c.key].status # "none"
        /\ c.op \in {"publish", "archive"} => PA!Did(c.key, "submit")
        /\ c.op = "archive" => PA!Did(c.key, "publish")
        /\ solo => policy[c.key].status \in PA!Expects[c.op]

PolicyBacked(k) ==
    /\ policy[k].status \in {"in_review", "published", "archived"} => PA!Did(k, "submit")
    /\ policy[k].status \in {"published", "archived"} => PA!Did(k, "publish")
    /\ solo /\ policy[k].status = "published" =>
          /\ policy[k].version = policy[k].publishedAt
          /\ <<"publish", policy[k].version>> \in trail[k]

PolicyTyped ==
    /\ policy \in [Policies -> [status : PA!PolicyStatus \cup {"none"},
                                version : 0..MaxEdits, publishedAt : 0..MaxEdits]]
    /\ DOMAIN trail = Policies
    /\ DOMAIN asking = Requests
    /\ \A q \in Requests : PolicyCall(asking[q])
PolicyInv ==
    /\ PolicyTyped
    /\ \A q \in Requests : PolicyKnows(asking[q])
    /\ \A k \in Policies : PolicyBacked(k)
    /\ solo => \A q, r \in Requests : asking[q] # PA!Idle /\ asking[r] # PA!Idle => q = r

PolicyRow == [status : PA!PolicyStatus \cup {"none"}, version : 0..MaxEdits,
              publishedAt : 0..MaxEdits]

LEMMA PolicyHeld == ASSUME PolicyInv, NEW q \in Requests, asking[q].op \in PolicyOps
  PROVE  /\ asking[q] # PA!Idle
         /\ asking[q].key \in Policies
         /\ asking[q] = [op |-> asking[q].op, key |-> asking[q].key]
  BY DEF PolicyInv, PolicyTyped, PolicyCall, PA!Idle, PolicyOps

\* A write adds its audit put, ends its request, and leaves what the audit
\* rows of others say.
LEMMA PolicyWrite ==
  ASSUME PolicyInv, UNCHANGED solo, NEW q \in Requests, asking[q].op \in PolicyOps,
         NEW k, k = asking[q].key, NEW put \in PolicyRow, put.status # "none",
         PA!WritePolicy(q, k, put), PolicyBacked(k)'
  PROVE  PolicyInv'
<1> DEFINE op == asking[q].op
<1>1. k \in Policies /\ asking[q] # PA!Idle
  BY PolicyHeld, Zenon
<1>2. /\ policy' = [policy EXCEPT ![k] = put]
      /\ trail' = [trail EXCEPT ![k] = @ \cup {<<op, put.version>>}]
      /\ asking' = [asking EXCEPT ![q] = PA!Idle]
  BY DEF PA!WritePolicy, PA!End
<1>3. PolicyTyped'
  <2>1. policy' \in [Policies -> PolicyRow]
    BY <1>1, <1>2 DEF PolicyInv, PolicyTyped, PolicyRow
  <2>2. DOMAIN trail' = Policies /\ DOMAIN asking' = Requests
    BY <1>2 DEF PolicyInv, PolicyTyped
  <2>3. \A r \in Requests : PolicyCall(asking'[r])
    BY <1>2 DEF PolicyInv, PolicyTyped, PolicyCall
  <2> QED BY <2>1, <2>2, <2>3 DEF PolicyTyped, PolicyCall, PolicyRow
<1>4. ASSUME NEW j \in Policies, NEW o, PA!Did(j, o) PROVE PA!Did(j, o)'
  BY <1>1, <1>2, <1>4 DEF PolicyInv, PolicyTyped, PA!Did
<1>5. ASSUME NEW r \in Requests PROVE PolicyKnows(asking[r])'
  <2>1. CASE r = q BY <1>2, <2>1 DEF PolicyKnows, PolicyInv, PolicyTyped
  <2>2. CASE asking[r] = PA!Idle BY <1>2, <2>2 DEF PolicyKnows, PolicyInv, PolicyTyped
  <2>3. CASE r # q /\ asking[r] # PA!Idle
    <3>1. asking'[r] = asking[r] /\ ~solo
      BY <1>1, <1>2, <2>3 DEF PolicyInv, PolicyTyped
    <3>2. asking[r].key \in Policies
      BY <2>3 DEF PolicyInv, PolicyTyped, PolicyCall, PA!Idle
    <3>3. policy'[asking[r].key].status # "none"
      BY <1>1, <1>2, <2>3, <3>2 DEF PolicyInv, PolicyTyped, PolicyKnows
    <3>4. PolicyKnows(asking[r])
      BY DEF PolicyInv
    <3> QED BY <1>4, <2>3, <3>1, <3>2, <3>3, <3>4 DEF PolicyKnows
  <2> QED BY <2>1, <2>2, <2>3
<1>6. ASSUME NEW j \in Policies PROVE PolicyBacked(j)'
  <2>1. CASE j = k BY <2>1
  <2>2. CASE j # k
    <3>1. policy'[j] = policy[j] /\ trail'[j] = trail[j]
      BY <1>2, <2>2 DEF PolicyInv, PolicyTyped
    <3> QED BY <3>1 DEF PolicyBacked, PolicyInv, PA!Did
  <2> QED BY <2>1, <2>2
<1>7. solo => \A r, s \in Requests : asking'[r] # PA!Idle /\ asking'[s] # PA!Idle => r = s
  BY <1>2 DEF PolicyInv, PolicyTyped
<1> QED BY <1>3, <1>5, <1>6, <1>7 DEF PolicyInv

LEMMA PolicyStep == ASSUME PolicyInv, PA!PolicyNext PROVE PolicyInv'
<1> USE ServicesAssumption
<1>0. UNCHANGED solo BY DEF PA!PolicyNext
<1>1. ASSUME NEW k \in Policies, PA!CreatePolicy(k) PROVE PolicyInv'
  <2>1. /\ policy' = [policy EXCEPT ![k] = [status |-> "draft", version |-> 1, publishedAt |-> 0]]
        /\ trail' = [trail EXCEPT ![k] = {<<"create", 1>>}]
        /\ asking' = asking /\ policy[k].status = "none"
    BY <1>1 DEF PA!CreatePolicy, PA!NoPolicy
  <2>2. PolicyTyped'
    BY <2>1 DEF PolicyInv, PolicyTyped, PA!PolicyStatus, PolicyCall
  <2>3. ASSUME NEW r \in Requests PROVE PolicyKnows(asking[r])'
    <3>1. CASE asking[r] = PA!Idle BY <2>1, <3>1 DEF PolicyKnows
    <3>2. CASE asking[r] # PA!Idle
      <4>1. asking[r].key \in Policies /\ asking[r].key # k
        BY <2>1, <3>2 DEF PolicyInv, PolicyTyped, PolicyCall, PolicyKnows, PA!Idle
      <4>2. policy'[asking[r].key] = policy[asking[r].key] /\ trail'[asking[r].key] = trail[asking[r].key]
        BY <2>1, <4>1 DEF PolicyInv, PolicyTyped
      <4> QED BY <1>0, <2>1, <4>2 DEF PolicyInv, PolicyKnows, PA!Did, PA!Expects
    <3> QED BY <3>1, <3>2
  <2>4. ASSUME NEW j \in Policies PROVE PolicyBacked(j)'
    <3>1. CASE j = k BY <2>1, <3>1 DEF PolicyBacked, PolicyInv, PolicyTyped
    <3>2. CASE j # k
      <4>1. policy'[j] = policy[j] /\ trail'[j] = trail[j]
        BY <2>1, <3>2 DEF PolicyInv, PolicyTyped
      <4> QED BY <1>0, <4>1 DEF PolicyBacked, PolicyInv, PA!Did
    <3> QED BY <3>1, <3>2
  <2> QED BY <1>0, <2>1, <2>2, <2>3, <2>4 DEF PolicyInv
<1>2. ASSUME NEW q \in Requests, NEW k \in Policies, NEW op \in DOMAIN PA!Expects,
             PA!ReadPolicy(q, k, op)
      PROVE PolicyInv'
  <2> DEFINE c == [op |-> op, key |-> k]
  <2>1. /\ policy' = policy /\ trail' = trail
        /\ asking' = [asking EXCEPT ![q] = c]
        /\ asking[q] = PA!Idle
        /\ solo => \A r \in Requests : asking[r] = PA!Idle
        /\ policy[k].status \in PA!Expects[op]
    BY <1>2 DEF PA!ReadPolicy, PA!policyVars, PA!Begin, PA!Free
  <2>2. op \in PolicyOps /\ c # PA!Idle
    BY DEF PA!Expects, PolicyOps, PA!Idle
  <2>3. PolicyTyped'
    <3>1. PolicyCall(c) BY <2>2 DEF PolicyCall
    <3>2. ASSUME NEW r \in Requests PROVE PolicyCall(asking'[r])
      <4> HIDE DEF c
      <4> QED BY <2>1, <3>1 DEF PolicyInv, PolicyTyped
    <3>3. policy' \in [Policies -> PolicyRow] /\ DOMAIN trail' = Policies /\ DOMAIN asking' = Requests
      BY <2>1 DEF PolicyInv, PolicyTyped, PolicyRow
    <3> QED BY <3>2, <3>3 DEF PolicyTyped, PolicyRow, PolicyCall
  <2>4. PolicyKnows(c)
    <3>1. PolicyBacked(k) BY DEF PolicyInv
    <3>2. c.key = k /\ c.op = op OBVIOUS
    <3>3. policy[k].status # "none" BY <2>1 DEF PA!Expects
    <3>4. op \in {"publish", "archive"} => PA!Did(k, "submit")
      BY <2>1, <3>1 DEF PolicyBacked, PA!Expects
    <3>5. op = "archive" => PA!Did(k, "publish")
      BY <2>1, <3>1 DEF PolicyBacked, PA!Expects
    <3> QED BY <2>1, <3>2, <3>3, <3>4, <3>5 DEF PolicyKnows
  <2>5. ASSUME NEW r \in Requests PROVE PolicyKnows(asking[r])'
    <3>1. PolicyKnows(asking'[r]) BY <2>1, <2>4 DEF PolicyInv, PolicyTyped
    <3> QED BY <1>0, <2>1, <3>1 DEF PolicyKnows, PA!Did, PA!Expects
  <2>6. \A j \in Policies : PolicyBacked(j)'
    BY <1>0, <2>1 DEF PolicyInv, PolicyBacked, PA!Did
  <2>7. solo => \A r, s \in Requests : asking'[r] # PA!Idle /\ asking'[s] # PA!Idle => r = s
    BY <2>1 DEF PolicyInv, PolicyTyped
  <2> QED BY <1>0, <2>3, <2>5, <2>6, <2>7 DEF PolicyInv
<1>3. ASSUME NEW q \in Requests, asking[q].op = "update", PA!UpdatePolicy(q) PROVE PolicyInv'
  <2>0. PICK k : k = asking[q].key OBVIOUS
  <2> DEFINE put == [policy[k] EXCEPT !.version = @ + 1]
  <2>1. k \in Policies /\ asking[q] # PA!Idle /\ PolicyKnows(asking[q]) /\ PolicyBacked(k)
    BY <2>0, <1>3, PolicyHeld, Zenon DEF PolicyInv, PolicyOps
  <2>2. policy[k] \in PolicyRow /\ policy[k].version < MaxEdits
    BY <2>0, <1>3, <2>1 DEF PolicyInv, PolicyTyped, PolicyRow, PA!UpdatePolicy
  <2>3. put \in PolicyRow /\ put.status = policy[k].status
    BY <2>0, <2>2 DEF PolicyRow
  <2>4. PA!WritePolicy(q, k, put) BY <2>0, <1>3 DEF PA!UpdatePolicy
  <2>5. PolicyBacked(k)'
    <3>1. /\ policy'[k].status = policy[k].status
          /\ \A a \in trail[k] : a \in trail'[k]
      BY <2>0, <2>1, <2>3, <2>4 DEF PolicyInv, PolicyTyped, PA!WritePolicy
    <3>2. solo => policy[k].status \in {"draft", "in_review"}
      BY <2>0, <1>3, <2>1 DEF PolicyKnows, PA!Expects
    <3> QED BY <2>0, <1>0, <2>1, <3>1, <3>2 DEF PolicyBacked, PA!Did
  <2> QED BY <2>0, <1>0, <1>3, <2>1, <2>3, <2>4, <2>5, PolicyWrite, Zenon DEF PolicyOps, PolicyKnows
<1>4. ASSUME NEW q \in Requests, asking[q].op \in {"submit", "publish", "archive"},
             NEW put \in PolicyRow, PA!WritePolicy(q, asking[q].key, put),
             put.status = CASE asking[q].op = "submit" -> "in_review"
                            [] asking[q].op = "publish" -> "published"
                            [] asking[q].op = "archive" -> "archived",
             asking[q].op = "publish" => put.publishedAt = put.version
      PROVE PolicyInv'
  <2>0. PICK k, op : k = asking[q].key /\ op = asking[q].op OBVIOUS
  <2>1. k \in Policies /\ asking[q] # PA!Idle /\ PolicyKnows(asking[q])
    BY <2>0, <1>4, PolicyHeld, Zenon DEF PolicyInv, PolicyOps
  <2>2. /\ policy'[k] = put
        /\ \A a \in trail[k] : a \in trail'[k]
        /\ <<op, put.version>> \in trail'[k]
    BY <2>0, <1>4, <2>1 DEF PolicyInv, PolicyTyped, PA!WritePolicy
  <2>3. PA!Did(k, op)' /\ \A o : PA!Did(k, o) => PA!Did(k, o)'
    BY <2>0, <2>2 DEF PA!Did
  <2>4. PolicyBacked(k)'
    BY <2>0, <1>4, <2>1, <2>2, <2>3 DEF PolicyBacked, PolicyKnows
  <2> QED BY <2>0, <1>0, <1>4, <2>4, PolicyWrite DEF PolicyOps
<1>5. ASSUME NEW q \in Requests, asking[q].op = "submit", PA!SubmitPolicy(q) PROVE PolicyInv'
  <2>1. policy[asking[q].key] \in PolicyRow
    BY <1>5, PolicyHeld DEF PolicyInv, PolicyTyped, PolicyRow, PolicyOps
  <2>2. [policy[asking[q].key] EXCEPT !.status = "in_review"] \in PolicyRow
    BY <2>1 DEF PolicyRow, PA!PolicyStatus
  <2> QED BY <1>4, <1>5, <2>1, <2>2 DEF PA!SubmitPolicy, PolicyRow
<1>6. ASSUME NEW q \in Requests, asking[q].op = "publish", PA!PublishPolicy(q) PROVE PolicyInv'
  <2> DEFINE k == asking[q].key
  <2>1. policy[k] \in PolicyRow
    BY <1>6, PolicyHeld DEF PolicyInv, PolicyTyped, PolicyRow, PolicyOps
  <2>2. [policy[k] EXCEPT !.status = "published", !.publishedAt = policy[k].version] \in PolicyRow
    BY <2>1, Zenon DEF PolicyRow, PA!PolicyStatus
  <2> QED BY <1>4, <1>6, <2>1, <2>2, Zenon DEF PA!PublishPolicy, PolicyRow
<1>7. ASSUME NEW q \in Requests, asking[q].op = "archive", PA!ArchivePolicy(q) PROVE PolicyInv'
  <2>1. policy[asking[q].key] \in PolicyRow
    BY <1>7, PolicyHeld DEF PolicyInv, PolicyTyped, PolicyRow, PolicyOps
  <2>2. [policy[asking[q].key] EXCEPT !.status = "archived"] \in PolicyRow
    BY <2>1 DEF PolicyRow, PA!PolicyStatus
  <2> QED BY <1>4, <1>7, <2>1, <2>2 DEF PA!ArchivePolicy, PolicyRow
<1> QED BY <1>1, <1>2, <1>3, <1>5, <1>6, <1>7 DEF PA!PolicyNext
-----------------------------------------------------------------------------
(* Support tickets *)

TicketEvents == {"created", "assigned", "escalated", "resolved", "comment"}
TicketRow == [status : PA!TicketStatus \cup {"none"}, assigned : BOOLEAN, resolution : BOOLEAN]
TicketOps == {"assign", "escalate", "resolve", "comment"}
TicketCall(c) ==
    c = PA!Idle \/ \E op \in TicketOps : \E t \in Tickets : \E s \in PA!TicketStatus :
                      c = [op |-> op, id |-> t, read |-> s]

TicketRows ==
    /\ ticket \in [Tickets -> TicketRow]
    /\ event \in [Tickets -> Seq(TicketEvents)]
    /\ \A t \in Tickets : /\ Len(event[t]) <= MaxHistory + 1
                          /\ ticket[t].status = "none" =>
                                ticket[t] = PA!NoTicket /\ event[t] = <<>>
TicketBacked(t) ==
    /\ ticket[t].status = "resolved" => ticket[t].resolution /\ PA!Happened(t, "resolved")
    /\ ticket[t].status = "escalated" => PA!Happened(t, "escalated")
    /\ ticket[t].status = "in_progress" => ticket[t].assigned

\* A status that a request read is still backed: events are never deleted.
TicketKnows(c) ==
    c # PA!Idle =>
        /\ ticket[c.id].status # "none"
        /\ c.read = "resolved" => ticket[c.id].resolution /\ PA!Happened(c.id, "resolved")
        /\ c.read = "escalated" => PA!Happened(c.id, "escalated")

TicketInv ==
    /\ TicketRows
    /\ DOMAIN asking = Requests
    /\ \A q \in Requests : TicketCall(asking[q]) /\ TicketKnows(asking[q])
    /\ \A t \in Tickets : TicketBacked(t)

LEMMA TicketHeld == ASSUME TicketInv, NEW q \in Requests, asking[q].op \in TicketOps
  PROVE  /\ asking[q] # PA!Idle
         /\ asking[q].id \in Tickets /\ asking[q].read \in PA!TicketStatus
         /\ TicketKnows(asking[q])
  BY DEF TicketInv, TicketCall, PA!Idle, TicketOps

\* A row is saved with its event, which stays and leaves the earlier ones.
LEMMA Saved ==
  ASSUME TicketRows, NEW t \in Tickets, NEW put \in TicketRow, put.status # "none",
         NEW type \in TicketEvents, PA!Save(t, put, type), Len(event[t]) <= MaxHistory
  PROVE  /\ TicketRows'
         /\ ticket'[t] = put /\ PA!Happened(t, type)'
         /\ \A u \in Tickets : u # t => ticket'[u] = ticket[u] /\ event'[u] = event[u]
         /\ \A u \in Tickets : \A s : PA!Happened(u, s) => PA!Happened(u, s)'
<1>1. /\ ticket' = [ticket EXCEPT ![t] = put]
      /\ event' = [event EXCEPT ![t] = Append(@, type)]
  BY DEF PA!Save
<1>2. ticket' \in [Tickets -> TicketRow] /\ ticket'[t] = put
  BY <1>1 DEF TicketRows
<1>3. \A u \in Tickets : u # t => ticket'[u] = ticket[u] /\ event'[u] = event[u]
  BY <1>1 DEF TicketRows
<1>4. /\ event[t] \in Seq(TicketEvents) /\ event'[t] = Append(event[t], type)
      /\ event' \in [Tickets -> Seq(TicketEvents)]
  BY <1>1 DEF TicketRows
<1>5. /\ Len(event'[t]) = Len(event[t]) + 1 /\ Len(event[t]) \in Nat
      /\ event'[t][Len(event[t]) + 1] = type
      /\ \A i \in 1..Len(event[t]) : event'[t][i] = event[t][i]
  BY <1>4
<1>6. TicketRows'
  <2>1. ASSUME NEW u \in Tickets
        PROVE  Len(event'[u]) <= MaxHistory + 1 /\ (ticket'[u].status = "none" => ticket'[u] = PA!NoTicket /\ event'[u] = <<>>)
    <3>1. CASE u = t BY <1>2, <1>5, <3>1, ServicesAssumption
    <3>2. CASE u # t BY <1>3, <3>2 DEF TicketRows
    <3> QED BY <3>1, <3>2
  <2> QED BY <1>2, <1>4, <2>1 DEF TicketRows
<1>7. ASSUME NEW u \in Tickets, NEW s, PA!Happened(u, s) PROVE PA!Happened(u, s)'
  <2>1. CASE u = t BY <1>5, <1>7, <2>1 DEF PA!Happened
  <2>2. CASE u # t BY <1>3, <1>7, <2>2 DEF PA!Happened
  <2> QED BY <2>1, <2>2
<1>8. PA!Happened(t, type)'
  <2>1. Len(event[t]) + 1 \in 1..Len(event'[t]) BY <1>5
  <2> QED BY <1>5, <2>1 DEF PA!Happened
<1> QED BY <1>2, <1>3, <1>6, <1>7, <1>8

LEMMA TicketWrite ==
  ASSUME TicketInv, NEW q \in Requests, NEW t \in Tickets, asking[q] # PA!Idle, asking[q].id = t,
         NEW put \in TicketRow, put.status # "none", ticket[t].resolution => put.resolution,
         NEW type \in TicketEvents, PA!Save(t, put, type), PA!Room(q), PA!End(q),
         put.status = "resolved" =>
             put.resolution /\ (type = "resolved" \/ PA!Happened(t, "resolved")),
         put.status = "escalated" => type = "escalated" \/ PA!Happened(t, "escalated"),
         put.status = "in_progress" => put.assigned
  PROVE  TicketInv'
<1>1. /\ TicketRows'
      /\ ticket'[t] = put
      /\ \A u \in Tickets : u # t => ticket'[u] = ticket[u] /\ event'[u] = event[u]
      /\ \A u \in Tickets : \A s : PA!Happened(u, s) => PA!Happened(u, s)'
      /\ PA!Happened(t, type)'
  <2>1. Len(event[t]) <= MaxHistory BY ServicesAssumption DEF TicketInv, TicketRows, PA!Room
  <2> QED BY <2>1, Saved DEF TicketInv, TicketEvents
<1>2. asking' = [asking EXCEPT ![q] = PA!Idle] /\ DOMAIN asking' = Requests
  BY DEF PA!End, TicketInv
<1>3. ASSUME NEW r \in Requests PROVE TicketCall(asking'[r]) /\ TicketKnows(asking[r])'
  <2>1. CASE asking'[r] = PA!Idle BY <2>1 DEF TicketCall, TicketKnows
  <2>2. CASE asking'[r] # PA!Idle
    <3>1. asking'[r] = asking[r] BY <1>2, <2>2 DEF TicketInv
    <3>2. PICK c : c = asking[r] OBVIOUS
    <3>3. TicketCall(c) /\ TicketKnows(c) /\ c # PA!Idle BY <2>2, <3>1, <3>2 DEF TicketInv
    <3>4. c.id \in Tickets BY <3>3 DEF TicketCall, PA!Idle
    <3>5. /\ ticket'[c.id].status # "none"
          /\ ticket[c.id].resolution => ticket'[c.id].resolution
      BY <1>1, <3>3, <3>4 DEF TicketKnows
    <3>6. TicketKnows(c)' BY <1>1, <3>3, <3>4, <3>5 DEF TicketKnows
    <3> QED BY <3>1, <3>2, <3>3, <3>6 DEF TicketKnows
  <2> QED BY <2>1, <2>2
<1>4. ASSUME NEW u \in Tickets PROVE TicketBacked(u)'
  <2>1. CASE u = t BY <1>1, <2>1 DEF TicketBacked
  <2>2. CASE u # t BY <1>1, <2>2 DEF TicketBacked, TicketInv
  <2> QED BY <2>1, <2>2
<1> QED BY <1>1, <1>2, <1>3, <1>4 DEF TicketInv, TicketCall

LEMMA TicketStep == ASSUME TicketInv, PA!TicketNext PROVE TicketInv'
<1>1. ASSUME NEW t \in Tickets, PA!CreateTicket(t) PROVE TicketInv'
  <2>1. PICK b \in BOOLEAN :
           PA!Save(t, [status |-> IF b THEN "in_progress" ELSE "open",
                       assigned |-> b, resolution |-> FALSE], "created")
    BY <1>1, Zenon DEF PA!CreateTicket
  <2>2. PICK put : put = [status |-> IF b THEN "in_progress" ELSE "open",
                          assigned |-> b, resolution |-> FALSE]
    BY Zenon
  <2>3. put \in TicketRow /\ put.status # "none"
    BY <2>2 DEF TicketRow, PA!TicketStatus
  <2>4. ticket[t].status = "none" /\ asking' = asking
    BY <1>1 DEF PA!CreateTicket, PA!NoTicket
  <2>5. Len(event[t]) <= MaxHistory
    BY <2>4, ServicesAssumption DEF TicketInv, TicketRows
  <2>6. /\ TicketRows'
        /\ ticket'[t] = put
        /\ \A u \in Tickets : u # t => ticket'[u] = ticket[u] /\ event'[u] = event[u]
        /\ \A u \in Tickets : \A s : PA!Happened(u, s) => PA!Happened(u, s)'
    BY <2>1, <2>2, <2>3, <2>5, Saved DEF TicketInv, TicketEvents
  <2>7. TicketBacked(t)' BY <2>2, <2>6 DEF TicketBacked
  <2>8. ASSUME NEW r \in Requests PROVE TicketKnows(asking[r])'
    <3>1. PICK c : c = asking[r] OBVIOUS
    <3>2. CASE c = PA!Idle BY <2>4, <3>1, <3>2 DEF TicketKnows
    <3>3. CASE c # PA!Idle
      <4>1. TicketCall(c) /\ TicketKnows(c) BY <3>1 DEF TicketInv
      <4>2. c.id \in Tickets /\ c.id # t
        BY <2>4, <3>3, <4>1 DEF TicketCall, TicketKnows, PA!Idle
      <4>3. TicketKnows(c)' BY <2>6, <4>1, <4>2 DEF TicketKnows
      <4> QED BY <2>4, <3>1, <4>3 DEF TicketKnows
    <3> QED BY <3>2, <3>3
  <2>9. ASSUME NEW u \in Tickets PROVE TicketBacked(u)'
    BY <2>6, <2>7 DEF TicketBacked, TicketInv
  <2> QED BY <2>4, <2>6, <2>8, <2>9 DEF TicketInv, TicketCall
<1>2. ASSUME NEW q \in Requests, NEW t \in Tickets, NEW op \in TicketOps,
             PA!ReadTicket(q, t, op)
      PROVE  TicketInv'
  <2>1. PICK c : c = [op |-> op, id |-> t, read |-> ticket[t].status] BY Zenon
  <2>2. /\ ticket' = ticket /\ event' = event /\ ticket[t] # PA!NoTicket
        /\ asking' = [asking EXCEPT ![q] = c]
    BY <1>2, <2>1 DEF PA!ReadTicket, PA!ticketVars, PA!Begin
  <2>3. ticket[t].status # "none"
    BY <2>2 DEF TicketInv, TicketRows
  <2>4. TicketCall(c) /\ c # PA!Idle /\ c.id = t /\ c.read = ticket[t].status
    <3>1. ticket[t].status \in PA!TicketStatus BY <2>3 DEF TicketInv, TicketRows, TicketRow
    <3> QED BY <2>1, <3>1 DEF TicketCall, PA!Idle
  <2>5. TicketKnows(c) BY <2>3, <2>4 DEF TicketKnows, TicketInv, TicketBacked
  <2>6. ASSUME NEW r \in Requests PROVE TicketCall(asking'[r]) /\ TicketKnows(asking'[r])
    BY <2>2, <2>4, <2>5 DEF TicketInv
  <2>7. ASSUME NEW r \in Requests PROVE TicketKnows(asking[r])'
    BY <2>2, <2>6 DEF TicketKnows, PA!Happened
  <2>8. TicketRows' /\ DOMAIN asking' = Requests BY <2>2 DEF TicketInv, TicketRows
  <2>9. ASSUME NEW u \in Tickets PROVE TicketBacked(u)'
    BY <2>2 DEF TicketBacked, TicketInv, PA!Happened
  <2> QED BY <2>6, <2>7, <2>8, <2>9 DEF TicketInv, TicketCall
<1>3. ASSUME NEW q \in Requests, asking[q].op = "assign", PA!AssignTicket(q) PROVE TicketInv'
  <2>1. PICK t, next, put : /\ t = asking[q].id
                            /\ next = IF asking[q].read = "open" THEN "in_progress" ELSE asking[q].read
                            /\ put = [ticket[t] EXCEPT !.assigned = TRUE, !.status = next]
    BY Zenon
  <2>2. PA!Room(q) /\ PA!Save(t, put, "assigned") /\ PA!End(q)
    BY <1>3, <2>1 DEF PA!AssignTicket
  <2>3. t \in Tickets /\ asking[q].read \in PA!TicketStatus /\ TicketKnows(asking[q]) /\ asking[q] # PA!Idle
    BY <1>3, <2>1, TicketHeld DEF TicketOps
  <2>4. ticket[t] \in TicketRow /\ next \in PA!TicketStatus
    BY <2>1, <2>3 DEF TicketInv, TicketRows, PA!TicketStatus
  <2>5. /\ put \in TicketRow /\ put.status = next /\ put.assigned
        /\ put.resolution = ticket[t].resolution
    BY <2>1, <2>4, Zenon DEF TicketRow
  <2>6. put.status # "none" BY <2>4, <2>5 DEF PA!TicketStatus
  <2>7. /\ next = "resolved" => ticket[t].resolution /\ PA!Happened(t, "resolved")
        /\ next = "escalated" => PA!Happened(t, "escalated")
    BY <2>1, <2>3 DEF TicketKnows
  <2> QED BY <2>1, <2>2, <2>3, <2>5, <2>6, <2>7, TicketWrite, Zenon DEF TicketEvents
<1>4. ASSUME NEW q \in Requests, asking[q].op = "escalate", PA!EscalateTicket(q) PROVE TicketInv'
  <2>1. PICK t, put : t = asking[q].id /\ put = [ticket[t] EXCEPT !.status = "escalated"]
    BY Zenon
  <2>2. PA!Room(q) /\ PA!Save(t, put, "escalated") /\ PA!End(q)
    BY <1>4, <2>1 DEF PA!EscalateTicket
  <2>3. t \in Tickets /\ TicketKnows(asking[q]) /\ asking[q] # PA!Idle
    BY <1>4, <2>1, TicketHeld DEF TicketOps
  <2>4. ticket[t] \in TicketRow /\ ticket[t].status # "none" /\ TicketBacked(t)
    BY <2>1, <2>3 DEF TicketInv, TicketRows, TicketKnows
  <2>5. /\ put \in TicketRow /\ put.status = "escalated"
        /\ ticket[t].resolution => put.resolution
    BY <2>1, <2>4 DEF TicketRow, PA!TicketStatus
  <2> QED BY <2>1, <2>2, <2>3, <2>5, TicketWrite, Zenon DEF TicketEvents
<1>5. ASSUME NEW q \in Requests, asking[q].op = "resolve", PA!ResolveTicket(q) PROVE TicketInv'
  <2>1. PICK t, put : t = asking[q].id /\ put = [ticket[t] EXCEPT !.status = "resolved", !.resolution = TRUE]
    BY Zenon
  <2>2. PA!Room(q) /\ PA!Save(t, put, "resolved") /\ PA!End(q)
    BY <1>5, <2>1 DEF PA!ResolveTicket
  <2>3. t \in Tickets /\ TicketKnows(asking[q]) /\ asking[q] # PA!Idle
    BY <1>5, <2>1, TicketHeld DEF TicketOps
  <2>4. ticket[t] \in TicketRow /\ ticket[t].status # "none" /\ TicketBacked(t)
    BY <2>1, <2>3 DEF TicketInv, TicketRows, TicketKnows
  <2>5. /\ put \in TicketRow /\ put.status = "resolved"
        /\ ticket[t].resolution => put.resolution
        /\ put.resolution
    BY <2>1, <2>4, Zenon DEF TicketRow, PA!TicketStatus
  <2> QED BY <2>1, <2>2, <2>3, <2>5, TicketWrite, Zenon DEF TicketEvents
<1>6. ASSUME NEW q \in Requests, asking[q].op = "comment", PA!CommentTicket(q) PROVE TicketInv'
  <2>1. PICK t, put : t = asking[q].id /\ put = ticket[t]
    OBVIOUS
  <2>2. PA!Room(q) /\ PA!Save(t, put, "comment") /\ PA!End(q)
    BY <1>6, <2>1 DEF PA!CommentTicket
  <2>3. t \in Tickets /\ TicketKnows(asking[q]) /\ asking[q] # PA!Idle
    BY <1>6, <2>1, TicketHeld DEF TicketOps
  <2>4. ticket[t] \in TicketRow /\ ticket[t].status # "none" /\ TicketBacked(t)
    BY <2>1, <2>3 DEF TicketInv, TicketRows, TicketKnows
  <2> QED BY <2>1, <2>2, <2>3, <2>4, TicketWrite DEF TicketBacked, TicketEvents
<1> QED BY <1>1, <1>2, <1>3, <1>4, <1>5, <1>6 DEF PA!TicketNext, TicketOps
-----------------------------------------------------------------------------
(* Compliance reviews *)

\* Two requests under way are of kinds that this behaviour lets overlap.
Apart ==
    \A q, r \in Requests :
        joining[q] # OB!Idle /\ joining[r] # OB!Idle /\ q # r =>
            joining[q].op \in rival /\ joining[r].op \in rival

Verdicts == {"pending", "approved", "rejected"}
Decided == OB!Has("approved") \/ OB!Has("rejected")
VerdictOf(op) == IF op = "verify" THEN "approved" ELSE "rejected"
Submitting == [op |-> "submit", pc |-> "mark"]
Reviewing(op, at, hit) == [op |-> op, pc |-> at, hit |-> hit]
ReviewOps == {"verify", "reject"}
ReviewCall(c) ==
    \/ c = OB!Idle \/ c = Submitting
    \/ \E op \in ReviewOps, at \in {"count", "decide", "commit"}, hit \in SUBSET Nat :
          c = Reviewing(op, at, hit)

ReviewRows == 
    /\ verification \in {"pending", "verified", "rejected"}
    /\ kyc \in Seq(Verdicts)

\* What a review about to decide would decide if it committed now.
Within(at, hit) == IF at = "commit" THEN OB!Pending \cap hit ELSE OB!Pending
Overlapping == {"verify", "reject"} \subseteq rival
\* A verdict about to be written still has a submission to decide, or another
\* request, one of its kind unless the kinds overlap, has decided it.
Supported(op, at, hit) ==
    Within(at, hit) # {} \/ (Decided /\ (Overlapping \/ OB!Has(VerdictOf(op))))
ReviewKnows(c) ==
    /\ \A op \in ReviewOps, at \in {"decide", "commit"}, hit \in SUBSET Nat :
          c = Reviewing(op, at, hit) => Supported(op, at, hit)
    /\ rival \cap {"submit", "verify", "reject"} = {} /\ c = Submitting => OB!Pending # {}

ReviewInv ==
    /\ ReviewRows
    /\ DOMAIN joining = Requests
    /\ \A q \in Requests : ReviewCall(joining[q]) /\ ReviewKnows(joining[q])
    /\ Apart
    /\ OB!ReviewBacked
    /\ rival \cap {"submit", "verify", "reject"} = {} =>
         (kyc # <<>> /\ verification = "pending" => OB!Pending # {})

\* Requests that begin keep apart what must not overlap, and those that go on
\* or end do as well.
LEMMA ApartKept ==
  ASSUME Apart, DOMAIN joining = Requests, NEW q \in Requests, NEW c, rival' = rival,
         joining' = [joining EXCEPT ![q] = c],
         c = OB!Idle \/ (joining[q] # OB!Idle /\ c.op = joining[q].op) \/ OB!Free(q, c.op)
  PROVE  Apart'
<1>1. ASSUME NEW r \in Requests, NEW s \in Requests, joining'[r] # OB!Idle, joining'[s] # OB!Idle, r # s
      PROVE joining'[r].op \in rival /\ joining'[s].op \in rival
  <2>1. CASE r # q /\ s # q BY <1>1, <2>1 DEF Apart
  <2>2. CASE r = q BY <1>1, <2>2 DEF Apart, OB!Free
  <2>3. CASE s = q BY <1>1, <2>3 DEF Apart, OB!Free
  <2> QED BY <2>1, <2>2, <2>3
<1> QED BY <1>1 DEF Apart

LEMMA DecideKeeps ==
  ASSUME ReviewRows, NEW q \in Requests, NEW v \in {"approved", "rejected"}, NEW flag0,
         NEW hit, joining[q].hit = hit, OB!Decide(q, v, flag0)
  PROVE  /\ kyc' \in Seq(Verdicts)
         /\ \A s : s # "pending" /\ OB!Has(s) => OB!Has(s)'
         /\ OB!Pending \cap hit # {} => OB!Has(v)'
         /\ OB!Pending' = OB!Pending \ hit
<1>1. /\ kyc' = [i \in 1..Len(kyc) |-> IF i \in OB!Pending \cap hit THEN v ELSE kyc[i]]
      /\ kyc \in Seq(Verdicts)
  BY DEF OB!Decide, ReviewRows
<1>2. Len(kyc) \in Nat /\ \A i \in 1..Len(kyc) : kyc[i] \in Verdicts
  BY <1>1
<1>3. kyc' \in [1..Len(kyc) -> Verdicts]
  BY <1>1, <1>2 DEF Verdicts
<1>4. kyc' \in Seq(Verdicts) /\ Len(kyc') = Len(kyc)
  BY <1>2, <1>3
<1>5. ASSUME NEW s, s # "pending", OB!Has(s) PROVE OB!Has(s)'
  BY <1>1, <1>4, <1>5 DEF OB!Has, OB!Pending
<1>6. ASSUME OB!Pending \cap hit # {} PROVE OB!Has(v)'
  BY <1>1, <1>4, <1>6 DEF OB!Has, OB!Pending
<1>7. OB!Pending' = OB!Pending \ hit
  BY <1>1, <1>4 DEF OB!Pending
<1> QED BY <1>4, <1>5, <1>6, <1>7

\* What supports a verdict supports it after a submission, and after another
\* review of a kind that may meet it.
LEMMA SupportKept ==
  ASSUME rival' = rival, NEW op \in ReviewOps, NEW at \in {"decide", "commit"}, NEW hit,
         Supported(op, at, hit), \A s : s # "pending" /\ OB!Has(s) => OB!Has(s)',
         OB!Pending \subseteq OB!Pending' \/ (Decided' /\ (Overlapping \/ OB!Has(VerdictOf(op))'))
  PROVE  Supported(op, at, hit)'
<1>1. Decided => Decided' BY Zenon DEF Decided
<1>2. OB!Has(VerdictOf(op)) => OB!Has(VerdictOf(op))' BY DEF VerdictOf
<1>3. CASE Decided' /\ (Overlapping \/ OB!Has(VerdictOf(op))')
  BY <1>3 DEF Supported, Overlapping, VerdictOf
<1>4. CASE OB!Pending \subseteq OB!Pending'
  <2>1. Within(at, hit) # {} => Within(at, hit)' # {} BY <1>4 DEF Within
  <2> QED BY <1>1, <1>2, <2>1 DEF Supported, Overlapping, VerdictOf
<1> QED BY <1>3, <1>4

LEMMA ReviewStep == ASSUME ReviewInv, OB!ReviewNext PROVE ReviewInv'
<1>0. rival' = rival BY DEF OB!ReviewNext
<1> DEFINE K == {"submit", "verify", "reject"}
<1>00. ReviewCall(OB!Idle) /\ ReviewKnows(OB!Idle)
  BY DEF ReviewCall, ReviewKnows, OB!Idle, Submitting, Reviewing
<1>1. ASSUME NEW q \in Requests, OB!SubmitKyc(q) PROVE ReviewInv'
  <2>1. /\ kyc' = Append(kyc, "pending") /\ verification' = verification
        /\ joining' = [joining EXCEPT ![q] = Submitting]
        /\ OB!Free(q, "submit")
    BY <1>1 DEF OB!SubmitKyc, OB!Begin, Submitting
  <2>2. /\ kyc' \in Seq(Verdicts) /\ Len(kyc') = Len(kyc) + 1 /\ Len(kyc) \in Nat
        /\ kyc'[Len(kyc) + 1] = "pending"
        /\ \A i \in 1..Len(kyc) : kyc'[i] = kyc[i]
    BY <2>1 DEF ReviewInv, ReviewRows, Verdicts
  <2>3. OB!Pending' # {} /\ OB!Pending \subseteq OB!Pending'
    <3>1. Len(kyc) + 1 \in OB!Pending' BY <2>2 DEF OB!Pending
    <3>2. OB!Pending \subseteq OB!Pending' BY <2>2 DEF OB!Pending
    <3> QED BY <3>1, <3>2
  <2>4. \A s : OB!Has(s) => OB!Has(s)' BY <2>2 DEF OB!Has
  <2>5. Apart' 
    <3>1. Submitting.op = "submit" BY DEF Submitting
    <3> QED BY <1>0, <2>1, <3>1, ApartKept, Zenon DEF ReviewInv
  <2>6. ASSUME NEW r \in Requests PROVE ReviewCall(joining'[r]) /\ ReviewKnows(joining[r])'
    <3>1. joining'[r] = joining[r] \/ joining'[r] = Submitting BY <2>1 DEF ReviewInv
    <3>2. ReviewCall(joining'[r]) BY <3>1 DEF ReviewInv, ReviewCall
    <3>3. ASSUME NEW op \in ReviewOps, NEW at \in {"decide", "commit"}, NEW hit \in SUBSET Nat,
                 joining'[r] = Reviewing(op, at, hit)
          PROVE  Supported(op, at, hit)'
      <4>1. joining[r] = Reviewing(op, at, hit) BY <3>1, <3>3 DEF Submitting, Reviewing, ReviewOps
      <4>2. Supported(op, at, hit) BY <4>1 DEF ReviewInv, ReviewKnows
      <4> QED BY <1>0, <2>3, <2>4, <4>2, SupportKept
    <3> QED BY <2>3, <3>2, <3>3 DEF ReviewKnows
  <2>7. OB!ReviewBacked' BY <1>0, <2>1, <2>4, Zenon DEF ReviewInv, OB!ReviewBacked, OB!NeverDriftsApart
  <2> QED BY <1>0, <2>1, <2>2, <2>3, <2>5, <2>6, <2>7 DEF ReviewInv, ReviewRows, ReviewCall
<1>2. ASSUME NEW q \in Requests, NEW c, joining' = [joining EXCEPT ![q] = c], kyc' = kyc,
             ReviewCall(c), ReviewKnows(c),
             c = OB!Idle \/ (joining[q] # OB!Idle /\ c.op = joining[q].op) \/ OB!Free(q, c.op),
             \/ verification' = verification
             \/ verification' = "pending" /\ joining[q] = Submitting
      PROVE ReviewInv'
  <2>1. Apart' BY <1>0, <1>2, ApartKept, Zenon DEF ReviewInv
  <2>2. ASSUME NEW r \in Requests PROVE ReviewCall(joining'[r]) /\ ReviewKnows(joining'[r])
    BY <1>2 DEF ReviewInv
  <2>3. ASSUME NEW r \in Requests PROVE ReviewKnows(joining[r])'
    <3>1. PICK d : d = joining'[r] OBVIOUS
    <3>2. ReviewKnows(d)' 
      BY <1>0, <1>2, <2>2, <3>1 DEF ReviewKnows, Supported, Within, Decided, Overlapping, OB!Pending, OB!Has
    <3> QED BY <3>1, <3>2 DEF ReviewKnows, Supported, Within, Decided, Overlapping, OB!Pending, OB!Has
  <2>4. OB!ReviewBacked' BY <1>0, <1>2 DEF ReviewInv, OB!ReviewBacked, OB!NeverDriftsApart, OB!Has
  <2>5. rival \cap K = {} => (kyc # <<>> /\ verification' = "pending" => OB!Pending # {})
    BY <1>2 DEF ReviewInv, ReviewKnows
  <2>6. OB!Pending' = OB!Pending BY <1>2 DEF OB!Pending
  <2>7. ReviewRows' /\ DOMAIN joining' = Requests BY <1>2 DEF ReviewInv, ReviewRows
  <2> QED BY <1>0, <1>2, <2>1, <2>2, <2>3, <2>4, <2>5, <2>6, <2>7 DEF ReviewInv, ReviewCall
<1>3. ASSUME NEW q \in Requests, OB!At(q, "submit", "mark"), OB!MarkPending(q) \/ OB!SubmitDies(q)
      PROVE ReviewInv'
  <2>1. joining[q] = Submitting
    BY <1>3 DEF OB!At, ReviewInv, ReviewCall, OB!Idle, Submitting, Reviewing, ReviewOps
  <2> QED BY <1>00, <1>2, <1>3, <2>1 DEF OB!MarkPending, OB!SubmitDies, OB!End, OB!reviewVars
<1>4. ASSUME NEW q \in Requests, NEW op \in ReviewOps, NEW done, OB!Review(q, op, done)
      PROVE ReviewInv'
  <2>1. PICK c : c = Reviewing(op, "count", {}) OBVIOUS
  <2>2. ReviewCall(c) /\ ReviewKnows(c) /\ c.op = op
    <3>1. {} \in SUBSET Nat OBVIOUS
    <3> QED BY <2>1, <3>1 DEF ReviewCall, ReviewKnows, Submitting, Reviewing, ReviewOps
  <2>3. joining' = [joining EXCEPT ![q] = c] /\ OB!Free(q, op) /\ UNCHANGED <<kyc, verification>>
    BY <1>4, <2>1 DEF OB!Review, OB!Begin, OB!reviewVars, Reviewing
  <2> QED BY <1>2, <2>2, <2>3, Zenon
\* A review under way, and where it is.
<1>5. ASSUME NEW q \in Requests, OB!IsReview(q)
      PROVE  \E op \in ReviewOps, hit \in SUBSET Nat :
                 joining[q] = Reviewing(op, joining[q].pc, hit)
  <2>1. PICK op \in ReviewOps, at \in {"count", "decide", "commit"}, hit \in SUBSET Nat :
           joining[q] = Reviewing(op, at, hit)
    BY <1>5 DEF OB!IsReview, ReviewInv, ReviewCall, OB!Idle, Submitting
  <2>2. joining[q].pc = at BY <2>1 DEF Reviewing
  <2> QED BY <2>1, <2>2
<1>6. ASSUME NEW q \in Requests, OB!IsReview(q), joining[q].pc = "count", OB!CountPending(q)
      PROVE ReviewInv'
  <2>1. PICK op \in ReviewOps, hit \in SUBSET Nat : joining[q] = Reviewing(op, "count", hit)
    BY <1>5, <1>6
  <2>2. joining[q] # OB!Idle /\ joining[q].op = op
    BY <2>1 DEF OB!Idle, Reviewing, ReviewOps
  <2>3. CASE OB!Pending = {}
    BY <1>00, <1>2, <1>6, <2>3 DEF OB!CountPending, OB!End, OB!reviewVars
  <2>4. CASE OB!Pending # {}
    <3>1. PICK c : c = Reviewing(op, "decide", hit) OBVIOUS
    <3>2. ReviewCall(c) /\ ReviewKnows(c) /\ c.op = op
      BY <2>1, <2>4, <3>1 DEF ReviewCall, ReviewKnows, Supported, Within, Submitting, Reviewing, ReviewOps
    <3>3. joining' = [joining EXCEPT ![q] = c] /\ UNCHANGED <<kyc, verification>>
      BY <1>6, <2>1, <2>4, <3>1 DEF OB!CountPending, OB!Go, OB!reviewVars, Reviewing, ReviewInv
    <3> QED BY <1>2, <2>2, <3>2, <3>3, Zenon
  <2> QED BY <2>3, <2>4
<1>7. ASSUME NEW q \in Requests, OB!IsReview(q), joining[q].pc = "decide", OB!FindPending(q)
      PROVE ReviewInv'
  <2>1. PICK op \in ReviewOps, hit \in SUBSET Nat : joining[q] = Reviewing(op, "decide", hit)
    BY <1>5, <1>7
  <2>2. joining[q] # OB!Idle /\ joining[q].op = op
    BY <2>1 DEF OB!Idle, Reviewing, ReviewOps
  <2>3. PICK c : c = Reviewing(op, "commit", OB!Pending) BY Zenon
  <2>4. OB!Pending \in SUBSET Nat
    <3>1. Len(kyc) \in Nat BY DEF ReviewInv, ReviewRows
    <3> QED BY <3>1 DEF OB!Pending
  <2>5. Supported(op, "decide", hit) BY <2>1 DEF ReviewInv, ReviewKnows
  <2>6. Supported(op, "commit", OB!Pending) BY <2>5, Zenon DEF Supported, Within
  <2>7. ReviewCall(c) /\ c.op = op
    BY <2>3, <2>4, Zenon DEF ReviewCall, Reviewing
  <2>8. ReviewKnows(c)
    <3>1. c # Submitting BY <2>3 DEF Submitting, Reviewing, ReviewOps
    <3>2. ASSUME NEW o, NEW a, NEW h, c = Reviewing(o, a, h)
          PROVE  o = op /\ a = "commit" /\ h = OB!Pending
      <4>1. c.op = op /\ c.pc = "commit" /\ c.hit = OB!Pending BY <2>3 DEF Reviewing
      <4>2. c.op = o /\ c.pc = a /\ c.hit = h BY <3>2 DEF Reviewing
      <4> QED BY <4>1, <4>2
    <3> QED BY <2>6, <3>1, <3>2, Zenon DEF ReviewKnows
  <2>9. joining' = [joining EXCEPT ![q] = c] /\ UNCHANGED <<kyc, verification>>
    <3>1. PICK d, found : d = [joining[q] EXCEPT !.pc = "commit"] /\ found = OB!Pending
      BY Zenon
    <3>2. c = [d EXCEPT !.hit = found]
      <4>1. d = [op |-> op, pc |-> "commit", hit |-> hit] BY <2>1, <3>1 DEF Reviewing
      <4>2. c = [op |-> op, pc |-> "commit", hit |-> found] BY <2>3, <3>1, Zenon DEF Reviewing
      <4> QED BY <4>1, <4>2
    <3>3. [joining EXCEPT ![q] = d][q] = d BY DEF ReviewInv
    <3>4. joining' = [[joining EXCEPT ![q] = d] EXCEPT ![q] = c]
      BY <1>7, <3>1, <3>2, <3>3, Zenon DEF OB!FindPending
    <3>5. UNCHANGED <<kyc, verification>> BY <1>7 DEF OB!FindPending, OB!reviewVars
    <3> QED BY <3>4, <3>5 DEF ReviewInv
  <2> QED BY <1>2, <2>2, <2>7, <2>8, <2>9, Zenon
<1>8. ASSUME NEW q \in Requests, NEW op, NEW v, NEW f, OB!At(q, op, "commit"), OB!Decide(q, v, f),
             \/ op = "verify" /\ v = "approved" /\ f = "verified"
             \/ op = "reject" /\ v = "rejected" /\ f = "rejected"
      PROVE ReviewInv'
  <2>0. op \in ReviewOps /\ v = VerdictOf(op) /\ v \in {"approved", "rejected"}
    BY <1>8 DEF VerdictOf, ReviewOps
  <2>1. PICK hit \in SUBSET Nat : joining[q] = Reviewing(op, "commit", hit)
    <3>1. joining[q].op = op /\ joining[q].pc = "commit" BY <1>8 DEF OB!At
    <3>2. PICK o \in ReviewOps, h \in SUBSET Nat : joining[q] = Reviewing(o, "commit", h)
      BY <1>5, <2>0, <3>1 DEF OB!IsReview, ReviewOps
    <3>3. joining[q].op = o BY <3>2 DEF Reviewing
    <3> QED BY <3>1, <3>2, <3>3
  <2>2. joining[q] # OB!Idle /\ joining[q].op = op /\ joining[q].hit = hit
    BY <2>0, <2>1 DEF OB!Idle, Reviewing, ReviewOps
  <2>3. joining' = [joining EXCEPT ![q] = OB!Idle] /\ verification' = f
    BY <1>8 DEF OB!Decide, OB!End
  <2>4. /\ kyc' \in Seq(Verdicts)
        /\ \A s : s # "pending" /\ OB!Has(s) => OB!Has(s)'
        /\ OB!Pending \cap hit # {} => OB!Has(v)'
        /\ OB!Pending' = OB!Pending \ hit
    BY <1>8, <2>0, <2>2, DecideKeeps DEF ReviewInv
  <2>5. Supported(op, "commit", hit) BY <2>0, <2>1 DEF ReviewInv, ReviewKnows
  <2>6. Decided' /\ (Overlapping \/ OB!Has(v)')
    <3>1. OB!Has(v)' => Decided' BY <2>0 DEF Decided
    <3>2. Decided => Decided' BY <2>4, Zenon DEF Decided
    <3>3. OB!Has(v) => OB!Has(v)' BY <2>0, <2>4
    <3> QED BY <2>0, <2>4, <2>5, <3>1, <3>2, <3>3, Zenon DEF Supported, Within
  <2>7. Apart' BY <1>0, <2>3, ApartKept, Zenon DEF ReviewInv
  <2>8. OB!ReviewBacked'
    BY <1>0, <1>8, <2>3, <2>6 DEF OB!ReviewBacked, OB!NeverDriftsApart, Decided, Overlapping
  <2>9. ASSUME NEW r \in Requests PROVE ReviewCall(joining'[r]) /\ ReviewKnows(joining[r])'
    <3>1. CASE joining'[r] = OB!Idle
      BY <3>1 DEF ReviewCall, ReviewKnows, OB!Idle, Submitting, Reviewing
    <3>2. CASE joining'[r] # OB!Idle
      <4>1. joining'[r] = joining[r] /\ r # q /\ joining[r] # OB!Idle /\ ReviewCall(joining[r])
        BY <2>3, <3>2 DEF ReviewInv
      <4>2. joining[r].op \in rival /\ op \in rival
        BY <2>2, <4>1 DEF ReviewInv, Apart
      <4>3. rival \cap K # {} BY <2>0, <4>2 DEF ReviewOps
      <4>4. ASSUME NEW o \in ReviewOps, NEW at \in {"decide", "commit"}, NEW h \in SUBSET Nat,
                   joining[r] = Reviewing(o, at, h)
            PROVE  Supported(o, at, h)'
        <5>1. Supported(o, at, h) BY <4>4 DEF ReviewInv, ReviewKnows
        <5>2. joining[r].op = o BY <4>4 DEF Reviewing
        <5>3. Overlapping \/ o = op
          BY <2>0, <4>2, <4>4, <5>2 DEF Overlapping, ReviewOps
        <5>4. Decided' /\ (Overlapping \/ OB!Has(VerdictOf(o))') BY <2>0, <2>6, <5>3
        <5> QED BY <1>0, <2>4, <5>1, <5>4, SupportKept
      <4> QED BY <1>0, <4>1, <4>3, <4>4 DEF ReviewKnows
    <3> QED BY <3>1, <3>2
  <2>10. ReviewRows' /\ DOMAIN joining' = Requests /\ verification' # "pending"
    BY <1>8, <2>3, <2>4 DEF ReviewInv, ReviewRows
  <2> QED BY <1>0, <2>7, <2>8, <2>9, <2>10 DEF ReviewInv, ReviewCall
<1>9. ASSUME NEW q \in Requests, OB!IsReview(q), OB!ReviewDies(q) PROVE ReviewInv'
  BY <1>00, <1>2, <1>9 DEF OB!ReviewDies, OB!End, OB!reviewVars
<1>10. "verify" \in ReviewOps /\ "reject" \in ReviewOps BY DEF ReviewOps
<1> QED BY <1>1, <1>3, <1>4, <1>6, <1>7, <1>8, <1>9, <1>10, Zenon DEF OB!ReviewNext

-----------------------------------------------------------------------------
(* Invitations *)

InviteRow == [there : BOOLEAN, used : BOOLEAN, revoked : BOOLEAN, expired : BOOLEAN]
Registering(i, e, at) == [op |-> "register", id |-> i, email |-> e, pc |-> at]
Revoking(i) == [op |-> "revoke", id |-> i, pc |-> "write"]
InviteCall(c) ==
    c = OB!Idle \/ \E i \in Invites : \/ c = Revoking(i)
                                      \/ \E e \in Spellings, at \in {"mark", "create"} :
                                             c = Registering(i, e, at)

\* Registrations and revocations of this behaviour do not meet.
Separate == ~({"register", "revoke"} \subseteq rival)

InviteKnows(c) ==
    \A i \in Invites :
        /\ \A e \in Spellings : c = Registering(i, e, "create") => invite[i].used
        /\ "register" \notin rival /\ c # OB!Idle /\ c.op = "register" /\ c.id = i => account[i] = {}
        /\ Separate /\ c # OB!Idle /\ c.op = "register" /\ c.id = i => ~invite[i].revoked
        /\ Separate /\ c = Revoking(i) => ~invite[i].used /\ account[i] = {}

InviteInv ==
    /\ invite \in [Invites -> InviteRow] /\ account \in [Invites -> SUBSET Spellings]
    /\ DOMAIN joining = Requests
    /\ \A q \in Requests : InviteCall(joining[q]) /\ InviteKnows(joining[q])
    /\ Apart
    /\ OB!InviteUsedOnce

\* A request goes on, and the row of its invitation changes with it.
LEMMA InviteMove ==
  ASSUME InviteInv, rival' = rival, NEW q \in Requests, NEW c,
         joining' = [joining EXCEPT ![q] = c], InviteCall(c),
         c = OB!Idle \/ (joining[q] # OB!Idle /\ c.op = joining[q].op) \/ OB!Free(q, c.op),
         NEW i \in Invites, NEW put \in InviteRow, NEW n \in SUBSET Spellings,
         invite' = [invite EXCEPT ![i] = put], account' = [account EXCEPT ![i] = n],
         InviteKnows(c)',
         invite[i].used => put.used,
         n # {} => put.used,
         "register" \notin rival => \A e, g \in n : e = g,
         put.revoked /\ Separate => n = {} /\ ~put.used,
         put.used # invite[i].used \/ n # account[i] => joining[q] # OB!Idle /\ joining[q].op = "register",
         put.revoked # invite[i].revoked => joining[q] # OB!Idle /\ joining[q].op = "revoke"
  PROVE  InviteInv'
<1>1. Apart' BY ApartKept, Zenon DEF InviteInv
<1>2. /\ invite' \in [Invites -> InviteRow] /\ account' \in [Invites -> SUBSET Spellings]
      /\ DOMAIN joining' = Requests
      /\ invite'[i] = put /\ account'[i] = n
      /\ \A j \in Invites : j # i => invite'[j] = invite[j] /\ account'[j] = account[j]
  BY DEF InviteInv
<1>3. OB!InviteUsedOnce'
  BY <1>2 DEF InviteInv, OB!InviteUsedOnce, Separate
<1>4. ASSUME NEW r \in Requests PROVE InviteCall(joining'[r]) /\ InviteKnows(joining[r])'
  <2>1. CASE r = q
    BY <2>1 DEF InviteInv, InviteKnows
  <2>2. CASE r # q
    <3>1. PICK d : d = joining[r] OBVIOUS
    <3>2. joining'[r] = d /\ InviteCall(d) /\ InviteKnows(d)
      BY <2>2, <3>1 DEF InviteInv
    <3>3. joining[q] # OB!Idle /\ d # OB!Idle =>
              {joining[q].op, d.op} \subseteq rival
      BY <2>2, <3>1 DEF InviteInv, Apart
    <3>4. ASSUME NEW j \in Invites
          PROVE  /\ \A e \in Spellings : d = Registering(j, e, "create") => invite'[j].used
                 /\ "register" \notin rival /\ d # OB!Idle /\ d.op = "register" /\ d.id = j => account'[j] = {}
                 /\ Separate /\ d # OB!Idle /\ d.op = "register" /\ d.id = j => ~invite'[j].revoked
                 /\ Separate /\ d = Revoking(j) => ~invite'[j].used /\ account'[j] = {}
      <4>1. CASE j # i BY <1>2, <3>2, <4>1 DEF InviteKnows
      <4>2. CASE j = i
        <5>1. \A e \in Spellings : d = Registering(j, e, "create") => invite'[j].used
          BY <1>2, <3>2, <4>2 DEF InviteKnows
        <5>5. "register" \notin rival /\ d # OB!Idle /\ d.op = "register" /\ d.id = j => account'[j] = {}
          BY <1>2, <3>2, <3>3, <4>2 DEF InviteKnows
        <5>2. Separate /\ d # OB!Idle /\ d.op = "register" /\ d.id = j => ~invite'[j].revoked
          BY <1>2, <3>2, <3>3, <4>2 DEF InviteKnows, Separate
        <5>3. d = Revoking(j) => d # OB!Idle /\ d.op = "revoke"
          BY DEF Revoking, OB!Idle
        <5>4. Separate /\ d = Revoking(j) => ~invite'[j].used /\ account'[j] = {}
          BY <1>2, <3>2, <3>3, <4>2, <5>3 DEF InviteKnows, Separate
        <5> QED BY <5>1, <5>2, <5>4, <5>5
      <4> QED BY <4>1, <4>2
    <3>5. InviteKnows(d)'
      BY <3>4 DEF InviteKnows, Separate
    <3> QED BY <3>1, <3>2, <3>5 DEF InviteKnows
  <2> QED BY <2>1, <2>2
<1> QED BY <1>1, <1>2, <1>3, <1>4 DEF InviteInv, InviteCall

LEMMA InviteStep == ASSUME InviteInv, OB!InviteNext PROVE InviteInv'
<1>0. rival' = rival BY DEF OB!InviteNext
<1>1. ASSUME NEW i \in Invites, NEW put \in InviteRow, invite' = [invite EXCEPT ![i] = put],
             put.used = invite[i].used, put.revoked = invite[i].revoked,
             UNCHANGED <<account, joining>>
      PROVE  InviteInv'
  <2>1. /\ invite' \in [Invites -> InviteRow]
        /\ \A j \in Invites : /\ invite'[j].used = invite[j].used
                              /\ invite'[j].revoked = invite[j].revoked
    BY <1>1 DEF InviteInv
  <2>2. ASSUME NEW r \in Requests PROVE InviteKnows(joining[r])'
    BY <1>0, <1>1, <2>1 DEF InviteInv, InviteKnows, Separate
  <2>3. Apart' BY <1>0, <1>1 DEF InviteInv, Apart
  <2>4. OB!InviteUsedOnce' BY <1>0, <1>1, <2>1 DEF InviteInv, OB!InviteUsedOnce
  <2> QED BY <1>1, <2>1, <2>2, <2>3, <2>4 DEF InviteInv, InviteCall
<1>2. ASSUME NEW i \in Invites, OB!CreateInvite(i) \/ OB!ExpireInvite(i) PROVE InviteInv'
  <2>1. invite[i] \in InviteRow BY DEF InviteInv
  <2>2. CASE OB!CreateInvite(i)
    <3>1. PICK put : put = [invite[i] EXCEPT !.there = TRUE] BY Zenon
    <3>2. put \in InviteRow /\ put.used = invite[i].used /\ put.revoked = invite[i].revoked
      BY <2>1, <3>1, Zenon DEF InviteRow
    <3>3. invite' = [invite EXCEPT ![i] = put] /\ UNCHANGED <<account, joining>>
      BY <2>2, <3>1 DEF OB!CreateInvite
    <3> QED BY <1>1, <3>2, <3>3, Zenon
  <2>3. CASE OB!ExpireInvite(i)
    <3>1. PICK put : put = [invite[i] EXCEPT !.expired = TRUE] BY Zenon
    <3>2. put \in InviteRow /\ put.used = invite[i].used /\ put.revoked = invite[i].revoked
      BY <2>1, <3>1, Zenon DEF InviteRow
    <3>3. invite' = [invite EXCEPT ![i] = put] /\ UNCHANGED <<account, joining>>
      BY <2>3, <3>1 DEF OB!ExpireInvite
    <3> QED BY <1>1, <3>2, <3>3, Zenon
  <2> QED BY <1>2, <2>2, <2>3
\* A step of a request that leaves the rows as they are.
<1>3. ASSUME NEW q \in Requests, NEW c, InviteCall(c), InviteKnows(c),
             joining' = [joining EXCEPT ![q] = c], UNCHANGED <<invite, account>>,
             c = OB!Idle \/ (joining[q] # OB!Idle /\ c.op = joining[q].op) \/ OB!Free(q, c.op)
      PROVE  InviteInv'
  <2>1. Apart' BY <1>0, <1>3, ApartKept, Zenon DEF InviteInv
  <2>2. ASSUME NEW r \in Requests PROVE InviteCall(joining'[r]) /\ InviteKnows(joining'[r])
    BY <1>3 DEF InviteInv
  <2>3. ASSUME NEW r \in Requests PROVE InviteKnows(joining[r])'
    BY <1>0, <1>3, <2>2 DEF InviteKnows, Separate
  <2>4. OB!InviteUsedOnce' BY <1>0, <1>3 DEF InviteInv, OB!InviteUsedOnce
  <2> QED BY <1>3, <2>1, <2>2, <2>3, <2>4 DEF InviteInv, InviteCall
<1>4. InviteCall(OB!Idle) /\ InviteKnows(OB!Idle) /\ InviteKnows(OB!Idle)'
  BY DEF InviteCall, InviteKnows, OB!Idle, Registering, Revoking
<1>5. ASSUME NEW q \in Requests, NEW i \in Invites, NEW e \in Spellings, OB!Register(q, i, e)
      PROVE  InviteInv'
  <2>1. PICK c : c = Registering(i, e, "mark") OBVIOUS
  <2>2. InviteCall(c) /\ c.op = "register" BY <2>1 DEF InviteCall, Registering
  <2>3. InviteKnows(c)
    <3>1. ~invite[i].used /\ ~invite[i].revoked BY <1>5 DEF OB!Register, OB!IsValid
    <3>2. account[i] = {} BY <3>1 DEF InviteInv, OB!InviteUsedOnce
    <3> QED BY <2>1, <3>1, <3>2 DEF InviteKnows, Registering, Revoking
  <2>4. joining' = [joining EXCEPT ![q] = c] /\ OB!Free(q, c.op) /\ UNCHANGED <<invite, account>>
    BY <1>5, <2>1, <2>2 DEF OB!Register, OB!Begin, OB!inviteVars, Registering
  <2> QED BY <1>3, <2>2, <2>3, <2>4, Zenon
<1>6. ASSUME NEW q \in Requests, OB!At(q, "register", "mark"), OB!MarkUsed(q) PROVE InviteInv'
  <2>1. PICK i \in Invites, e \in Spellings : joining[q] = Registering(i, e, "mark")
    BY <1>6 DEF OB!At, InviteInv, InviteCall, OB!Idle, Registering, Revoking
  <2>2. joining[q].id = i /\ joining[q].op = "register" /\ joining[q] # OB!Idle
    BY <2>1 DEF Registering, OB!Idle
  <2>3. PICK c, put : c = Registering(i, e, "create") /\ put = [invite[i] EXCEPT !.used = TRUE]
    BY Zenon
  <2>4. /\ invite[i] \in InviteRow /\ InviteKnows(joining[q]) /\ account[i] \in SUBSET Spellings
        /\ ("register" \notin rival => \A x, y \in account[i] : x = y)
    BY DEF InviteInv, OB!InviteUsedOnce
  <2>5. /\ put \in InviteRow /\ put.used /\ put.revoked = invite[i].revoked
        /\ Separate => ~put.revoked
        /\ "register" \notin rival => account[i] = {}
    BY <2>2, <2>3, <2>4, Zenon DEF InviteKnows, InviteRow
  <2>6. /\ joining' = [joining EXCEPT ![q] = c]
        /\ invite' = [invite EXCEPT ![i] = put]
        /\ account' = [account EXCEPT ![i] = account[i]]
    <3>1. [joining[q] EXCEPT !.pc = "create"] = c BY <2>1, <2>3 DEF Registering
    <3>2. joining' = [joining EXCEPT ![q] = [joining[q] EXCEPT !.pc = "create"]]
      BY <1>6 DEF OB!MarkUsed, OB!Go
    <3>3. invite' = [invite EXCEPT ![i] = put] BY <1>6, <2>2, <2>3 DEF OB!MarkUsed
    <3>4. account' = [account EXCEPT ![i] = account[i]] BY <1>6 DEF OB!MarkUsed, InviteInv
    <3> QED BY <3>1, <3>2, <3>3, <3>4, Zenon
  <2>7. InviteCall(c) /\ c.op = joining[q].op BY <2>2, <2>3 DEF InviteCall, Registering
  <2>8. InviteKnows(c)'
    <3>1. invite'[i] = put BY <2>6 DEF InviteInv
    <3>2. account'[i] = account[i] BY <2>6 DEF InviteInv
    <3> QED BY <1>0, <2>3, <2>5, <3>1, <3>2, Zenon DEF InviteKnows, Registering, Revoking, Separate
  <2> QED BY <1>0, <2>2, <2>4, <2>5, <2>6, <2>7, <2>8, InviteMove, Zenon
<1>7. ASSUME NEW q \in Requests, OB!At(q, "register", "create"), OB!CreateAccount(q) PROVE InviteInv'
  <2>1. PICK i \in Invites, e \in Spellings : joining[q] = Registering(i, e, "create")
    BY <1>7 DEF OB!At, InviteInv, InviteCall, OB!Idle, Registering, Revoking
  <2>2. joining[q].id = i /\ joining[q].email = e /\ joining[q].op = "register" /\ joining[q] # OB!Idle
    BY <2>1 DEF Registering, OB!Idle
  <2>3. PICK put, n : put = invite[i] /\ n = account[i] \cup {e} BY Zenon
  <2>4. InviteKnows(joining[q]) /\ put \in InviteRow /\ n \in SUBSET Spellings
    BY <2>3 DEF InviteInv
  <2>5. /\ put.used /\ (Separate => ~put.revoked)
        /\ ("register" \notin rival => \A x, y \in n : x = y)
    BY <2>1, <2>2, <2>3, <2>4 DEF InviteKnows
  <2>6. /\ joining' = [joining EXCEPT ![q] = OB!Idle]
        /\ invite' = [invite EXCEPT ![i] = put]
        /\ account' = [account EXCEPT ![i] = n]
    BY <1>7, <2>2, <2>3 DEF OB!CreateAccount, OB!End, InviteInv
  <2>7. /\ invite[i].used => put.used
        /\ n # {} => put.used
        /\ ("register" \notin rival => \A x, y \in n : x = y)
        /\ put.revoked /\ Separate => n = {} /\ ~put.used
        /\ put.revoked = invite[i].revoked
    BY <2>3, <2>5
  <2>8. put \in InviteRow /\ n \in SUBSET Spellings BY <2>4
  <2>9. joining[q] # OB!Idle /\ joining[q].op = "register" BY <2>2
  <2> QED BY <1>0, <1>4, <2>6, <2>7, <2>8, <2>9, InviteMove, Zenon
<1>8. ASSUME NEW q \in Requests, joining[q].op = "register", OB!RegisterDies(q) PROVE InviteInv'
  BY <1>3, <1>4, <1>8, Zenon DEF OB!RegisterDies, OB!End, OB!inviteVars
<1>9. ASSUME NEW q \in Requests, NEW i \in Invites, OB!ReadRevoke(q, i) PROVE InviteInv'
  <2>1. PICK c : c = Revoking(i) OBVIOUS
  <2>2. InviteCall(c) /\ c.op = "revoke" BY <2>1 DEF InviteCall, Revoking
  <2>3. ~invite[i].used /\ account[i] = {}
    BY <1>9 DEF OB!ReadRevoke, InviteInv, OB!InviteUsedOnce
  <2>4. InviteKnows(c)
    BY <2>1, <2>3 DEF InviteKnows, Registering, Revoking
  <2>5. joining' = [joining EXCEPT ![q] = c] /\ OB!Free(q, c.op) /\ UNCHANGED <<invite, account>>
    BY <1>9, <2>1, <2>2 DEF OB!ReadRevoke, OB!Begin, OB!inviteVars, Revoking
  <2> QED BY <1>3, <2>2, <2>4, <2>5, Zenon
<1>10. ASSUME NEW q \in Requests, OB!At(q, "revoke", "write"), OB!RevokeInvite(q) PROVE InviteInv'
  <2>1. PICK i \in Invites : joining[q] = Revoking(i)
    BY <1>10 DEF OB!At, InviteInv, InviteCall, OB!Idle, Registering, Revoking
  <2>2. joining[q].id = i /\ joining[q].op = "revoke" /\ joining[q] # OB!Idle
    BY <2>1 DEF Revoking, OB!Idle
  <2>3. PICK put, n : put = [invite[i] EXCEPT !.revoked = TRUE] /\ n = account[i] BY Zenon
  <2>4. InviteKnows(joining[q]) /\ invite[i] \in InviteRow /\ n \in SUBSET Spellings
        /\ (n # {} => invite[i].used) /\ ("register" \notin rival => \A x, y \in n : x = y)
    BY <2>3 DEF InviteInv, OB!InviteUsedOnce
  <2>5. put \in InviteRow /\ put.used = invite[i].used BY <2>3, <2>4, Zenon DEF InviteRow
  <2>6. Separate => n = {} /\ ~put.used
    BY <2>1, <2>3, <2>4, <2>5 DEF InviteKnows
  <2>7. /\ joining' = [joining EXCEPT ![q] = OB!Idle]
        /\ invite' = [invite EXCEPT ![i] = put]
        /\ account' = [account EXCEPT ![i] = n]
    BY <1>10, <2>2, <2>3 DEF OB!RevokeInvite, OB!End, InviteInv
  <2> QED BY <1>0, <1>4, <2>2, <2>3, <2>4, <2>5, <2>6, <2>7, InviteMove, Zenon
<1> QED BY <1>2, <1>5, <1>6, <1>7, <1>8, <1>9, <1>10 DEF OB!InviteNext

-----------------------------------------------------------------------------
(* The first app of a merchant *)

SeedCalls == [op : {"create"}, pc : {"seed"}, minimal : BOOLEAN, todo : SUBSET OB!Parts]
SeedCall(c) == c = OB!Idle \/ c \in SeedCalls
\* What a creation that answers has to have inserted.
Promised == IF starter.there THEN starter.parts ELSE OB!Parts
\* What a creation has not yet to do of that is done.
SeedKnows(c) == c # OB!Idle => "tenant" \in seeded /\ Promised \subseteq seeded \cup c.todo
SeedInv ==
    /\ starter.parts \subseteq OB!Parts
    /\ seeded \subseteq {"tenant", "answered"} \cup OB!Parts
    /\ DOMAIN joining = Requests
    /\ \A q \in Requests : SeedCall(joining[q]) /\ SeedKnows(joining[q])
    /\ "tenant" \notin seeded => "answered" \notin seeded
    /\ OB!AnsweredMeansSeeded

LEMMA SeedStep == ASSUME SeedInv, OB!SeedNext PROVE SeedInv'
<1>0. starter' = starter /\ (Promised' = Promised) /\ Promised \subseteq OB!Parts
  BY DEF OB!SeedNext, Promised, SeedInv
<1>1. ASSUME NEW q \in Requests, OB!CreateTenant(q) PROVE SeedInv'
  <2>1. PICK c : c = [op |-> "create", pc |-> "seed", minimal |-> ~starter.there, todo |-> Promised] BY Zenon
  <2>2. /\ seeded' = {"tenant"} /\ "tenant" \notin seeded
        /\ joining' = [joining EXCEPT ![q] = c]
    BY <1>1, <2>1 DEF OB!CreateTenant, OB!Begin, Promised
  <2>3. SeedCall(c) /\ c.todo = Promised
    <3>1. PICK m \in BOOLEAN : m = ~starter.there BY Zenon
    <3>2. c = [op |-> "create", pc |-> "seed", minimal |-> m, todo |-> Promised] BY <2>1, <3>1, Zenon
    <3> QED BY <1>0, <3>2, Zenon DEF SeedCall, SeedCalls
  <2>4. ASSUME NEW r \in Requests PROVE joining'[r] = c \/ joining'[r] = OB!Idle
    BY <2>2 DEF SeedInv, SeedKnows
  <2>5. ASSUME NEW r \in Requests PROVE SeedCall(joining'[r]) /\ SeedKnows(joining[r])'
    BY <1>0, <2>2, <2>3, <2>4 DEF SeedCall, SeedKnows
  <2> QED BY <1>0, <2>2, <2>5 DEF SeedInv, OB!AnsweredMeansSeeded, SeedCall
\* A creation goes on, and what exists grows.
<1>2. ASSUME NEW q \in Requests, NEW c, SeedCall(c),
             joining' = [joining EXCEPT ![q] = c], NEW more,
             more \subseteq {"answered"} \cup OB!Parts,
             seeded' = seeded \cup more, "tenant" \in seeded,
             c # OB!Idle => Promised \subseteq seeded' \cup c.todo,
             "answered" \in more => Promised \subseteq seeded'
      PROVE  SeedInv'
  <2>1. ASSUME NEW r \in Requests PROVE SeedCall(joining'[r]) /\ SeedKnows(joining[r])'
    <3>1. CASE r = q BY <1>0, <1>2, <3>1 DEF SeedInv, SeedKnows
    <3>2. CASE r # q
      <4>1. joining'[r] = joining[r] /\ SeedCall(joining[r]) /\ SeedKnows(joining[r])
        BY <1>2, <3>2 DEF SeedInv
      <4> QED BY <1>0, <1>2, <4>1 DEF SeedKnows
    <3> QED BY <3>1, <3>2
  <2>2. OB!AnsweredMeansSeeded' BY <1>0, <1>2 DEF SeedInv, OB!AnsweredMeansSeeded, Promised
  <2> QED BY <1>0, <1>2, <2>1, <2>2 DEF SeedInv, SeedCall
<1>3. ASSUME NEW q \in Requests, OB!At(q, "create", "seed")
      PROVE  /\ "tenant" \in seeded /\ Promised \subseteq seeded \cup joining[q].todo
             /\ joining[q] \in SeedCalls /\ joining[q] # OB!Idle
  BY <1>3 DEF OB!At, SeedInv, SeedCall, SeedKnows, OB!Idle
<1>5. ASSUME NEW q \in Requests, OB!SeedPart(q) PROVE SeedInv'
  <2>1. OB!At(q, "create", "seed") BY <1>5 DEF OB!SeedPart
  <2>2. PICK todo : todo = joining[q].todo /\ todo \subseteq OB!Parts
    BY <1>3, <2>1 DEF SeedCalls
  <2>3. PICK p \in todo : /\ seeded' = seeded \cup {p}
                         /\ joining' = [joining EXCEPT ![q].todo = @ \ {p}]
    BY <1>5, <2>2 DEF OB!SeedPart
  <2>4. PICK c : c = [joining[q] EXCEPT !.todo = todo \ {p}] BY Zenon
  <2>5. c \in SeedCalls /\ c.todo = todo \ {p}
    BY <1>3, <2>1, <2>2, <2>4, Zenon DEF SeedCalls
  <2>6. joining' = [joining EXCEPT ![q] = c] BY <2>2, <2>3, <2>4
  <2>7. PICK more : more = {p} BY Zenon
  <2>8. /\ more \subseteq {"answered"} \cup OB!Parts /\ seeded' = seeded \cup more
        /\ "answered" \notin more
    BY <2>2, <2>3, <2>7 DEF OB!Parts
  <2>9. "tenant" \in seeded /\ Promised \subseteq seeded' \cup c.todo
    BY <1>3, <2>1, <2>2, <2>5, <2>7, <2>8
  <2> QED BY <1>2, <2>5, <2>6, <2>8, <2>9, Zenon DEF SeedCall
<1>6. ASSUME NEW q \in Requests, OB!Answer(q) PROVE SeedInv'
  <2>1. OB!At(q, "create", "seed") /\ joining[q].todo = {} BY <1>6 DEF OB!Answer
  <2>2. joining' = [joining EXCEPT ![q] = OB!Idle] /\ seeded' = seeded \cup {"answered"}
    BY <1>6 DEF OB!Answer, OB!End
  <2> QED BY <1>2, <1>3, <2>1, <2>2 DEF SeedCall
<1>7. ASSUME NEW q \in Requests, OB!SeedFallsBack(q) PROVE SeedInv'
  <2>1. OB!At(q, "create", "seed") BY <1>7 DEF OB!SeedFallsBack
  <2>2. PICK c : c = [joining[q] EXCEPT !.minimal = TRUE, !.todo = OB!Parts] BY Zenon
  <2>3. c \in SeedCalls /\ c.todo = OB!Parts
    <3>1. PICK d : d = [joining[q] EXCEPT !.minimal = TRUE] BY Zenon
    <3>2. d \in SeedCalls BY <1>3, <2>1, <3>1, Zenon DEF SeedCalls
    <3>3. c = [d EXCEPT !.todo = OB!Parts] BY <2>2, <3>1
    <3> QED BY <3>2, <3>3, Zenon DEF SeedCalls
  <2>4. joining' = [joining EXCEPT ![q] = c] /\ seeded' = seeded \cup {}
    BY <1>7, <2>2 DEF OB!SeedFallsBack, SeedInv
  <2> QED BY <1>0, <1>2, <1>3, <2>1, <2>3, <2>4 DEF SeedCall
<1>8. ASSUME NEW q \in Requests, OB!SeedFails(q) PROVE SeedInv'
  <2>1. OB!At(q, "create", "seed") /\ joining' = [joining EXCEPT ![q] = OB!Idle] /\ seeded' = seeded \cup {}
    BY <1>8 DEF OB!SeedFails, OB!End
  <2> QED BY <1>2, <1>3, <2>1 DEF SeedCall
<1> QED BY <1>1, <1>5, <1>6, <1>7, <1>8 DEF OB!SeedNext

-----------------------------------------------------------------------------
(* Roles and the routes they open *)

RoleKeys == Staff \X AC!Roles \X AC!Scopes
AssignCalls == [op : {"check", "assign"}, admin : Staff, u : Staff, role : Sought,
                scope : AC!Scopes]
RemoveCalls == [op : {"recheck", "remove"}, admin : Staff, u : Staff, scope : AC!Scopes]
Denied == [op |-> "deny"]
RoleCall(c) == c = AC!Idle \/ c = Denied \/ c \in AssignCalls \/ c \in RemoveCalls

\* What was asked for and not taken back is stored, under the name the
\* database has for it.
AskedIsStored ==
    \A a \in asked : /\ AC!Stored(a[2]) \in AC!Roles
                     /\ row[<<a[1], AC!Stored(a[2]), AC!Platform>>] > 0

RoleInv ==
    /\ row \in [RoleKeys -> 0..MaxCopies]
    /\ asked \subseteq Staff \X Sought
    /\ DOMAIN granting = Requests
    /\ \A q \in Requests : RoleCall(granting[q])
    /\ AskedIsStored

LEMMA StoredPasses ==
  ASSUME NEW u, NEW r, AC!Stored(r) \in AC!Roles, row[<<u, AC!Stored(r), AC!Platform>>] > 0
  PROVE  AC!PassesGuard(u, {r})
<1>1. AC!Stored(r) \in AC!DatabaseRoles({r})
  BY DEF AC!DatabaseRoles, AC!Stored
<1> QED BY <1>1 DEF AC!PassesGuard, AC!UserHasRole

LEMMA GrantsOpen == ASSUME AskedIsStored PROVE AC!GrantsOpenTheirRoutes
<1>1. \A a \in asked : AC!PassesGuard(a[1], {a[2]})
  BY StoredPasses, Zenon DEF AskedIsStored
<1>2. ASSUME NEW u \in Staff, NEW held, held = {r \in AC!Roles : AC!UserHasRole(u, r, AC!Platform)}
      PROVE  /\ held = {"operations"} =>
                   ~AC!PassesGuard(u, {"platform_operator"}) /\ AC!DashboardAccess(u) = "app-reviewer"
             /\ AC!DashboardAccess(u) = "manager" =>
                   held \cap {"super_admin", "platform_operator"} # {}
  <2>1. /\ AC!DatabaseRoles({"platform_operator"}) = {"platform_operator"}
        /\ AC!DatabaseRoles({"operations"}) = {"operations"}
        /\ AC!DatabaseRoles({"super_admin", "platform_operator"}) = {"super_admin", "platform_operator"}
    BY DEF AC!DatabaseRoles
  <2>2. /\ AC!PassesGuard(u, {"platform_operator"}) <=> "platform_operator" \in held
        /\ AC!PassesGuard(u, {"operations"}) <=> "operations" \in held
        /\ AC!PassesGuard(u, {"super_admin", "platform_operator"})
              <=> held \cap {"super_admin", "platform_operator"} # {}
    BY <1>2, <2>1 DEF AC!PassesGuard, AC!Roles
  <2> QED BY <2>2 DEF AC!DashboardAccess
<1>3. \A u \in Staff : \A t \in AC!ResolveTenant(u) : member[<<t, u>>] # "staff"
  BY DEF AC!ResolveTenant
<1> QED BY <1>1, <1>2, <1>3, Zenon DEF AC!GrantsOpenTheirRoutes

\* A step that leaves roles alone.
LEMMA RolesKept ==
  ASSUME RoleInv, UNCHANGED <<row, asked>>, NEW q \in Requests, NEW c, RoleCall(c),
         granting' = [granting EXCEPT ![q] = c]
  PROVE  RoleInv'
<1>1. ASSUME NEW r \in Requests PROVE RoleCall(granting'[r])
  BY DEF RoleInv
<1> QED BY <1>1 DEF RoleInv, AskedIsStored, RoleCall, RoleKeys

LEMMA RoleHeld ==
  ASSUME RoleInv, NEW q \in Requests
  PROVE  /\ granting[q].op \in {"check", "assign"} => granting[q] \in AssignCalls
         /\ granting[q].op \in {"recheck", "remove"} => granting[q] \in RemoveCalls
  BY DEF RoleInv, RoleCall, AC!Idle, Denied, AssignCalls, RemoveCalls

LEMMA RoleStep == ASSUME RoleInv, AC!RoleNext PROVE RoleInv'
<1>1. ASSUME NEW q \in Requests, NEW a, NEW roles, NEW c, c \in AssignCalls \cup RemoveCalls,
             AC!Gate(q, a, roles, c)
      PROVE  RoleInv'
  <2>1. RoleCall(c) /\ RoleCall(Denied) BY <1>1 DEF RoleCall
  <2> QED BY <1>1, <2>1, RolesKept DEF AC!Gate, AC!Begin, Denied
<1>2. ASSUME NEW q \in Requests, NEW a \in Staff, NEW u \in Staff, NEW r \in Sought, NEW s \in AC!Scopes,
             AC!RequestAssign(q, a, u, r, s)
      PROVE  RoleInv'
  <2>1. PICK c : c = [op |-> IF s = AC!Platform THEN "check" ELSE "assign",
                      admin |-> a, u |-> u, role |-> r, scope |-> s]
    BY Zenon
  <2>2. c \in AssignCalls BY <2>1 DEF AssignCalls
  <2> QED BY <1>1, <1>2, <2>1, <2>2 DEF AC!RequestAssign
<1>3. ASSUME NEW q \in Requests, NEW a \in Staff, NEW u \in Staff, NEW s \in AC!Scopes,
             AC!RequestRemove(q, a, u, s)
      PROVE  RoleInv'
  <2>1. PICK c : c = [op |-> IF s = AC!Platform THEN "recheck" ELSE "remove",
                      admin |-> a, u |-> u, scope |-> s]
    BY Zenon
  <2>2. c \in RemoveCalls BY <2>1 DEF RemoveCalls
  <2> QED BY <1>1, <1>3, <2>1, <2>2 DEF AC!RequestRemove
<1>4. RoleCall(AC!Idle) BY DEF RoleCall
<1>5. ASSUME NEW q \in Requests, AC!Deny(q) PROVE RoleInv'
  BY <1>4, <1>5, RolesKept, Zenon DEF AC!Deny, AC!End
<1>6. ASSUME NEW q \in Requests, AC!Is(q, "check") \/ AC!Is(q, "recheck"), AC!CheckAdmin(q)
      PROVE  RoleInv'
  <2>1. PICK c : c = [granting[q] EXCEPT !.op = IF @ = "check" THEN "assign" ELSE "remove"] BY Zenon
  <2>2. CASE AC!Is(q, "check")
    <3>1. c \in AssignCalls
      BY <2>1, <2>2, RoleHeld DEF AC!Is, AssignCalls
    <3> QED BY <1>4, <1>6, <2>1, <3>1, RolesKept DEF AC!CheckAdmin, AC!Go, AC!End, AC!roleVars, RoleCall
  <2>3. CASE AC!Is(q, "recheck")
    <3>1. c \in RemoveCalls
      BY <2>1, <2>3, RoleHeld DEF AC!Is, RemoveCalls
    <3> QED BY <1>4, <1>6, <2>1, <3>1, RolesKept DEF AC!CheckAdmin, AC!Go, AC!End, AC!roleVars, RoleCall
  <2> QED BY <1>6, <2>2, <2>3
<1>7. ASSUME NEW q \in Requests, AC!Is(q, "assign"), AC!AssignRole(q) PROVE RoleInv'
  <2>1. PICK u, role, scope : u = granting[q].u /\ role = granting[q].role /\ scope = granting[q].scope
    OBVIOUS
  <2>2. u \in Staff /\ role \in Sought /\ scope \in AC!Scopes
    BY <1>7, <2>1, RoleHeld DEF AC!Is, AssignCalls
  <2>3. PICK r : r = IF scope = AC!Platform THEN AC!Stored(role) ELSE role OBVIOUS
  <2>4. CASE r \in AC!Roles /\ AC!CanStore(u, r, scope)
    <3>1. PICK k : k = <<u, r, scope>> BY Zenon
    <3>2. k \in RoleKeys BY <2>2, <2>4, <3>1 DEF RoleKeys
    <3>3. /\ row' = [row EXCEPT ![k] = row[k] + 1]
          /\ asked' = IF scope = AC!Platform THEN asked \cup {<<u, role>>} ELSE asked
      BY <1>7, <2>1, <2>3, <2>4, <3>1 DEF AC!AssignRole
    <3>4. row[k] \in 0..MaxCopies /\ row[k] < MaxCopies
      <4>1. row[k] \in 0..MaxCopies BY <3>2 DEF RoleInv
      <4> QED BY <2>4, <3>1, <4>1, ServicesAssumption DEF AC!CanStore, AC!UserHasRole
    <3>5. row' \in [RoleKeys -> 0..MaxCopies]
      <4>1. row[k] + 1 \in 0..MaxCopies BY <3>4, ServicesAssumption
      <4> QED BY <3>2, <3>3, <4>1 DEF RoleInv
    <3>6. \A j \in RoleKeys : row'[j] >= row[j]
      <4>1. ASSUME NEW j \in RoleKeys PROVE row'[j] >= row[j]
        <5>1. row[j] \in 0..MaxCopies BY DEF RoleInv
        <5> QED BY <3>3, <5>1, ServicesAssumption DEF RoleInv
      <4> QED BY <4>1
    <3>7. row'[k] > 0 BY <3>2, <3>3, <3>4 DEF RoleInv
    <3>8. AskedIsStored'
      <4> SUFFICES ASSUME NEW b \in asked'
                   PROVE  AC!Stored(b[2]) \in AC!Roles /\ row'[<<b[1], AC!Stored(b[2]), AC!Platform>>] > 0
        BY DEF AskedIsStored
      <4>1. CASE b \in asked
        <5>1. /\ AC!Stored(b[2]) \in AC!Roles /\ b[1] \in Staff
              /\ row[<<b[1], AC!Stored(b[2]), AC!Platform>>] > 0
          BY <4>1 DEF RoleInv, AskedIsStored
        <5>2. PICK j : j = <<b[1], AC!Stored(b[2]), AC!Platform>> BY Zenon
        <5>3. j \in RoleKeys BY <5>1, <5>2 DEF RoleKeys, AC!Scopes
        <5>4. row'[j] >= row[j] /\ row[j] \in 0..MaxCopies /\ row'[j] \in 0..MaxCopies
          BY <3>5, <3>6, <5>3 DEF RoleInv
        <5> QED BY <5>1, <5>2, <5>4, ServicesAssumption
      <4>2. CASE scope = AC!Platform /\ b = <<u, role>>
        BY <2>3, <2>4, <3>1, <3>7, <4>2
      <4> QED BY <3>3, <4>1, <4>2
    <3>9. asked' \subseteq Staff \X Sought BY <2>2, <3>3 DEF RoleInv
    <3>10. granting' = [granting EXCEPT ![q] = AC!Idle] BY <1>7 DEF AC!AssignRole, AC!End
    <3>11. \A p \in Requests : RoleCall(granting'[p]) BY <1>4, <3>10 DEF RoleInv
    <3> QED BY <3>5, <3>8, <3>9, <3>10, <3>11 DEF RoleInv, RoleCall, RoleKeys
  <2>5. CASE ~(r \in AC!Roles /\ AC!CanStore(u, r, scope))
    BY <1>4, <1>7, <2>1, <2>3, <2>5, RolesKept, Zenon DEF AC!AssignRole, AC!End
  <2> QED BY <2>4, <2>5
<1>8. ASSUME NEW q \in Requests, AC!Is(q, "remove"), AC!RemoveUser(q) PROVE RoleInv'
  <2>1. PICK u, scope : u = granting[q].u /\ scope = granting[q].scope OBVIOUS
  <2>2. u \in Staff /\ scope \in AC!Scopes
    BY <1>8, <2>1, RoleHeld DEF AC!Is, RemoveCalls
  <2>3. /\ row' = [k \in RoleKeys |-> IF k[1] = u /\ k[3] = scope THEN 0 ELSE row[k]]
        /\ asked' = IF scope = AC!Platform THEN {a \in asked : a[1] # u} ELSE asked
        /\ granting' = [granting EXCEPT ![q] = AC!Idle]
    BY <1>8, <2>1 DEF AC!RemoveUser, AC!End, RoleInv
  <2>4. row' \in [RoleKeys -> 0..MaxCopies]
    <3>1. 0 \in 0..MaxCopies BY ServicesAssumption
    <3> QED BY <2>3, <3>1 DEF RoleInv
  <2>5. asked' \subseteq asked BY <2>3
  <2>6. AskedIsStored'
    <3> SUFFICES ASSUME NEW b \in asked'
                 PROVE  AC!Stored(b[2]) \in AC!Roles /\ row'[<<b[1], AC!Stored(b[2]), AC!Platform>>] > 0
      BY DEF AskedIsStored
    <3>1. /\ AC!Stored(b[2]) \in AC!Roles /\ b[1] \in Staff
          /\ row[<<b[1], AC!Stored(b[2]), AC!Platform>>] > 0
      BY <2>5 DEF RoleInv, AskedIsStored
    <3>2. PICK j : j = <<b[1], AC!Stored(b[2]), AC!Platform>> BY Zenon
    <3>3. j \in RoleKeys /\ j[1] = b[1] /\ j[3] = AC!Platform
      BY <3>1, <3>2 DEF RoleKeys, AC!Scopes
    <3>4. scope = AC!Platform => b[1] # u BY <2>3
    <3> QED BY <2>3, <3>1, <3>2, <3>3, <3>4
  <2>7. \A p \in Requests : RoleCall(granting'[p]) BY <1>4, <2>3 DEF RoleInv
  <2> QED BY <2>3, <2>4, <2>5, <2>6, <2>7 DEF RoleInv, RoleCall, RoleKeys
<1> QED BY <1>2, <1>3, <1>5, <1>6, <1>7, <1>8 DEF AC!RoleNext
-----------------------------------------------------------------------------
(* The security policy and the keys *)

CreateCall == [op |-> "create"]
UseCall(k) == [op |-> "use", k |-> k]
KeyCall(c) == c = SE!Idle \/ c = CreateCall \/ \E k \in Keys : c = UseCall(k)

\* What a request that does not overlap found still holds.
KeyKnows(c) ==
    /\ c.op = "use" => SE!Valid(c.k)
    /\ c.op = "create" => ~rules.there

KeyInv ==
    /\ DOMAIN guarding = Requests
    /\ \A q \in Requests : KeyCall(guarding[q])
    /\ DOMAIN secret = Keys
    /\ solo => /\ ~stale /\ ~conflict
               /\ \A q \in Requests : KeyKnows(guarding[q])
               /\ \A q, r \in Requests : guarding[q] # SE!Idle /\ guarding[r] # SE!Idle => q = r

LEMMA KeyPolicy == ASSUME KeyInv PROVE SE!PolicyObeyed
<1>1. rules.digits => "digit" \in SE!ValidatePassword([long |-> TRUE, digit |-> FALSE])
  BY DEF SE!ValidatePassword
<1>2. \A ip \in Addresses : SE!IsIpAllowed(ip) => ip \notin rules.black
  BY DEF SE!IsIpAllowed
<1> QED BY <1>1, <1>2 DEF KeyInv, SE!PolicyObeyed

\* With nothing under way, what the administrator does disturbs no request.
LEMMA KeyAlone ==
  ASSUME KeyInv, UNCHANGED <<solo, guarding, stale, conflict>>, DOMAIN secret' = Keys,
         solo => \A q \in Requests : guarding[q] = SE!Idle
  PROVE  KeyInv'
<1>1. \A q \in Requests : KeyCall(guarding[q])'
  BY DEF KeyInv, KeyCall
<1>2. solo => \A q \in Requests : KeyKnows(guarding[q])'
  BY DEF KeyKnows, SE!Idle
<1> QED BY <1>1, <1>2 DEF KeyInv

\* A request begins: it knows what it read.
LEMMA KeyBegin ==
  ASSUME KeyInv, UNCHANGED <<rules, conflict, secret, used, stale, solo>>,
         NEW q \in Requests, NEW c, KeyCall(c), solo => KeyKnows(c), SE!Begin(q, c)
  PROVE  KeyInv'
<1>1. /\ guarding' = [guarding EXCEPT ![q] = c]
      /\ solo => \A r \in Requests : guarding[r] = SE!Idle
  BY DEF SE!Begin, SE!Free
<1>2. \A r \in Requests : KeyCall(guarding'[r])
  BY <1>1 DEF KeyInv
<1>3. ASSUME solo, NEW r \in Requests PROVE KeyKnows(guarding'[r])
  BY <1>1, <1>3 DEF KeyInv
<1>4. DOMAIN guarding' = Requests BY <1>1 DEF KeyInv
<1>5. solo => \A r, s \in Requests : guarding'[r] # SE!Idle /\ guarding'[s] # SE!Idle => r = s
  BY <1>1 DEF KeyInv
<1> QED BY <1>2, <1>3, <1>4, <1>5 DEF KeyInv, KeyCall, KeyKnows, SE!Valid

\* A request ends: alone, it was the only one.
LEMMA KeyEnd ==
  ASSUME KeyInv, UNCHANGED <<secret, solo>>, NEW q \in Requests, guarding[q] # SE!Idle,
         SE!End(q), solo => ~stale' /\ ~conflict'
  PROVE  KeyInv'
<1>1. guarding' = [guarding EXCEPT ![q] = SE!Idle] BY DEF SE!End
<1>2. \A r \in Requests : KeyCall(guarding'[r])
  BY <1>1 DEF KeyInv, KeyCall
<1>3. solo => \A r \in Requests : guarding'[r] = SE!Idle
  BY <1>1 DEF KeyInv
<1>4. DOMAIN guarding' = Requests BY <1>1 DEF KeyInv
<1> QED BY <1>2, <1>3, <1>4 DEF KeyInv, KeyCall, KeyKnows, SE!Idle

LEMMA KeyStep == ASSUME KeyInv, SE!SecurityNext PROVE KeyInv'
<1>0. UNCHANGED solo BY DEF SE!SecurityNext
<1>1. ASSUME NEW q \in Requests, SE!FindPolicy(q) PROVE KeyInv'
  <2>1. KeyCall(CreateCall) /\ (solo => KeyKnows(CreateCall))
    BY <1>1 DEF KeyCall, KeyKnows, CreateCall, SE!FindPolicy
  <2> QED BY <1>0, <1>1, <2>1, KeyBegin DEF SE!FindPolicy, SE!keyVars, CreateCall
<1>2. ASSUME NEW q \in Requests, SE!Is(q, "create"), SE!CreatePolicy(q) PROVE KeyInv'
  <2>1. guarding[q] # SE!Idle BY <1>2 DEF SE!Is, SE!Idle
  <2>2. solo => ~stale /\ ~conflict /\ ~rules.there
    BY <1>2 DEF KeyInv, KeyKnows, SE!Is
  <2>3. /\ UNCHANGED <<secret, stale>> /\ SE!End(q)
        /\ conflict' = (conflict \/ rules.there)
    BY <1>2 DEF SE!CreatePolicy
  <2>4. solo => ~stale' /\ ~conflict' BY <2>2, <2>3, Zenon
  <2> QED BY <1>0, <2>1, <2>3, <2>4, KeyEnd
<1>3. ASSUME \A q \in Requests : solo => guarding[q] = SE!Idle,
             NEW digits \in BOOLEAN, NEW w \in SUBSET Addresses, NEW b \in SUBSET Addresses,
             SE!UpdatePolicy(digits, w, b)
      PROVE  KeyInv'
  BY <1>0, <1>3, KeyAlone DEF SE!UpdatePolicy, KeyInv
<1>4. ASSUME \A q \in Requests : solo => guarding[q] = SE!Idle, NEW k \in Keys,
             SE!CreateKey(k) \/ SE!ExpireKey(k) \/ SE!RevokeKey(k)
      PROVE  KeyInv'
  <2>1. DOMAIN secret' = Keys
    BY <1>4 DEF KeyInv, SE!CreateKey, SE!ExpireKey, SE!RevokeKey
  <2>2. UNCHANGED <<guarding, stale, conflict>>
    BY <1>4 DEF SE!CreateKey, SE!ExpireKey, SE!RevokeKey
  <2> QED BY <1>0, <1>4, <2>1, <2>2, KeyAlone
<1>5. ASSUME NEW q \in Requests, NEW k \in Keys, SE!FindKey(q, k) PROVE KeyInv'
  <2>1. KeyCall(UseCall(k)) BY DEF KeyCall
  <2>2. KeyKnows(UseCall(k))
    BY <1>5 DEF KeyKnows, UseCall, SE!FindKey, SE!Valid
  <2> QED BY <1>0, <1>5, <2>1, <2>2, KeyBegin DEF SE!FindKey, SE!keyVars, UseCall
<1>6. ASSUME NEW q \in Requests, SE!Is(q, "use"), SE!AnswerValid(q) PROVE KeyInv'
  <2>1. guarding[q] # SE!Idle BY <1>6 DEF SE!Is, SE!Idle
  <2>2. solo => ~stale /\ ~conflict /\ SE!Valid(guarding[q].k)
    BY <1>6 DEF KeyInv, KeyKnows, SE!Is
  <2>3. /\ UNCHANGED <<secret, conflict>> /\ SE!End(q)
        /\ stale' = (stale \/ ~SE!Valid(guarding[q].k))
    BY <1>6 DEF SE!AnswerValid
  <2>4. solo => ~stale' /\ ~conflict' BY <2>2, <2>3, Zenon
  <2> QED BY <1>0, <2>1, <2>3, <2>4, KeyEnd
<1> QED BY <1>1, <1>2, <1>3, <1>4, <1>5, <1>6 DEF SE!SecurityNext
-----------------------------------------------------------------------------
(* The tenant's configuration *)

ConfigCalls ==
    [op : OB!Fields, pc : {"save"}, answered : BOOLEAN, read : [OB!Fields -> Nat]]
\* Writers of the two fields of this behaviour do not meet.
FieldsApart == ~(OB!Fields \subseteq rival)

\* What a field is worth: its writer's last word, unless the whole was replaced.
Sound(f, value) == value = wrote[f] \/ f \in replaced
\* The other field of what a request read is sound, unless its writer overlaps
\* or the read failed, which the request takes for an empty configuration.
ConfigKnows(c) ==
    FieldsApart /\ c # OB!Idle /\ c.answered =>
        \A f \in OB!Fields : f # c.op => Sound(f, c.read[f])

ConfigInv ==
    /\ config \in [OB!Fields -> Nat] /\ wrote \in [OB!Fields -> Nat]
    /\ DOMAIN joining = Requests
    /\ \A q \in Requests : joining[q] = OB!Idle \/ joining[q] \in ConfigCalls
    /\ \A q \in Requests : ConfigKnows(joining[q])
    /\ Apart
    /\ OB!NoLostUpdate

LEMMA ConfigStep == ASSUME ConfigInv, OB!ConfigNext PROVE ConfigInv'
<1>0. UNCHANGED rival BY DEF OB!ConfigNext
\* A request that leaves the configuration as it is.
<1>1. ASSUME NEW q \in Requests, NEW c, c = OB!Idle \/ c \in ConfigCalls, ConfigKnows(c),
             joining' = [joining EXCEPT ![q] = c], UNCHANGED <<config, wrote, replaced>>,
             c = OB!Idle \/ OB!Free(q, c.op)
      PROVE  ConfigInv'
  <2>1. Apart' BY <1>0, <1>1, ApartKept, Zenon DEF ConfigInv
  <2>2. ASSUME NEW r \in Requests
        PROVE  (joining'[r] = OB!Idle \/ joining'[r] \in ConfigCalls) /\ ConfigKnows(joining[r])'
    BY <1>0, <1>1 DEF ConfigInv, ConfigKnows, FieldsApart, Sound
  <2> QED BY <1>0, <1>1, <2>1, <2>2 DEF ConfigInv, OB!NoLostUpdate, ConfigCalls
<1>2. ASSUME NEW q \in Requests, NEW f \in OB!Fields, OB!ReadConfig(q, f) PROVE ConfigInv'
  <2>0. PICK ok \in BOOLEAN :
            OB!Begin(q, [op |-> f, pc |-> "save", answered |-> ok,
                         read |-> IF ok THEN config ELSE OB!NoConfig])
    BY <1>2, Zenon DEF OB!ReadConfig
  <2>1. PICK c : /\ c = [op |-> f, pc |-> "save", answered |-> ok,
                         read |-> IF ok THEN config ELSE OB!NoConfig]
                 /\ OB!Begin(q, c)
    BY <2>0, Zenon
  <2>2. PICK old \in [OB!Fields -> Nat] : old = IF ok THEN config ELSE OB!NoConfig
    BY DEF ConfigInv, OB!NoConfig
  <2>3. c = [op |-> f, pc |-> "save", answered |-> ok, read |-> old] BY <2>1, <2>2
  <2>4. c \in ConfigCalls BY <2>3, Zenon DEF ConfigCalls
  <2>5. c.op = f /\ c.answered = ok /\ c.read = old BY <2>3
  <2>6. ConfigKnows(c)
    BY <2>2, <2>5 DEF ConfigKnows, FieldsApart, Sound, ConfigInv, OB!NoLostUpdate
  <2>7. UNCHANGED <<config, wrote, replaced>> /\ OB!Free(q, c.op) /\ joining' = [joining EXCEPT ![q] = c]
    BY <1>2, <2>1 DEF OB!ReadConfig, OB!Begin, OB!configVars
  <2> QED BY <1>1, <2>4, <2>6, <2>7, Zenon
<1>3. ASSUME NEW q \in Requests, joining[q].op \in OB!Fields, OB!SaveConfig(q) PROVE ConfigInv'
  <2>1. joining[q] # OB!Idle /\ joining[q] \in ConfigCalls
    BY <1>3 DEF ConfigInv, OB!Idle, OB!Fields
  <2>2. PICK f, old, ok : f = joining[q].op /\ old = joining[q].read /\ ok = joining[q].answered OBVIOUS
  <2>3. f \in OB!Fields /\ old \in [OB!Fields -> Nat] /\ ok \in BOOLEAN
    BY <2>1, <2>2 DEF ConfigCalls
  <2>4. /\ config' = [old EXCEPT ![f] = wrote[f] + 1]
        /\ wrote' = [wrote EXCEPT ![f] = wrote[f] + 1]
        /\ replaced' = (replaced \cup IF ok THEN {} ELSE OB!Fields) \ {f}
        /\ joining' = [joining EXCEPT ![q] = OB!Idle]
    BY <1>3, <2>2 DEF OB!SaveConfig, OB!End
  <2>5. config' \in [OB!Fields -> Nat] /\ wrote' \in [OB!Fields -> Nat]
    <3>1. wrote[f] + 1 \in Nat BY <2>3 DEF ConfigInv
    <3> QED BY <2>3, <2>4, <3>1 DEF ConfigInv
  <2>6. Apart' BY <1>0, <2>4, ApartKept, Zenon DEF ConfigInv
  \* What was sound of the other field still is.
  <2>7. ASSUME NEW g \in OB!Fields, g # f, NEW x, Sound(g, x) PROVE Sound(g, x)'
    BY <2>3, <2>4, <2>7 DEF Sound, ConfigInv
  <2>8. OB!NoLostUpdate'
    <3> SUFFICES ASSUME FieldsApart, NEW g \in OB!Fields PROVE config'[g] = wrote'[g] \/ g \in replaced'
      BY <1>0 DEF OB!NoLostUpdate, FieldsApart
    <3>1. CASE g = f BY <2>3, <2>4, <3>1 DEF ConfigInv
    <3>2. CASE g # f /\ ~ok BY <2>4, <3>2
    <3>3. CASE g # f /\ ok
      <4>1. Sound(g, old[g]) BY <2>1, <2>2, <3>3 DEF ConfigInv, ConfigKnows
      <4>2. Sound(g, old[g])' BY <2>7, <3>3, <4>1 DEF Sound
      <4> QED BY <2>3, <2>4, <3>3, <4>2 DEF Sound
    <3> QED BY <3>1, <3>2, <3>3
  <2>9. ASSUME NEW r \in Requests
        PROVE  (joining'[r] = OB!Idle \/ joining'[r] \in ConfigCalls) /\ ConfigKnows(joining[r])'
    <3>1. CASE r = q BY <2>4, <3>1 DEF ConfigInv, ConfigKnows
    <3>2. CASE joining[r] = OB!Idle BY <2>4, <3>2 DEF ConfigInv, ConfigKnows
    <3>3. CASE r # q /\ joining[r] # OB!Idle
      <4>1. PICK d : d = joining[r] OBVIOUS
      <4>2. joining'[r] = d /\ d \in ConfigCalls /\ ConfigKnows(d)
        BY <2>4, <3>3, <4>1 DEF ConfigInv
      <4>3. d.op \in OB!Fields /\ d.op \in rival /\ f \in rival
        BY <2>1, <2>2, <3>3, <4>1, <4>2 DEF ConfigInv, Apart, ConfigCalls
      <4>4. FieldsApart => d.op = f
        BY <2>3, <4>3 DEF FieldsApart, OB!Fields
      <4>5. ConfigKnows(d)'
        <5> SUFFICES ASSUME FieldsApart, d # OB!Idle, d.answered, NEW g \in OB!Fields, g # d.op
                     PROVE  Sound(g, d.read[g])'
          BY <1>0 DEF ConfigKnows, FieldsApart
        <5>1. PICK x : x = d.read[g] OBVIOUS
        <5>2. Sound(g, x) BY <4>2, <5>1 DEF ConfigKnows
        <5> QED BY <2>7, <4>4, <5>1, <5>2 DEF Sound
      <4> QED BY <4>2, <4>5 DEF ConfigKnows, Sound
    <3> QED BY <3>1, <3>2, <3>3
  <2> QED BY <1>0, <2>4, <2>5, <2>6, <2>8, <2>9 DEF ConfigInv, ConfigCalls
<1>4. ASSUME NEW q \in Requests, OB!SaveFails(q) PROVE ConfigInv'
  <2>1. ConfigKnows(OB!Idle) BY DEF ConfigKnows
  <2> QED BY <1>1, <1>4, <2>1, Zenon DEF OB!SaveFails, OB!End, OB!configVars
<1>5. ASSUME OB!UpdateConfig PROVE ConfigInv'
  <2>1. PICK kept \in SUBSET OB!Fields :
            /\ config' = [f \in OB!Fields |-> IF f \in kept THEN config[f] ELSE 0]
            /\ replaced' = replaced \cup (OB!Fields \ kept)
            /\ UNCHANGED <<wrote, joining>>
    BY <1>5 DEF OB!UpdateConfig
  <2>2. Apart' BY <1>0, <2>1 DEF ConfigInv, Apart
  <2>3. OB!NoLostUpdate' BY <1>0, <2>1 DEF ConfigInv, OB!NoLostUpdate
  <2>4. \A r \in Requests : ConfigKnows(joining[r])'
    BY <1>0, <2>1 DEF ConfigInv, ConfigKnows, FieldsApart, Sound
  <2> QED BY <2>1, <2>2, <2>3, <2>4 DEF ConfigInv, ConfigCalls
<1> QED BY <1>2, <1>3, <1>4, <1>5, Zenon DEF OB!ConfigNext

-----------------------------------------------------------------------------
(* Devices and preferences *)

\* While requests do not overlap, no device changes hands under a push.
Owned == solo => \A n \in NO!Sends : reached[n] \subseteq {n[1]}
OneRow == solo => \A u \in Targets : Len(preference[u]) <= 1
DeviceInv ==
    /\ DOMAIN send = NO!Sends /\ DOMAIN reached = NO!Sends
    /\ device \in [Tokens -> [user : Targets \cup {"none"}, active : BOOLEAN]]
    /\ \A n \in NO!Sends : send[n] = NO!NotSent \/ {"pc", "channel", "to"} \subseteq DOMAIN send[n]
    /\ solo => \A n \in NO!Sends : send[n].pc = "deliver" /\ send[n].channel = "push" =>
          \A t \in send[n].to : t \in Tokens /\ device[t].user = n[1]
    /\ Owned

\* A send that is not at its delivery changes, and nothing else does.
LEMMA SendMoves ==
  ASSUME DeviceInv, UNCHANGED <<device, reached, solo>>, DOMAIN send' = NO!Sends,
         \A n \in NO!Sends :
            \/ send'[n] = send[n]
            \/ /\ {"pc", "channel", "to"} \subseteq DOMAIN send'[n]
               /\ send'[n].pc # "deliver" \/ send'[n].channel # "push"
  PROVE  DeviceInv'
  BY DEF DeviceInv, Owned, NO!Sends

LEMMA BegunRow == ASSUME NEW channel
  PROVE  /\ {"pc", "channel", "to"} \subseteq DOMAIN NO!Begun(channel)
         /\ NO!Begun(channel).pc # "deliver" \/ NO!Begun(channel).channel # "push"
         /\ LET at == [NO!Begun("push") EXCEPT !.pc = "template"]
            IN  {"pc", "channel", "to"} \subseteq DOMAIN at /\ at.pc # "deliver"
  BY DEF NO!Begun

LEMMA AtPc == ASSUME NEW at, {"pc", "channel", "to"} \subseteq DOMAIN at, NEW to
  PROVE  /\ {"pc", "channel", "to"} \subseteq DOMAIN [at EXCEPT !.pc = to]
         /\ [at EXCEPT !.pc = to].pc = to
  OBVIOUS

LEMMA DispatchStep == ASSUME DeviceInv, NO!DispatchNext, UNCHANGED solo PROVE DeviceInv'
<1> SUFFICES ASSUME NEW n \in NO!Sends,
               \/ \E channel \in NO!Channels : NO!StartSend(n, channel)
               \/ NO!CreateRow(n) \/ NO!FindTargets(n) \/ NO!RecordSkipped(n)
               \/ send[n].pc = "deliver" /\ \E taken \in SUBSET send[n].to :
                     \E lost \in BOOLEAN : NO!Deliver(n, taken, lost)
               \/ NO!CreateSmsRow(n)
               \/ \E status \in {"sent", "failed"} : NO!RecordResult(n, status)
               \/ NO!Fail(n)
             PROVE DeviceInv'
  BY DEF NO!DispatchNext
<1>0. send[n].pc # "none" => {"pc", "channel", "to"} \subseteq DOMAIN send[n]
  BY DEF DeviceInv, NO!NotSent
<1>1. ASSUME NEW channel, send' = [send EXCEPT ![n] = NO!Begun(channel)], UNCHANGED <<device, reached>>
      PROVE DeviceInv'
  BY <1>1, SendMoves, BegunRow DEF DeviceInv
<1>2. ASSUME NEW r, send' = [send EXCEPT ![n] = r], UNCHANGED <<device, reached>>,
             {"pc", "channel", "to"} \subseteq DOMAIN r, r.pc # "deliver"
      PROVE  DeviceInv'
  BY <1>2, SendMoves DEF DeviceInv
<1>11. ASSUME NEW at, at # "deliver", send[n].pc # "none",
              send' = [send EXCEPT ![n].pc = at], UNCHANGED <<device, reached>>
       PROVE  DeviceInv'
  <2>1. PICK r : r = [send[n] EXCEPT !.pc = at] BY Zenon
  <2>2. {"pc", "channel", "to"} \subseteq DOMAIN r /\ r.pc # "deliver"
    BY <1>0, <1>11, <2>1, AtPc
  <2>3. send' = [send EXCEPT ![n] = r] BY <1>11, <2>1 DEF DeviceInv
  <2> QED BY <1>2, <1>11, <2>2, <2>3, Zenon
<1>3. CASE \E channel \in NO!Channels : NO!StartSend(n, channel)
  BY <1>1, <1>3, Zenon DEF NO!StartSend
<1>4. CASE NO!CreateRow(n)
  BY <1>11, <1>4, Zenon DEF NO!CreateRow
<1>5. CASE NO!FindTargets(n)
  <2>1. PICK active, targets :
          /\ active = {t \in Tokens : device[t].active /\ device[t].user = n[1]}
          /\ targets = IF send[n].channel = "push" THEN active ELSE {n[1]} \cap Emailed
    BY Zenon
  <2>2. PICK r : r = [send[n] EXCEPT !.to = targets, !.pc = IF targets = {} THEN "skip" ELSE "deliver"]
    BY Zenon
  <2>3. send[n].pc = "find" /\ send' = [send EXCEPT ![n] = r] /\ UNCHANGED <<device, reached>>
    BY <1>5, <2>1, <2>2 DEF NO!FindTargets
  <2>4. {"pc", "channel", "to"} \subseteq DOMAIN r /\ r.to = targets /\ r.channel = send[n].channel
    BY <1>0, <2>2, <2>3
  <2>5. r.channel = "push" => \A t \in r.to : t \in Tokens /\ device[t].user = n[1]
    BY <2>1, <2>4
  <2>6. \A m \in NO!Sends : send'[m] = send[m] \/ (m = n /\ send'[m] = r)
    BY <2>3 DEF DeviceInv
  <2> QED BY <2>3, <2>4, <2>5, <2>6 DEF DeviceInv, Owned, NO!Sends
<1>6. CASE NO!RecordSkipped(n)
  BY <1>11, <1>6, Zenon DEF NO!RecordSkipped
<1>7. ASSUME send[n].pc = "deliver", NEW taken \in SUBSET send[n].to, NEW lost \in BOOLEAN,
             NO!Deliver(n, taken, lost)
      PROVE  DeviceInv'
  <2>0. PICK done, lacking : send' = [send EXCEPT ![n] =
          IF send[n].channel = "sms" THEN [send[n] EXCEPT !.pc = "smsRow", !.sent = 1]
          ELSE [send[n] EXCEPT !.pc = "record", !.sent = done, !.failed = lacking]]
    BY <1>7, Zenon DEF NO!Deliver
  <2>4. PICK r : r = IF send[n].channel = "sms" THEN [send[n] EXCEPT !.pc = "smsRow", !.sent = 1]
                     ELSE [send[n] EXCEPT !.pc = "record", !.sent = done, !.failed = lacking]
    OBVIOUS
  <2>1. /\ send' = [send EXCEPT ![n] = r]
        /\ {"pc", "channel", "to"} \subseteq DOMAIN r /\ r.pc # "deliver"
    <3>1. send' = [send EXCEPT ![n] = r] BY <2>0, <2>4
    <3>2. {"pc", "channel", "to"} \subseteq DOMAIN r BY <1>0, <1>7, <2>4
    <3>3. r.pc \in {"smsRow", "record"} BY <1>0, <1>7, <2>4
    <3> QED BY <3>1, <3>2, <3>3
  <2>2. /\ UNCHANGED device
        /\ reached' = [reached EXCEPT ![n] =
              IF lost \/ send[n].channel # "push" THEN @ ELSE @ \cup {device[t].user : t \in taken}]
    BY <1>7, Zenon DEF NO!Deliver
  <2>3. Owned'
    <3> SUFFICES ASSUME solo, NEW m \in NO!Sends, NEW u \in reached'[m] PROVE u = m[1]
      BY DEF Owned, NO!Sends
    <3>1. CASE u \in reached[m] BY <3>1 DEF DeviceInv, Owned
    <3>2. CASE m = n /\ send[n].channel = "push" /\ u \in {device[t].user : t \in taken}
      BY <1>7, <3>2 DEF DeviceInv
    <3> QED BY <2>2, <3>1, <3>2 DEF DeviceInv
  <2> QED BY <2>1, <2>2, <2>3 DEF DeviceInv, NO!Sends
<1>8. CASE NO!CreateSmsRow(n)
  BY <1>11, <1>8, Zenon DEF NO!CreateSmsRow
<1>9. ASSUME NEW status \in {"sent", "failed"}, NO!RecordResult(n, status) PROVE DeviceInv'
  <2>1. PICK less, at : send' = [send EXCEPT ![n] = [send[n] EXCEPT ![status] = less, !.pc = at]]
                        /\ at \in {"done", "record"}
    BY <1>9, Zenon DEF NO!RecordResult
  <2>4. PICK r : r = [send[n] EXCEPT ![status] = less, !.pc = at] BY Zenon
  <2>2. /\ send' = [send EXCEPT ![n] = r] /\ send[n].pc = "record"
        /\ UNCHANGED <<device, reached>>
    BY <1>9, <2>1, <2>4, Zenon DEF NO!RecordResult
  <2>3. {"pc", "channel", "to"} \subseteq DOMAIN r /\ r.pc # "deliver"
    BY <1>0, <2>1, <2>2, <2>4, Zenon
  <2> QED BY <1>2, <2>2, <2>3, Zenon
<1>10. CASE NO!Fail(n)
  BY <1>11, <1>10, Zenon DEF NO!Fail, NO!Busy
<1> QED BY <1>3, <1>4, <1>5, <1>6, <1>7, <1>8, <1>9, <1>10

LEMMA CampaignStep == ASSUME DeviceInv, NO!CampaignNext, UNCHANGED solo PROVE DeviceInv'
<1>1. ASSUME NEW n \in NO!Sends, NO!StartFromTemplate(n) \/ NO!ReadTemplate(n) PROVE DeviceInv'
  <2>1. send' = [send EXCEPT ![n] = NO!Begun(template)] /\ UNCHANGED <<device, reached>>
    BY <1>1 DEF NO!StartFromTemplate, NO!ReadTemplate
  <2> QED BY <2>1, SendMoves, BegunRow DEF DeviceInv
<1>2. ASSUME NEW recipients \in SUBSET Targets, NEW sms \in BOOLEAN, NO!SendCampaign(recipients, sms)
      PROVE  DeviceInv'
  <2>1. UNCHANGED <<device, reached>> /\ DOMAIN send' = NO!Sends
    BY <1>2 DEF NO!SendCampaign
  <2>2. ASSUME NEW n \in NO!Sends
        PROVE \/ send'[n] = send[n] \/ send'[n] = NO!Begun("sms")
              \/ send'[n] = [NO!Begun("push") EXCEPT !.pc = "template"]
    BY <1>2 DEF NO!SendCampaign
  <2> QED BY <2>1, <2>2, SendMoves, BegunRow
<1>3. ASSUME NEW channel \in NO!Channels, NO!SetTemplate(channel) PROVE DeviceInv'
  BY <1>3, SendMoves DEF NO!SetTemplate, DeviceInv
<1>4. ASSUME NEW t \in Tokens, NEW u \in Targets, NO!RegisterDevice(t, u) PROVE DeviceInv'
  <2>1. /\ UNCHANGED <<send, reached>> /\ (solo => NO!Busy = {})
        /\ device' = [device EXCEPT ![t] = [user |-> u, active |-> TRUE]]
    BY <1>4 DEF NO!RegisterDevice
  <2>2. device' \in [Tokens -> [user : Targets \cup {"none"}, active : BOOLEAN]]
    BY <2>1 DEF DeviceInv
  <2>3. solo => \A n \in NO!Sends : send[n].pc # "deliver"
    BY <2>1 DEF NO!Busy
  <2> QED BY <2>1, <2>2, <2>3 DEF DeviceInv, Owned, NO!Sends
<1>5. ASSUME NEW t \in Tokens, NO!UnregisterDevice(t) PROVE DeviceInv'
  <2>1. UNCHANGED <<send, reached>> /\ device' = [device EXCEPT ![t].active = FALSE]
    BY <1>5 DEF NO!UnregisterDevice
  <2>2. /\ device' \in [Tokens -> [user : Targets \cup {"none"}, active : BOOLEAN]]
        /\ \A s \in Tokens : device'[s].user = device[s].user
    BY <2>1, device[t] \in [user : Targets \cup {"none"}, active : BOOLEAN], Zenon DEF DeviceInv
  <2> QED BY <2>1, <2>2 DEF DeviceInv, Owned, NO!Sends
<1> QED BY <1>1, <1>2, <1>3, <1>4, <1>5 DEF NO!CampaignNext

LEMMA ReadingStep == ASSUME DeviceInv, NO!ReadingNext, UNCHANGED solo PROVE DeviceInv'
<1>1. UNCHANGED <<send, reached, device>>
  BY DEF NO!ReadingNext, NO!MarkRead, NO!ClickTrack, NO!MarkAllRead, NO!RecordClick
<1> QED BY <1>1 DEF DeviceInv, Owned, NO!Sends

LEMMA PreferenceKept ==
  ASSUME NO!DispatchNext \/ NO!CampaignNext \/ NO!ReadingNext
  PROVE  UNCHANGED preference
  BY Zenon DEF NO!DispatchNext, NO!StartSend, NO!CreateRow, NO!FindTargets, NO!RecordSkipped,
         NO!Deliver, NO!CreateSmsRow, NO!RecordResult, NO!Fail,
         NO!CampaignNext, NO!StartFromTemplate, NO!ReadTemplate, NO!SendCampaign,
         NO!SetTemplate, NO!RegisterDevice, NO!UnregisterDevice,
         NO!ReadingNext, NO!MarkRead, NO!ClickTrack, NO!MarkAllRead, NO!RecordClick

PreferCalls == [op : {"prefer"}, user : Targets, enabled : BOOLEAN, row : Nat]
PreferInv ==
    /\ preference \in [Targets -> Seq(BOOLEAN)]
    /\ DOMAIN noting = Requests
    /\ \A q \in Requests : noting[q] = NO!Idle \/ noting[q] \in PreferCalls
    /\ solo => /\ \A q, r \in Requests : noting[q] # NO!Idle /\ noting[r] # NO!Idle => q = r
               /\ \A q \in Requests : noting[q] # NO!Idle =>
                     noting[q].row = Len(preference[noting[q].user])
    /\ OneRow

LEMMA PreferenceStep == ASSUME PreferInv, NO!PreferenceNext, UNCHANGED solo
  PROVE PreferInv' /\ UNCHANGED reached
<1>1. ASSUME NEW q \in Requests, NEW u \in Targets, NEW enabled \in BOOLEAN,
             NO!ReadPreference(q, u, enabled)
      PROVE  PreferInv' /\ UNCHANGED reached
  <2>1. PICK c : c = [op |-> "prefer", user |-> u, enabled |-> enabled, row |-> Len(preference[u])]
    BY Zenon
  <2>2. /\ noting' = [noting EXCEPT ![q] = c] /\ UNCHANGED <<preference, reached>>
        /\ solo => \A r \in Requests : noting[r] = NO!Idle
    BY <1>1, <2>1 DEF NO!ReadPreference, NO!Free, NO!notifyVars
  <2>3. Len(preference[u]) \in Nat BY DEF PreferInv
  <2>4. c \in PreferCalls /\ c.row = Len(preference[c.user])
    BY <2>1, <2>3 DEF PreferCalls
  <2> QED BY <2>2, <2>4 DEF PreferInv, OneRow, PreferCalls
<1>2. ASSUME NEW q \in Requests, NO!WritePreference(q) PROVE PreferInv' /\ UNCHANGED reached
  <2>1. noting[q] # NO!Idle /\ noting[q] \in PreferCalls
    BY <1>2 DEF PreferInv, NO!WritePreference, NO!Idle
  <2>2. PICK u, on, n : u = noting[q].user /\ on = noting[q].enabled /\ n = noting[q].row BY Zenon
  <2>3. u \in Targets /\ on \in BOOLEAN /\ n \in Nat BY <2>1, <2>2 DEF PreferCalls
  <2>4. PICK s : s = preference[u] OBVIOUS
  <2>5. s \in Seq(BOOLEAN) /\ Len(s) \in Nat BY <2>3, <2>4 DEF PreferInv
  <2>6. /\ noting' = [noting EXCEPT ![q] = NO!Idle] /\ UNCHANGED reached
        /\ \/ n = 0 /\ preference' = [preference EXCEPT ![u] = Append(s, on)]
           \/ n # 0 /\ \E i \in 1..n : preference' = [preference EXCEPT ![u][i] = on]
    BY <1>2, <2>2, <2>4, Zenon DEF NO!WritePreference, NO!End
  <2>7. solo => n = Len(s)
    BY <2>1, <2>2, <2>4 DEF PreferInv
  <2>8. /\ preference' \in [Targets -> Seq(BOOLEAN)]
        /\ solo => Len(preference'[u]) <= 1
        /\ \A v \in Targets : v # u => preference'[v] = preference[v]
    <3>1. CASE n = 0 /\ preference' = [preference EXCEPT ![u] = Append(s, on)]
      <4>1. Append(s, on) \in Seq(BOOLEAN) /\ Len(Append(s, on)) = Len(s) + 1
        BY <2>3, <2>5
      <4> QED BY <2>3, <2>5, <2>7, <3>1, <4>1 DEF PreferInv
    <3>2. ASSUME NEW i \in 1..n, preference' = [preference EXCEPT ![u][i] = on]
          PROVE <2>8
      <4>1. PICK x : x = [s EXCEPT ![i] = on] BY Zenon
      <4>2. x \in Seq(BOOLEAN) /\ Len(x) = Len(s)
        <5>1. s \in [1..Len(s) -> BOOLEAN] BY <2>5
        <5>2. x \in [1..Len(s) -> BOOLEAN] BY <2>3, <4>1, <5>1, Zenon
        <5> QED BY <2>5, <5>2
      <4>3. preference' = [preference EXCEPT ![u] = x] BY <2>4, <3>2, <4>1
      <4>4. solo => Len(s) <= 1 BY <2>3, <2>4 DEF PreferInv, OneRow
      <4> QED BY <2>3, <4>2, <4>3, <4>4 DEF PreferInv
    <3> QED BY <2>6, <3>1, <3>2
  <2>9. OneRow' BY <2>8, Zenon DEF PreferInv, OneRow
  <2>10. /\ DOMAIN noting' = Requests
         /\ \A r \in Requests : noting'[r] = NO!Idle \/ noting'[r] \in PreferCalls
         /\ solo => \A r \in Requests : noting'[r] = NO!Idle
    BY <2>1, <2>6 DEF PreferInv
  <2> QED BY <2>6, <2>8, <2>9, <2>10 DEF PreferInv, PreferCalls
<1> QED BY <1>1, <1>2 DEF NO!PreferenceNext

-----------------------------------------------------------------------------
(* Deployments *)

Running(s) == seeder[s].at \notin {"off", "done"}
\* What a seed that does not overlap read of the account still holds.
DeployInv ==
    /\ DOMAIN seeder = Seeders
    /\ DOMAIN password = Staff
    /\ \A s \in Seeders : {"at", "read"} \subseteq DOMAIN seeder[s]
    /\ solo => /\ \A s, t \in Seeders : Running(s) /\ Running(t) => s = t
               /\ \A s \in Seeders : seeder[s].at = "provision" => seeder[s].read = password[Bootstrap]
    /\ AC!SampleWhole

\* A seed moves on, alone if it does not overlap.
LEMMA SeedMoves ==
  ASSUME DeployInv, UNCHANGED solo, NEW s \in Seeders, NEW r,
         seeder' = [seeder EXCEPT ![s] = r], {"at", "read"} \subseteq DOMAIN r,
         Running(s) \/ (solo => \A t \in Seeders : ~Running(t)),
         DOMAIN password' = Staff,
         r.at = "provision" => r.read = password'[Bootstrap],
         AC!SampleWhole'
  PROVE  DeployInv'
<1>1. /\ DOMAIN seeder' = Seeders /\ seeder'[s] = r
      /\ \A t \in Seeders : t # s => seeder'[t] = seeder[t]
  BY DEF DeployInv
<1>2. solo => \A t \in Seeders : t # s => ~Running(t) /\ ~Running(t)'
  BY <1>1 DEF DeployInv, Running
<1>3. solo => \A t \in Seeders : t # s => seeder'[t].at # "provision"
  BY <1>1, <1>2 DEF Running
<1> QED BY <1>1, <1>2, <1>3 DEF DeployInv

\* The sample merchant stays as it is, and its seed with it.
LEMMA SampleKept ==
  ASSUME DeployInv, UNCHANGED sample, NEW s \in Seeders, NEW r,
         seeder' = [seeder EXCEPT ![s] = r], crashed => crashed',
         seeder[s].at # "fill" \/ crashed'
  PROVE  AC!SampleWhole'
  BY DEF DeployInv, AC!SampleWhole

\* Never a password its owner chose, as long as nothing overlaps.
KeepsOwn == solo => \A u \in Staff : password[u] = "own" => password'[u] = "own"

LEMMA DeployStep == ASSUME DeployInv, AC!SeedNext PROVE DeployInv' /\ KeepsOwn
<1>0. UNCHANGED solo BY DEF AC!SeedNext
<1>1. ASSUME NEW s \in Seeders, NEW at, NEW found, at = "provision" => found = password[Bootstrap],
             seeder' = [seeder EXCEPT ![s] = [at |-> at, read |-> found]],
             seeder[s].at # "fill" \/ crashed', crashed => crashed', UNCHANGED <<password, sample>>,
             Running(s) \/ AC!Alone
      PROVE  DeployInv' /\ KeepsOwn
  <2>1. PICK r : r = [at |-> at, read |-> found] BY Zenon
  <2>2. {"at", "read"} \subseteq DOMAIN r /\ (r.at = "provision" => r.read = password[Bootstrap])
    BY <1>1, <2>1
  <2>3. AC!SampleWhole' BY <1>1, SampleKept, Zenon
  <2>4. AC!Alone => (solo => \A t \in Seeders : ~Running(t))
    BY DEF AC!Alone, Running
  <2>5. DOMAIN password' = Staff BY <1>1 DEF DeployInv
  <2>6. DeployInv'
    BY <1>0, <1>1, <2>1, <2>2, <2>3, <2>4, <2>5, SeedMoves, Zenon
  <2> QED BY <1>1, <2>6 DEF KeepsOwn
<1>2. ASSUME NEW s \in Seeders, AC!StartSeed(s) PROVE DeployInv' /\ KeepsOwn
  BY <1>1, <1>2, Zenon DEF AC!StartSeed, AC!Move
<1>3. ASSUME NEW s \in Seeders, AC!UpsertCore(s) PROVE DeployInv' /\ KeepsOwn
  BY <1>1, <1>3, Zenon DEF AC!UpsertCore, AC!Move, AC!Following, Running
<1>4. ASSUME NEW s \in Seeders, AC!FindAdmin(s) PROVE DeployInv' /\ KeepsOwn
  BY <1>1, <1>4, Zenon DEF AC!FindAdmin, AC!Read, Running
<1>5. ASSUME NEW s \in Seeders, AC!ProvisionAdmin(s) PROVE DeployInv' /\ KeepsOwn
  <2>1. CASE seeder[s].read = "none" /\ password[Bootstrap] # "none"
    BY <1>1, <1>5, <2>1 DEF AC!ProvisionAdmin, AC!Move, Running
  <2>2. CASE ~(seeder[s].read = "none" /\ password[Bootstrap] # "none")
    <3>1. PICK r : r = [at |-> "find", read |-> "none"] BY Zenon
    <3>2. /\ seeder' = [seeder EXCEPT ![s] = r] /\ UNCHANGED <<sample, crashed>>
          /\ password' = IF seeder[s].read \in {"none", "blank"}
                         THEN [password EXCEPT ![Bootstrap] = "seed"] ELSE password
          /\ seeder[s].at = "provision"
      BY <1>5, <2>2, <3>1 DEF AC!ProvisionAdmin, AC!Move
    <3>3. AC!SampleWhole' BY <3>2, SampleKept, Zenon
    <3>4. DOMAIN password' = Staff BY <3>2 DEF DeployInv
    <3>5. {"at", "read"} \subseteq DOMAIN r /\ r.at # "provision" BY <3>1
    <3>6. Running(s) BY <3>2 DEF Running
    <3>7. DeployInv' BY <1>0, <3>2, <3>3, <3>4, <3>5, <3>6, SeedMoves, Zenon
    <3>8. solo => seeder[s].read = password[Bootstrap]
      BY <3>2 DEF DeployInv
    <3>9. KeepsOwn BY <3>2, <3>8 DEF KeepsOwn, DeployInv
    <3> QED BY <3>7, <3>9
  <2> QED BY <2>1, <2>2
<1>6. ASSUME NEW s \in Seeders, AC!FindAdminRole(s) PROVE DeployInv' /\ KeepsOwn
  <2>1. PICK at : at = IF AC!UserHasRole(Bootstrap, "super_admin", AC!Platform) THEN "catalog" ELSE "grant"
    OBVIOUS
  <2>2. /\ seeder' = [seeder EXCEPT ![s] = [at |-> at, read |-> "none"]]
        /\ UNCHANGED <<password, sample, crashed>> /\ seeder[s].at = "find"
    BY <1>6, <2>1 DEF AC!FindAdminRole, AC!Move
  <2>3. at # "provision" BY <2>1
  <2> QED BY <1>1, <2>2, <2>3, Zenon DEF Running
<1>7. ASSUME NEW s \in Seeders, AC!GrantAdmin(s) PROVE DeployInv' /\ KeepsOwn
  BY <1>1, <1>7, Zenon DEF AC!GrantAdmin, AC!Move, Running
<1>8. ASSUME NEW s \in Seeders, AC!FindSample(s) PROVE DeployInv' /\ KeepsOwn
  <2>1. PICK at : at = IF sample = "none" THEN "tenant" ELSE "done"
    OBVIOUS
  <2>2. /\ seeder' = [seeder EXCEPT ![s] = [at |-> at, read |-> "none"]]
        /\ UNCHANGED <<password, sample, crashed>> /\ seeder[s].at = "sample"
    BY <1>8, <2>1 DEF AC!FindSample, AC!Move
  <2>3. at # "provision" BY <2>1
  <2> QED BY <1>1, <2>2, <2>3, Zenon DEF Running
<1>9. ASSUME NEW s \in Seeders, NEW at, at # "provision",
             seeder' = [seeder EXCEPT ![s] = [at |-> at, read |-> "none"]], UNCHANGED password,
             Running(s), AC!SampleWhole'
      PROVE  DeployInv' /\ KeepsOwn
  <2>1. PICK r : r = [at |-> at, read |-> "none"] BY Zenon
  <2>2. {"at", "read"} \subseteq DOMAIN r /\ r.at # "provision" BY <1>9, <2>1
  <2>3. DOMAIN password' = Staff BY <1>9 DEF DeployInv
  <2>4. DeployInv' BY <1>0, <1>9, <2>1, <2>2, <2>3, SeedMoves, Zenon
  <2> QED BY <1>9, <2>4 DEF KeepsOwn
<1>10. ASSUME NEW s \in Seeders, AC!CreateSample(s) PROVE DeployInv' /\ KeepsOwn
  <2>1. CASE sample # "none"
    BY <1>1, <1>10, <2>1 DEF AC!CreateSample, AC!Move, Running
  <2>2. CASE sample = "none"
    <3>1. /\ seeder' = [seeder EXCEPT ![s] = [at |-> "fill", read |-> "none"]]
          /\ UNCHANGED password /\ Running(s)
      BY <1>10, <2>2 DEF AC!CreateSample, AC!Move, Running
    <3>2. AC!SampleWhole' BY <3>1 DEF DeployInv, AC!SampleWhole
    <3> QED BY <1>9, <3>1, <3>2, Zenon
  <2> QED BY <2>1, <2>2
<1>11. ASSUME NEW s \in Seeders, AC!FillSample(s) PROVE DeployInv' /\ KeepsOwn
  <2>1. /\ seeder' = [seeder EXCEPT ![s] = [at |-> "done", read |-> "none"]]
        /\ UNCHANGED password /\ Running(s) /\ sample' = "whole"
    BY <1>11 DEF AC!FillSample, AC!Move, Running
  <2>2. AC!SampleWhole' BY <2>1 DEF AC!SampleWhole
  <2> QED BY <1>9, <2>1, <2>2, Zenon
<1>12. ASSUME NEW s \in Seeders, AC!Crash(s) PROVE DeployInv' /\ KeepsOwn
  <2>1. /\ seeder' = [seeder EXCEPT ![s] = [at |-> "off", read |-> "none"]]
        /\ UNCHANGED <<password, sample>> /\ crashed' /\ Running(s)
    BY <1>12 DEF AC!Crash, AC!Move, Running
  <2> QED BY <1>1, <2>1, Zenon
<1>13. ASSUME NEW u \in Staff, NEW how, how = "own" \/ password[u] = "none",
              password' = [password EXCEPT ![u] = how], UNCHANGED <<sample, seeder, crashed>>,
              AC!Alone
       PROVE  DeployInv' /\ KeepsOwn
  <2>1. solo => \A s \in Seeders : seeder[s].at # "provision"
    BY <1>13 DEF AC!Alone
  <2>2. DeployInv' BY <1>0, <1>13, <2>1 DEF DeployInv, Running, AC!SampleWhole
  <2>3. KeepsOwn BY <1>13 DEF KeepsOwn, DeployInv
  <2> QED BY <2>2, <2>3
<1>14. ASSUME NEW u \in Staff, AC!OwnPassword(u) \/ AC!SignUp(u) PROVE DeployInv' /\ KeepsOwn
  BY <1>13, <1>14 DEF AC!OwnPassword, AC!SignUp
<1> QED BY <1>2, <1>3, <1>4, <1>5, <1>6, <1>7, <1>8, <1>10, <1>11, <1>12, <1>14 DEF AC!SeedNext

-----------------------------------------------------------------------------
(* Turns: a step of one part leaves the others alone *)

LEMMA OnboardingTurn == ASSUME [ServicesNext]_servicesVars
  PROVE  /\ focus = "reviews" => OB!ReviewNext \/ UNCHANGED obVars
         /\ focus = "invites" => OB!InviteNext \/ UNCHANGED obVars
         /\ focus = "seeds" => OB!SeedNext \/ UNCHANGED obVars
         /\ focus = "configs" => OB!ConfigNext \/ UNCHANGED obVars
<1>1. CASE ServiceStep /\ UNCHANGED <<focus, solo>>
  BY <1>1 DEF ServiceStep, PAStep, OBStep, FEStep, MSStep, NOStep, IGStep, ACStep, SEStep, SRStep
<1>2. CASE PaymentsStep /\ UNCHANGED <<focus, solo>>
  BY <1>2 DEF PaymentsStep
<1>3. CASE UNCHANGED servicesVars
  BY <1>3 DEF servicesVars
<1> QED BY <1>1, <1>2, <1>3 DEF ServicesNext

LEMMA AccessTurn == ASSUME [ServicesNext]_servicesVars
  PROVE  /\ focus = "roles" => AC!RoleNext \/ UNCHANGED acVars
         /\ focus = "members" => AC!MemberNext \/ UNCHANGED acVars
         /\ focus = "deployment" => AC!SeedNext \/ UNCHANGED acVars
         /\ focus = "deployment" \/ UNCHANGED password
<1> USE DEF acVars, AC!RoleNext, AC!MemberNext, AC!seedVars
<1>1. CASE ServiceStep /\ UNCHANGED <<focus, solo>>
  BY <1>1 DEF ServiceStep, PAStep, OBStep, FEStep, MSStep, NOStep, IGStep, ACStep, SEStep, SRStep
<1>2. CASE PaymentsStep /\ UNCHANGED <<focus, solo>>
  BY <1>2 DEF PaymentsStep
<1>3. CASE UNCHANGED servicesVars
  BY <1>3 DEF servicesVars
<1> QED BY <1>1, <1>2, <1>3 DEF ServicesNext

LEMMA NotificationTurn == ASSUME [ServicesNext]_servicesVars
  PROVE  /\ focus = "campaigns" => NO!DispatchNext \/ NO!CampaignNext \/ UNCHANGED noVars
         /\ focus = "reading" => NO!DispatchNext \/ NO!ReadingNext \/ UNCHANGED noVars
         /\ focus = "preferences" => NO!PreferenceNext \/ UNCHANGED noVars
<1>1. CASE ServiceStep /\ UNCHANGED <<focus, solo>>
  BY <1>1 DEF ServiceStep, PAStep, OBStep, FEStep, MSStep, NOStep, IGStep, ACStep, SEStep, SRStep
<1>2. CASE PaymentsStep /\ UNCHANGED <<focus, solo>>
  BY <1>2 DEF PaymentsStep
<1>3. CASE UNCHANGED servicesVars
  BY <1>3 DEF servicesVars
<1> QED BY <1>1, <1>2, <1>3 DEF ServicesNext

LEMMA SecurityTurn == ASSUME [ServicesNext]_servicesVars
  PROVE  focus = "keys" => SE!SecurityNext \/ UNCHANGED seVars
<1>1. CASE ServiceStep /\ UNCHANGED <<focus, solo>>
  BY <1>1 DEF ServiceStep, PAStep, OBStep, FEStep, MSStep, NOStep, IGStep, ACStep, SEStep, SRStep
<1>2. CASE PaymentsStep /\ UNCHANGED <<focus, solo>>
  BY <1>2 DEF PaymentsStep
<1>3. CASE UNCHANGED servicesVars
  BY <1>3 DEF servicesVars
<1> QED BY <1>1, <1>2, <1>3 DEF ServicesNext

-----------------------------------------------------------------------------
(* What a part holds it keeps while nothing happens to it *)

LEMMA PolicySame == ASSUME UNCHANGED <<policy, trail, solo>>
  PROVE  /\ \A k \in Policies : PolicyBacked(k) => PolicyBacked(k)'
         /\ PolicyInv /\ UNCHANGED asking => PolicyInv'
<1>1. \A k \in Policies : PolicyBacked(k) => PolicyBacked(k)'
  BY DEF PolicyBacked, PA!Did
<1>2. ASSUME UNCHANGED asking, PolicyInv PROVE PolicyInv'
  <2>1. \A q \in Requests : PolicyKnows(asking[q])'
    BY <1>2 DEF PolicyInv, PolicyKnows, PA!Did, PA!Expects
  <2>2. PolicyTyped' BY <1>2 DEF PolicyInv, PolicyTyped, PolicyCall
  <2> QED BY <1>1, <1>2, <2>1, <2>2 DEF PolicyInv
<1> QED BY <1>1, <1>2

LEMMA TicketSame == ASSUME UNCHANGED <<ticket, event>>
  PROVE  /\ \A t \in Tickets : TicketBacked(t) => TicketBacked(t)'
         /\ TicketInv /\ UNCHANGED asking => TicketInv'
<1>1. \A t \in Tickets : TicketBacked(t) => TicketBacked(t)'
  BY DEF TicketBacked, PA!Happened
<1>2. ASSUME UNCHANGED asking, TicketInv PROVE TicketInv'
  <2>1. \A q \in Requests : TicketKnows(asking[q])'
    BY <1>2 DEF TicketInv, TicketKnows, PA!Happened
  <2>2. TicketRows' BY <1>2 DEF TicketInv, TicketRows
  <2>3. \A q \in Requests : TicketCall(asking[q])'
    BY <1>2 DEF TicketInv, TicketCall
  <2> QED BY <1>1, <1>2, <2>1, <2>2, <2>3 DEF TicketInv
<1> QED BY <1>1, <1>2

LEMMA OnboardingSame == ASSUME UNCHANGED obVars
  PROVE  /\ ReviewInv => ReviewInv'
         /\ InviteInv => InviteInv'
         /\ SeedInv => SeedInv'
         /\ ConfigInv => ConfigInv'
<1> USE DEF obVars
<1>0. Apart <=> Apart' BY DEF Apart
<1>1. ASSUME ReviewInv PROVE ReviewInv'
  <2>1. OB!ReviewBacked' BY <1>1 DEF ReviewInv, OB!ReviewBacked, OB!NeverDriftsApart, OB!Has
  <2>2. \A q \in Requests : ReviewKnows(joining[q])'
    BY <1>1 DEF ReviewInv, ReviewKnows, Supported, Within, Decided, Overlapping, OB!Pending, OB!Has
  <2>3. \A q \in Requests : ReviewCall(joining[q])'
    BY <1>1 DEF ReviewInv, ReviewCall
  <2> QED BY <1>0, <1>1, <2>1, <2>2, <2>3 DEF ReviewInv, ReviewRows, OB!Pending
<1>2. ASSUME InviteInv PROVE InviteInv'
  <2>1. \A q \in Requests : InviteCall(joining[q])' /\ InviteKnows(joining[q])'
    BY <1>2 DEF InviteInv, InviteCall, InviteKnows, Separate
  <2> QED BY <1>0, <1>2, <2>1 DEF InviteInv, OB!InviteUsedOnce
<1>3. ASSUME SeedInv PROVE SeedInv'
  BY <1>3 DEF SeedInv, SeedCall, SeedKnows, Promised, OB!AnsweredMeansSeeded
<1>4. ASSUME ConfigInv PROVE ConfigInv'
  <2>1. \A q \in Requests : ConfigKnows(joining[q])'
    BY <1>4 DEF ConfigInv, ConfigKnows, FieldsApart, Sound
  <2> QED BY <1>0, <1>4, <2>1 DEF ConfigInv, ConfigCalls, OB!NoLostUpdate
<1> QED BY <1>1, <1>2, <1>3, <1>4

LEMMA AccessSame == ASSUME UNCHANGED acVars, UNCHANGED solo
  PROVE  /\ RoleInv => RoleInv'
         /\ DeployInv => DeployInv'
<1> USE DEF acVars
<1>1. ASSUME RoleInv PROVE RoleInv'
  <2>1. AskedIsStored' BY <1>1 DEF RoleInv, AskedIsStored
  <2> QED BY <1>1, <2>1 DEF RoleInv, RoleCall, RoleKeys
<1>2. ASSUME DeployInv PROVE DeployInv'
  BY <1>2 DEF DeployInv, Running, AC!SampleWhole
<1> QED BY <1>1, <1>2

LEMMA MemberSame == ASSUME AC!MemberNext \/ UNCHANGED acVars, AskedIsStored
  PROVE  AskedIsStored'
<1>1. UNCHANGED <<row, asked>>
  BY Zenon DEF acVars, AC!MemberNext, AC!AddMember, AC!CreateMember, AC!RemoveMember, AC!roleVars
<1> QED BY <1>1 DEF AskedIsStored

LEMMA KeySame == ASSUME UNCHANGED seVars, UNCHANGED solo, KeyInv PROVE KeyInv'
<1>1. \A q \in Requests : KeyCall(guarding[q])' BY DEF seVars, KeyInv, KeyCall
<1>2. \A q \in Requests : KeyKnows(guarding[q]) <=> KeyKnows(guarding[q])'
  BY DEF seVars, KeyKnows, SE!Valid
<1> QED BY <1>1, <1>2 DEF seVars, KeyInv

LEMMA NotificationSame == ASSUME UNCHANGED noVars, UNCHANGED solo
  PROVE  /\ DeviceInv => DeviceInv'
         /\ PreferInv => PreferInv'
         /\ OneRow => OneRow'
         /\ Owned => Owned'
<1> USE DEF noVars
<1>1. (OneRow => OneRow') /\ (Owned => Owned') BY DEF OneRow, Owned, NO!Sends
<1>2. ASSUME DeviceInv PROVE DeviceInv'
  BY <1>1, <1>2, SendMoves DEF DeviceInv
<1>3. ASSUME PreferInv PROVE PreferInv'
  BY <1>1, <1>3 DEF PreferInv, PreferCalls
<1> QED BY <1>1, <1>2, <1>3

-----------------------------------------------------------------------------
(* What every part holds as it begins *)

LEMMA PolicyStart == ASSUME PA!Init
  PROVE  /\ PolicyInv /\ \A t \in Tickets : TicketBacked(t)
         /\ TicketInv /\ \A k \in Policies : PolicyBacked(k)
<1> USE DEF PA!Init
<1>0. 0 \in 0..MaxEdits BY ServicesAssumption
<1>1. policy \in [Policies -> PolicyRow]
  <2>1. PA!NoPolicy \in PolicyRow BY <1>0 DEF PA!NoPolicy, PolicyRow
  <2> QED BY <2>1
<1>2. \A k \in Policies : PolicyBacked(k) BY DEF PolicyBacked, PA!NoPolicy
<1>3. \A q \in Requests : asking[q] = PA!Idle OBVIOUS
<1>4. PolicyInv
  BY <1>1, <1>2, <1>3 DEF PolicyInv, PolicyTyped, PolicyRow, PolicyCall, PolicyKnows
<1>5. \A t \in Tickets : TicketBacked(t) BY DEF TicketBacked, PA!NoTicket
<1>6. TicketRows
  <2>1. PA!NoTicket \in TicketRow BY DEF PA!NoTicket, TicketRow
  <2>2. ticket \in [Tickets -> TicketRow] BY <2>1
  <2>3. <<>> \in Seq(TicketEvents) /\ Len(<<>>) <= MaxHistory + 1 BY ServicesAssumption
  <2>4. event \in [Tickets -> Seq(TicketEvents)] BY <2>3
  <2> QED BY <2>2, <2>3, <2>4 DEF TicketRows
<1>7. TicketInv BY <1>3, <1>5, <1>6 DEF TicketInv, TicketCall, TicketKnows
<1> QED BY <1>2, <1>4, <1>5, <1>7

LEMMA OnboardingStart == ASSUME OB!Init
  PROVE  ReviewInv /\ InviteInv /\ SeedInv /\ ConfigInv
<1> USE DEF OB!Init
<1>0. DOMAIN joining = Requests /\ \A q \in Requests : joining[q] = OB!Idle OBVIOUS
<1>1. Apart BY <1>0 DEF Apart
<1>2. ReviewInv
  <2>1. kyc = <<>> /\ kyc \in Seq(Verdicts) OBVIOUS
  <2>2. OB!ReviewBacked BY DEF OB!ReviewBacked, OB!NeverDriftsApart
  <2>3. \A q \in Requests : ReviewCall(joining[q]) /\ ReviewKnows(joining[q])
    BY <1>0 DEF ReviewCall, ReviewKnows, Submitting, Reviewing, ReviewOps, OB!Idle
  <2> QED BY <1>0, <1>1, <2>1, <2>2, <2>3 DEF ReviewInv, ReviewRows
<1>3. InviteInv
  <2>1. OB!NoInvite \in InviteRow BY DEF OB!NoInvite, InviteRow
  <2>2. invite \in [Invites -> InviteRow] /\ account \in [Invites -> SUBSET Spellings] BY <2>1
  <2>3. \A q \in Requests : InviteCall(joining[q]) /\ InviteKnows(joining[q])
    BY <1>0 DEF InviteCall, InviteKnows, Registering, Revoking, OB!Idle
  <2>4. OB!InviteUsedOnce BY DEF OB!InviteUsedOnce, OB!NoInvite
  <2> QED BY <1>0, <1>1, <2>2, <2>3, <2>4 DEF InviteInv
<1>4. SeedInv
  <2>1. starter.parts \subseteq OB!Parts
    <3>1. CASE starter = OB!NoStarter BY <3>1 DEF OB!NoStarter
    <3>2. CASE starter # OB!NoStarter
      <4>1. PICK parts \in SUBSET OB!Parts : starter.parts = parts
        <5>1. starter \in [there : {TRUE}, parts : SUBSET OB!Parts] BY <3>2
        <5> QED BY <5>1, Zenon
      <4> QED BY <4>1
    <3> QED BY <3>1, <3>2
  <2> QED BY <1>0, <2>1 DEF SeedInv, SeedCall, SeedKnows, OB!AnsweredMeansSeeded
<1>5. ConfigInv
  BY <1>0, <1>1 DEF ConfigInv, ConfigKnows, OB!NoLostUpdate, OB!NoConfig
<1> QED BY <1>2, <1>3, <1>4, <1>5

LEMMA AccessStart == ASSUME AC!Init PROVE RoleInv /\ DeployInv
<1> USE DEF AC!Init
<1>1. RoleInv
  <2>1. 0 \in 0..MaxCopies /\ 1 \in 0..MaxCopies BY ServicesAssumption
  <2>2. row \in [RoleKeys -> 0..MaxCopies] BY <2>1 DEF RoleKeys
  <2> QED BY <2>2 DEF RoleInv, RoleCall, AskedIsStored
<1>2. DeployInv
  <2>1. \A s \in Seeders : seeder[s] = [at |-> "off", read |-> "none"] OBVIOUS
  <2> QED BY <2>1 DEF DeployInv, Running, AC!SampleWhole
<1> QED BY <1>1, <1>2

LEMMA KeyStart == ASSUME SE!Init PROVE KeyInv
  BY DEF SE!Init, KeyInv, KeyCall, KeyKnows, SE!Idle

LEMMA NotificationStart == ASSUME NO!Init
  PROVE  DeviceInv /\ PreferInv /\ OneRow /\ Owned
<1> USE DEF NO!Init
<1>1. OneRow /\ Owned BY DEF OneRow, Owned
<1>2. DeviceInv
  <2>1. NO!NoDevice \in [user : Targets \cup {"none"}, active : BOOLEAN] BY DEF NO!NoDevice
  <2>2. device \in [Tokens -> [user : Targets \cup {"none"}, active : BOOLEAN]] BY <2>1
  <2>3. \A n \in NO!Sends : send[n] = NO!NotSent /\ send[n].pc = "none" BY DEF NO!NotSent
  <2> QED BY <1>1, <2>2, <2>3 DEF DeviceInv
<1>3. PreferInv
  <2>1. <<>> \in Seq(BOOLEAN) OBVIOUS
  <2> QED BY <1>1, <2>1 DEF PreferInv
<1> QED BY <1>1, <1>2, <1>3

-----------------------------------------------------------------------------
(* Decisions *)

\* The invariant of the part in focus.
DecisionsInv ==
    /\ focus = "policies" => PolicyInv /\ \A t \in Tickets : TicketBacked(t)
    /\ focus = "tickets" => TicketInv /\ \A k \in Policies : PolicyBacked(k)
    /\ focus = "reviews" => ReviewInv
    /\ focus = "invites" => InviteInv
    /\ focus = "seeds" => SeedInv
    /\ focus = "roles" => RoleInv
    /\ focus = "members" => AskedIsStored
    /\ focus = "keys" => KeyInv

LEMMA DecisionsHold == ASSUME DecisionsInv PROVE DecisionsBacked
<1>1. ASSUME focus \in {"policies", "tickets"}
      PROVE  PA!StatusBacked /\ PA!EffectiveWasPublished
  <2>1. /\ \A k \in Policies : PolicyBacked(k)
        /\ \A t \in Tickets : TicketBacked(t)
    BY <1>1 DEF DecisionsInv, PolicyInv, TicketInv
  <2> QED BY <2>1, Zenon DEF PA!StatusBacked, PA!EffectiveWasPublished, PolicyBacked, TicketBacked
<1>2. ASSUME focus = "reviews" PROVE OB!ReviewBacked /\ OB!PendingIsReviewable
  BY <1>2 DEF DecisionsInv, ReviewInv, OB!PendingIsReviewable
<1>3. focus = "invites" => OB!InviteUsedOnce BY DEF DecisionsInv, InviteInv
<1>4. focus = "seeds" => OB!AnsweredMeansSeeded BY DEF DecisionsInv, SeedInv
<1>5. focus \in {"roles", "members"} => AC!GrantsOpenTheirRoutes
  BY GrantsOpen DEF DecisionsInv, RoleInv
<1>6. focus = "keys" => SE!PolicyObeyed BY KeyPolicy DEF DecisionsInv
<1> QED BY <1>1, <1>2, <1>3, <1>4, <1>5, <1>6 DEF DecisionsBacked

\* What is in force rests on a decision somebody took and on what was decided
\* about, whatever requests overlap and wherever they die: policies, tickets,
\* compliance reviews, invitations, first apps, roles, and the policy and keys
\* of a merchant (platform-admin.service.ts, admin.service.ts,
\* admin-invite.service.ts, merchants.service.ts, rbac.service.ts,
\* security.service.ts).  That a flag follows the decision it names, and that an
\* invitation makes one administrator, is claimed where the requests that could
\* spoil it do not overlap, as the definitions say.
THEOREM DecisionsSound == ServicesSpec => []DecisionsBacked
<1>1. ServicesInit => DecisionsInv
  BY PolicyStart, OnboardingStart, AccessStart, KeyStart DEF ServicesInit, DecisionsInv, RoleInv
<1>2. DecisionsInv /\ [ServicesNext]_servicesVars => DecisionsInv'
  <2> SUFFICES ASSUME DecisionsInv, [ServicesNext]_servicesVars PROVE DecisionsInv'
    OBVIOUS
  <2>1. UNCHANGED <<focus, solo>> BY PolicyTurn
  <2>2. focus = "policies" => (PolicyInv /\ \A t \in Tickets : TicketBacked(t))'
    <3> SUFFICES ASSUME focus = "policies"
                 PROVE  PolicyInv' /\ \A t \in Tickets : TicketBacked(t)'
      OBVIOUS
    <3>1. PolicyInv /\ \A t \in Tickets : TicketBacked(t) BY DEF DecisionsInv
    <3>2. CASE PA!PolicyNext
      <4>1. UNCHANGED <<ticket, event>> BY <3>2 DEF PA!PolicyNext, PA!ticketVars
      <4> QED BY <3>1, <3>2, <4>1, PolicyStep, TicketSame
    <3>3. CASE UNCHANGED PA!vars
      BY <2>1, <3>1, <3>3, PolicySame, TicketSame DEF PA!vars, PA!policyVars, PA!ticketVars
    <3> QED BY <3>2, <3>3, PolicyTurn
  <2>3. focus = "tickets" => (TicketInv /\ \A k \in Policies : PolicyBacked(k))'
    <3> SUFFICES ASSUME focus = "tickets"
                 PROVE  TicketInv' /\ \A k \in Policies : PolicyBacked(k)'
      OBVIOUS
    <3>1. TicketInv /\ \A k \in Policies : PolicyBacked(k) BY DEF DecisionsInv
    <3>2. CASE PA!TicketNext
      <4>1. UNCHANGED <<policy, trail>> BY <3>2 DEF PA!TicketNext, PA!policyVars
      <4> QED BY <2>1, <3>1, <3>2, <4>1, TicketStep, PolicySame
    <3>3. CASE UNCHANGED PA!vars
      BY <2>1, <3>1, <3>3, PolicySame, TicketSame DEF PA!vars, PA!policyVars, PA!ticketVars
    <3> QED BY <3>2, <3>3, PolicyTurn
  <2>4. /\ focus = "reviews" => ReviewInv'
        /\ focus = "invites" => InviteInv'
        /\ focus = "seeds" => SeedInv'
    BY OnboardingTurn, OnboardingSame, ReviewStep, InviteStep, SeedStep DEF DecisionsInv
  <2>5. /\ focus = "roles" => RoleInv'
        /\ focus = "members" => AskedIsStored'
    BY <2>1, AccessTurn, AccessSame, MemberSame, RoleStep DEF DecisionsInv
  <2>6. focus = "keys" => KeyInv'
    BY <2>1, SecurityTurn, KeySame, KeyStep DEF DecisionsInv
  <2> QED BY <2>1, <2>2, <2>3, <2>4, <2>5, <2>6 DEF DecisionsInv
<1> QED BY <1>1, <1>2, DecisionsHold, PTL DEF ServicesSpec

-----------------------------------------------------------------------------
(* What belongs to somebody *)

\* The invariant of the part in focus.
OwnersInv ==
    /\ focus = "configs" => ConfigInv
    /\ focus \in {"campaigns", "reading"} => DeviceInv /\ OneRow
    /\ focus = "preferences" => PreferInv /\ Owned
    /\ focus = "deployment" => DeployInv

LEMMA OwnersHold == ASSUME OwnersInv
  PROVE  /\ focus = "configs" => OB!NoLostUpdate
         /\ focus \in {"campaigns", "reading", "preferences"} => NO!OwnDevicesOnly
         /\ focus = "deployment" => AC!SampleWhole
  BY DEF OwnersInv, ConfigInv, DeviceInv, PreferInv, DeployInv, Owned, OneRow, NO!OwnDevicesOnly

LEMMA OwnersStep == ASSUME OwnersInv, [ServicesNext]_servicesVars
  PROVE  OwnersInv' /\ (focus = "deployment" /\ password' # password => KeepsOwn)
<1>1. UNCHANGED <<focus, solo>> BY PolicyTurn
<1>2. focus = "configs" => ConfigInv'
  BY OnboardingTurn, OnboardingSame, ConfigStep DEF OwnersInv
<1>3. focus \in {"campaigns", "reading"} => DeviceInv' /\ OneRow'
  <2> SUFFICES ASSUME focus \in {"campaigns", "reading"} PROVE DeviceInv' /\ OneRow'
    OBVIOUS
  <2>1. DeviceInv /\ OneRow BY DEF OwnersInv
  <2>2. CASE UNCHANGED noVars BY <1>1, <2>1, <2>2, NotificationSame
  <2>3. CASE NO!DispatchNext \/ NO!CampaignNext \/ NO!ReadingNext
    <3>1. DeviceInv' BY <1>1, <2>1, <2>3, DispatchStep, CampaignStep, ReadingStep
    <3>2. OneRow' BY <1>1, <2>1, <2>3, PreferenceKept DEF OneRow
    <3> QED BY <3>1, <3>2
  <2> QED BY <2>2, <2>3, NotificationTurn
<1>4. focus = "preferences" => PreferInv' /\ Owned'
  <2> SUFFICES ASSUME focus = "preferences" PROVE PreferInv' /\ Owned'
    OBVIOUS
  <2>1. PreferInv /\ Owned BY DEF OwnersInv
  <2>2. CASE UNCHANGED noVars BY <1>1, <2>1, <2>2, NotificationSame
  <2>3. CASE NO!PreferenceNext
    <3>1. PreferInv' /\ UNCHANGED reached BY <1>1, <2>1, <2>3, PreferenceStep
    <3> QED BY <1>1, <2>1, <3>1 DEF Owned, NO!Sends
  <2> QED BY <2>2, <2>3, NotificationTurn
<1>5. focus = "deployment" => DeployInv' /\ (password' # password => KeepsOwn)
  <2> SUFFICES ASSUME focus = "deployment" PROVE DeployInv' /\ (password' # password => KeepsOwn)
    OBVIOUS
  <2>1. DeployInv BY DEF OwnersInv
  <2>2. CASE UNCHANGED acVars BY <1>1, <2>1, <2>2, AccessSame DEF acVars
  <2>3. CASE AC!SeedNext BY <2>1, <2>3, DeployStep
  <2> QED BY <2>2, <2>3, AccessTurn
<1> QED BY <1>1, <1>2, <1>3, <1>4, <1>5 DEF OwnersInv

\* No step takes what somebody else owns: a password its user chose
\* (prisma/seed.ts), the other field of the configuration where no write that
\* does not merge came in between (merchants.service.ts, admin.service.ts,
\* tenant-config.service.ts), a device that changed hands
\* (notifications.service.ts), the sample merchant half filled (prisma/seed.ts).
THEOREM OwnersKeep == ServicesSpec => OwnersKeepTheirs
<1>1. ServicesInit => OwnersInv
  BY OnboardingStart, NotificationStart, AccessStart DEF ServicesInit, OwnersInv
<1>2. OwnersInv /\ [ServicesNext]_servicesVars => OwnersInv'
  BY OwnersStep
<1>3. OwnersInv /\ [ServicesNext]_servicesVars =>
        [solo => \A u \in Staff : password[u] = "own" => password'[u] = "own"]_password
  BY OwnersStep, AccessTurn DEF KeepsOwn
<1> QED BY <1>1, <1>2, <1>3, OwnersHold, PTL DEF ServicesSpec, OwnersKeepTheirs, AC!PasswordsKept

-----------------------------------------------------------------------------
(* Quotas *)

\* While requests do not overlap, what was let through is counted, or is the
\* one request whose count is on its way.
QuotaRow == [there : BOOLEAN, current : Nat, resetAt : 0..Windows + 1]
QuotaInv ==
    /\ quota \in [Metered -> QuotaRow]
    /\ admitted \in [Metered -> Nat] /\ window \in 0..Windows
    /\ DOMAIN asking = Requests
    /\ \A q \in Requests : asking[q] = PA!Idle
                            \/ asking[q] \in [op : {"count"}, id : Metered, read : {"none"}]
    /\ solo => /\ \A q, r \in Requests :
                     asking[q] # PA!Idle /\ asking[r] # PA!Idle => q = r
               /\ \A t \in Metered :
                     /\ admitted[t] <= Limit
                     /\ admitted[t] <= quota[t].current + 1
                     /\ (\A q \in Requests : asking[q] # PA!Idle => asking[q].id # t)
                           => admitted[t] <= quota[t].current

LEMMA QuotaFields == ASSUME NEW r \in QuotaRow
  PROVE  r.current \in Nat /\ r.resetAt \in 0..Windows + 1
  BY DEF QuotaRow

LEMMA QuotaRowKept == ASSUME NEW r \in QuotaRow
  PROVE  /\ [r EXCEPT !.there = TRUE] \in QuotaRow
         /\ [r EXCEPT !.there = TRUE].current = r.current
         /\ \A n \in Nat, at \in 0..Windows + 1 :
               /\ [r EXCEPT !.current = n, !.resetAt = at] \in QuotaRow
               /\ [r EXCEPT !.current = n, !.resetAt = at].current = n
  BY Zenon DEF QuotaRow

LEMMA QuotaStep == ASSUME QuotaInv, PA!QuotaNext PROVE QuotaInv'
<1> USE ServicesAssumption
<1>0. UNCHANGED solo BY DEF PA!QuotaNext
<1>1. ASSUME NEW q \in Requests, NEW t \in Metered, PA!CheckQuota(q, t) PROVE QuotaInv'
  <2>1. /\ UNCHANGED window
        /\ quota' \in [Metered -> QuotaRow]
        /\ \A u \in Metered : quota'[u].current = quota[u].current
    <3>1. PICK r : r = [quota[t] EXCEPT !.there = TRUE] BY Zenon
    <3>2. /\ r \in QuotaRow
          /\ r.current = quota[t].current
      BY <3>1, QuotaRowKept, Zenon DEF QuotaInv
    <3>3. quota' = quota \/ quota' = [quota EXCEPT ![t] = r]
      BY <1>1, <3>1 DEF PA!CheckQuota, QuotaInv
    <3>4. quota' \in [Metered -> QuotaRow] BY <3>2, <3>3 DEF QuotaInv
    <3>5. \A u \in Metered : quota'[u].current = quota[u].current
      BY <3>2, <3>3 DEF QuotaInv
    <3>6. UNCHANGED window BY <1>1 DEF PA!CheckQuota
    <3> QED BY <3>4, <3>5, <3>6
  <2>2. asking[q] = PA!Idle /\ (solo => \A r \in Requests : asking[r] = PA!Idle)
    BY <1>1 DEF PA!CheckQuota, PA!Free
  <2>3. \/ UNCHANGED <<asking, admitted>>
        \/ /\ asking' = [asking EXCEPT ![q] = [op |-> "count", id |-> t, read |-> "none"]]
           /\ \/ admitted' = admitted
              \/ quota[t].current < Limit /\ admitted' = [admitted EXCEPT ![t] = @ + 1]
    <3>1. PICK read : read = quota'[t] OBVIOUS
    <3>2. /\ read.current \in Nat /\ read.resetAt \in 0..Windows + 1
          /\ read.current = quota[t].current /\ window \in 0..Windows
      BY <2>1, <3>1, QuotaFields DEF QuotaInv
    <3>3. CASE read.resetAt # 0 /\ window > read.resetAt
      <4>1. ~(read.resetAt = 0 \/ window <= read.resetAt) BY <3>2, <3>3
      <4> QED BY <1>1, <3>1, <3>3, <4>1 DEF PA!CheckQuota
    <3>4. CASE ~(read.resetAt # 0 /\ window > read.resetAt)
      <4>1. read.resetAt = 0 \/ window <= read.resetAt BY <3>2, <3>4
      <4> QED BY <1>1, <3>1, <3>2, <3>4, <4>1 DEF PA!CheckQuota
    <3> QED BY <3>3, <3>4
  <2>4. CASE UNCHANGED <<asking, admitted>>
    BY <1>0, <2>1, <2>4 DEF QuotaInv
  <2>5. CASE /\ asking' = [asking EXCEPT ![q] = [op |-> "count", id |-> t, read |-> "none"]]
             /\ \/ admitted' = admitted
                \/ quota[t].current < Limit /\ admitted' = [admitted EXCEPT ![t] = @ + 1]
    <3>1. admitted' \in [Metered -> Nat] /\ DOMAIN asking' = Requests
      BY <2>5 DEF QuotaInv
    <3>2. \A r \in Requests : asking'[r] = PA!Idle
                \/ asking'[r] \in [op : {"count"}, id : Metered, read : {"none"}]
      BY <2>5 DEF QuotaInv
    <3>3. ASSUME solo PROVE \A r, s \in Requests :
                              asking'[r] # PA!Idle /\ asking'[s] # PA!Idle => r = s
      BY <2>2, <2>5, <3>3 DEF QuotaInv
    <3>4. ASSUME solo, NEW u \in Metered
          PROVE  /\ admitted'[u] <= Limit
                 /\ admitted'[u] <= quota'[u].current + 1
                 /\ (\A r \in Requests : asking'[r] # PA!Idle => asking'[r].id # u)
                       => admitted'[u] <= quota'[u].current
      <4>1. /\ admitted[u] <= Limit /\ admitted[u] <= quota[u].current
            /\ admitted[u] \in Nat /\ quota[u].current \in Nat
        BY <2>2, <3>4, QuotaFields DEF QuotaInv
      <4>2. asking'[q] # PA!Idle /\ asking'[q].id = t
        BY <2>5 DEF QuotaInv, PA!Idle
      <4>3. \/ admitted'[u] = admitted[u]
            \/ u = t /\ admitted'[u] = admitted[u] + 1 /\ quota[u].current < Limit
        BY <2>5 DEF QuotaInv
      <4> QED BY <2>1, <4>1, <4>2, <4>3
    <3> QED BY <1>0, <2>1, <3>1, <3>2, <3>3, <3>4 DEF QuotaInv
  <2> QED BY <2>3, <2>4, <2>5
<1>2. ASSUME NEW q \in Requests, asking[q].op = "count",
             PA!IncrementQuota(q) \/ PA!IncrementFails(q)
      PROVE  QuotaInv'
  <2>0. PICK t : t = asking[q].id OBVIOUS
  <2>1. asking[q] # PA!Idle /\ t \in Metered /\ asking[q].id = t
    BY <1>2, <2>0 DEF QuotaInv, PA!Idle
  <2>2. asking' = [asking EXCEPT ![q] = PA!Idle] /\ UNCHANGED window
    BY <1>2 DEF PA!IncrementQuota, PA!IncrementFails, PA!End
  <2>3. \/ /\ UNCHANGED admitted
           /\ quota' \in [Metered -> QuotaRow]
           /\ quota'[t].current = quota[t].current + 1
           /\ \A u \in Metered : u # t => quota'[u] = quota[u]
        \/ /\ UNCHANGED quota
           /\ admitted' = [admitted EXCEPT ![t] = IF @ > 0 THEN @ - 1 ELSE 0]
    <3>1. CASE PA!IncrementFails(q) BY <2>0, <3>1 DEF PA!IncrementFails
    <3>2. CASE PA!IncrementQuota(q)
      <4>1. PICK at : at = IF quota[t].resetAt = 0 THEN window + 1 ELSE quota[t].resetAt
        OBVIOUS
      <4>0. quota[t] \in QuotaRow /\ window \in 0..Windows BY <2>1 DEF QuotaInv
      <4>2. at \in 0..Windows + 1 BY <4>0, <4>1, QuotaFields
      <4>3. PICK n : n = quota[t].current + 1 OBVIOUS
      <4>7. PICK r : r = [quota[t] EXCEPT !.current = n, !.resetAt = at] OBVIOUS
      <4>4. r \in QuotaRow
            /\ r.current = quota[t].current + 1
        <5>1. n \in Nat BY <4>0, <4>3, QuotaFields
        <5>2. ASSUME NEW old \in QuotaRow, NEW m \in Nat, NEW to \in 0..Windows + 1
              PROVE  [old EXCEPT !.current = m, !.resetAt = to] \in QuotaRow
          BY Zenon DEF QuotaRow
        <5>3. PICK old : old = quota[t] OBVIOUS
        <5>4. r = [old EXCEPT !.current = n, !.resetAt = at] BY <4>7, <5>3
        <5>5. r \in QuotaRow BY <4>0, <4>2, <5>1, <5>2, <5>3, <5>4, Zenon
        <5>6. r.current = n BY <4>0, <5>3, <5>4 DEF QuotaRow
        <5> QED BY <4>3, <5>5, <5>6
      <4>5. quota' = [quota EXCEPT ![t] = r]
        BY <2>0, <2>1, <3>2, <4>1, <4>3, <4>7, Zenon DEF PA!IncrementQuota, QuotaInv
      <4>6. UNCHANGED admitted BY <3>2 DEF PA!IncrementQuota
      <4> QED BY <2>1, <4>4, <4>5, <4>6 DEF QuotaInv
    <3> QED BY <1>2, <3>1, <3>2
  <2>4. /\ quota' \in [Metered -> QuotaRow]
        /\ admitted' \in [Metered -> Nat] /\ window' \in 0..Windows /\ DOMAIN asking' = Requests
        /\ \A r \in Requests : asking'[r] = PA!Idle
                \/ asking'[r] \in [op : {"count"}, id : Metered, read : {"none"}]
    BY <2>1, <2>2, <2>3 DEF QuotaInv
  <2>5. ASSUME solo PROVE \A r \in Requests : asking'[r] = PA!Idle
    BY <2>1, <2>2, <2>5 DEF QuotaInv
  <2>6. ASSUME solo, NEW u \in Metered
        PROVE  admitted'[u] <= Limit /\ admitted'[u] <= quota'[u].current
    <3>1. /\ admitted[u] <= Limit /\ admitted[u] <= quota[u].current + 1
          /\ u # t => admitted[u] <= quota[u].current
          /\ admitted[u] \in Nat /\ quota[u].current \in Nat
      BY <2>1, <2>6, QuotaFields DEF QuotaInv
    <3> QED BY <2>1, <2>3, <3>1 DEF QuotaInv
  <2>7. \A u \in Metered : quota'[u].current \in Nat /\ admitted'[u] \in Nat
    BY <2>4 DEF QuotaRow
  <2> QED BY <1>0, <2>4, <2>5, <2>6, <2>7 DEF QuotaInv
<1>3. ASSUME PA!Window PROVE QuotaInv'
  BY <1>0, <1>3 DEF PA!Window, QuotaInv
<1> QED BY <1>1, <1>2, <1>3 DEF PA!QuotaNext

\* A bounded set of numbers has a last one.
LEMMA LastOne == ASSUME NEW n \in Nat, NEW S \in SUBSET (0..n), S # {}
  PROVE  \E i \in S : \A j \in S : j <= i
<1> DEFINE T == {n - i : i \in S}
<1>0. \A i \in S : n - i \in Nat /\ i \in Nat OBVIOUS
<1>1. T \subseteq Nat /\ T # {} BY <1>0, Zenon
<1>2. PICK x \in T : \A y \in T : ~(<<y, x>> \in OpToRel(<, Nat))
  BY <1>1, NatLessThanWellFounded, WFMin, Zenon
<1>3. PICK i \in S : x = n - i OBVIOUS
<1>4. ASSUME NEW j \in S PROVE j <= i
  <2>1. n - j \in T OBVIOUS
  <2>2. ~(n - j < x) BY <1>1, <1>2, <2>1, Zenon DEF OpToRel
  <2> QED BY <1>0, <1>3, <2>2
<1> QED BY <1>4

-----------------------------------------------------------------------------
(* Health checks *)

CheckRow == [service : Servers, status : {"up", "down"}]
HealthCalls == [op : {"status"}, left : SUBSET Servers, found : Seq(CheckRow)]
Named(s) == {n \in DOMAIN check : check[n].service = s}
IsLatest(f) == \E n \in DOMAIN check : check[n] = f /\ \A m \in Named(f.service) : m <= n
\* What a request for the status has found so far names each service once, and
\* while requests do not overlap says what its last check did.
HealthKnows(c) ==
    /\ c.left \subseteq SE!Checked
    /\ \A i \in DOMAIN c.found : c.found[i].service \notin c.left
    /\ \A i, j \in DOMAIN c.found : c.found[i].service = c.found[j].service => i = j
    /\ \A i \in DOMAIN c.found : \E n \in DOMAIN check : check[n] = c.found[i]
    /\ solo => \A i \in DOMAIN c.found : IsLatest(c.found[i])
HealthInv ==
    /\ check \in Seq(CheckRow) /\ health \in Seq(CheckRow)
    /\ DOMAIN guarding = Requests
    /\ \A q \in Requests : guarding[q] = SE!Idle \/ guarding[q] \in HealthCalls
    /\ \A q \in Requests : guarding[q] # SE!Idle => HealthKnows(guarding[q])
    /\ \A i, j \in DOMAIN health : health[i].service = health[j].service => i = j
    /\ \A i \in DOMAIN health : \E n \in DOMAIN check : check[n] = health[i]

LEMMA LatestFound == ASSUME check \in Seq(CheckRow), NEW s \in SE!Checked
  PROVE  /\ [service |-> s, status |-> SE!Latest(s)] \in CheckRow
         /\ IsLatest([service |-> s, status |-> SE!Latest(s)])
<1>1. Named(s) \in SUBSET (0..Len(check)) /\ Named(s) # {} /\ Len(check) \in Nat
  BY DEF Named, SE!Checked
<1>2. \E i \in Named(s) : \A j \in Named(s) : j <= i
  BY <1>1, LastOne, Zenon
<1>3. PICK i : i = CHOOSE k \in DOMAIN check :
               /\ check[k].service = s
               /\ \A j \in DOMAIN check : check[j].service = s => j <= k
  OBVIOUS
<1>4. /\ i \in DOMAIN check /\ check[i].service = s
      /\ \A j \in DOMAIN check : check[j].service = s => j <= i
  BY <1>2, <1>3 DEF Named
<1>5. SE!Latest(s) = check[i].status BY <1>3 DEF SE!Latest
<1>6. check[i] \in CheckRow BY <1>4
<1>7. check[i] = [service |-> s, status |-> SE!Latest(s)]
  BY <1>4, <1>5, <1>6 DEF CheckRow
<1> QED BY <1>4, <1>6, <1>7 DEF IsLatest, Named

LEMMA HealthStep == ASSUME HealthInv, SE!HealthNext PROVE HealthInv'
<1>0. UNCHANGED solo BY DEF SE!HealthNext
<1>1. ASSUME NEW s \in Servers, NEW up \in {"up", "down"}, SE!RecordCheck(s, up),
             \A q \in Requests : solo => guarding[q] = SE!Idle
      PROVE  HealthInv'
  <2> DEFINE put == [service |-> s, status |-> up]
  <2>1. check' = Append(check, put) /\ UNCHANGED <<health, guarding>> /\ put \in CheckRow
    BY <1>1 DEF SE!RecordCheck, CheckRow
  <2> HIDE DEF put
  <2>2. /\ check' \in Seq(CheckRow)
        /\ DOMAIN check \subseteq DOMAIN check'
        /\ \A n \in DOMAIN check : check'[n] = check[n]
    BY <2>1 DEF HealthInv
  <2>3. \A f : (\E n \in DOMAIN check : check[n] = f) => \E n \in DOMAIN check' : check'[n] = f
    BY <2>2
  <2>4. \A i \in DOMAIN health : \E n \in DOMAIN check' : check'[n] = health[i]
    BY <2>3, Zenon DEF HealthInv
  <2>5. ASSUME NEW q \in Requests, guarding[q] # SE!Idle PROVE HealthKnows(guarding[q])'
    <3>1. HealthKnows(guarding[q]) /\ ~solo BY <1>1, <2>5 DEF HealthInv
    <3>2. SE!Checked \subseteq SE!Checked' BY <2>2 DEF SE!Checked
    <3> QED BY <1>0, <2>1, <2>3, <3>1, <3>2 DEF HealthKnows
  <2> QED BY <2>1, <2>2, <2>4, <2>5 DEF HealthInv
<1>2. ASSUME UNCHANGED <<check, health, solo>>, DOMAIN guarding' = Requests,
             \A r \in Requests :
               \/ guarding'[r] \in {guarding[r], SE!Idle}
               \/ guarding'[r] \in HealthCalls /\ HealthKnows(guarding'[r])
      PROVE  HealthInv'
  <2>1. \A c : HealthKnows(c) <=> HealthKnows(c)'
    BY <1>2 DEF HealthKnows, IsLatest, Named, SE!Checked
  <2>2. \A r \in Requests : HealthKnows(guarding[r])' <=> HealthKnows(guarding'[r])
    BY <1>2 DEF HealthKnows, IsLatest, Named, SE!Checked
  <2> QED BY <1>2, <2>1, <2>2 DEF HealthInv
<1>3. ASSUME NEW kind, NEW s, SE!Record(kind, s) PROVE HealthInv'
  BY <1>0, <1>2, <1>3 DEF SE!Record, HealthInv
<1>4. ASSUME NEW q \in Requests, SE!ListServices(q) PROVE HealthInv'
  <2> DEFINE c == [op |-> "status", left |-> SE!Checked, found |-> <<>>]
  <2>1. c \in HealthCalls /\ HealthKnows(c)
    <3>1. SE!Checked \in SUBSET Servers
      <4>1. \A i \in DOMAIN check : check[i] \in CheckRow BY DEF HealthInv
      <4>2. \A i \in DOMAIN check : check[i].service \in Servers BY <4>1 DEF CheckRow
      <4> QED BY <4>2 DEF SE!Checked
    <3>2. <<>> \in Seq(CheckRow) OBVIOUS
    <3> QED BY <3>1, <3>2 DEF HealthCalls, HealthKnows
  <2>2. guarding' = [guarding EXCEPT ![q] = c] /\ UNCHANGED <<check, health>>
    BY <1>4 DEF SE!ListServices, SE!Begin, SE!healthVars
  <2> HIDE DEF c
  <2> QED BY <1>0, <1>2, <2>1, <2>2 DEF HealthInv
<1>5. ASSUME NEW q \in Requests, guarding[q].op = "status", SE!ReadService(q) \/ SE!AnswerStatus(q)
      PROVE  HealthInv'
  <2>1. guarding[q] # SE!Idle /\ guarding[q] \in HealthCalls /\ HealthKnows(guarding[q])
    BY <1>5 DEF HealthInv, SE!Idle
  <2>2. CASE SE!ReadService(q)
    <3>1. PICK c : c = guarding[q] OBVIOUS
    <3>2. PICK s : s = CHOOSE t \in c.left : TRUE OBVIOUS
    <3>3. s \in c.left /\ s \in SE!Checked
      BY <2>1, <2>2, <3>1, <3>2 DEF SE!ReadService, HealthKnows
    <3>4. PICK f : f = [service |-> s, status |-> SE!Latest(s)] BY Zenon
    <3>5. f \in CheckRow /\ IsLatest(f) /\ f.service = s
      BY <3>3, <3>4, LatestFound DEF HealthInv
    <3>6. PICK d : d = [c EXCEPT !.left = @ \ {s}, !.found = Append(@, f)] OBVIOUS
    <3>7. guarding' = [guarding EXCEPT ![q] = d] /\ UNCHANGED <<check, health>>
      BY <2>2, <3>1, <3>2, <3>4, <3>6 DEF SE!ReadService, SE!healthVars
    <3>8. /\ d \in HealthCalls /\ d.left = c.left \ {s} /\ d.found = Append(c.found, f)
          /\ c.found \in Seq(CheckRow)
      <4>1. c \in HealthCalls BY <2>1, <3>1
      <4>2. c.found \in Seq(CheckRow) /\ c.left \in SUBSET Servers BY <4>1 DEF HealthCalls
      <4>3. Append(c.found, f) \in Seq(CheckRow) /\ c.left \ {s} \in SUBSET Servers
        BY <3>5, <4>2
      <4>4. PICK less, more : less = c.left \ {s} /\ more = Append(c.found, f) BY Zenon
      <4>5. d = [c EXCEPT !.left = less, !.found = more] BY <3>6, <4>4
      <4>6. d \in HealthCalls BY <4>1, <4>3, <4>4, <4>5, Zenon DEF HealthCalls
      <4>7. d.left = less /\ d.found = more BY <4>1, <4>5 DEF HealthCalls
      <4> QED BY <4>2, <4>4, <4>6, <4>7
    <3>9. HealthKnows(d)
      <4>1. HealthKnows(c) BY <2>1, <3>1
      <4>2. \A i \in DOMAIN d.found :
              (i \in DOMAIN c.found /\ d.found[i] = c.found[i]) \/ (i = Len(c.found) + 1 /\ d.found[i] = f)
        BY <3>5, <3>8
      <4>3. \A i \in DOMAIN c.found : c.found[i].service # s /\ i <= Len(c.found)
        BY <3>3, <3>8, <4>1 DEF HealthKnows
      <4>4. d.left \subseteq SE!Checked BY <3>8, <4>1 DEF HealthKnows
      <4>5. \A i \in DOMAIN d.found : d.found[i].service \notin d.left
        BY <3>5, <3>8, <4>1, <4>2 DEF HealthKnows
      <4>6. \A i, j \in DOMAIN d.found : d.found[i].service = d.found[j].service => i = j
        BY <3>5, <4>1, <4>2, <4>3 DEF HealthKnows
      <4>7. \A i \in DOMAIN d.found : \E n \in DOMAIN check : check[n] = d.found[i]
        BY <3>5, <4>1, <4>2 DEF HealthKnows, IsLatest
      <4>8. solo => \A i \in DOMAIN d.found : IsLatest(d.found[i])
        BY <3>5, <4>1, <4>2 DEF HealthKnows
      <4> QED BY <4>4, <4>5, <4>6, <4>7, <4>8 DEF HealthKnows
    <3> QED BY <1>0, <1>2, <3>7, <3>8, <3>9 DEF HealthInv
  <2>3. CASE SE!AnswerStatus(q)
    <3>1. /\ health' = guarding[q].found /\ UNCHANGED check
          /\ guarding' = [guarding EXCEPT ![q] = SE!Idle]
      BY <2>3 DEF SE!AnswerStatus, SE!End
    <3>2. health' \in Seq(CheckRow) BY <2>1, <3>1 DEF HealthCalls
    <3>3. \A i, j \in DOMAIN health' : health'[i].service = health'[j].service => i = j
      BY <2>1, <3>1 DEF HealthKnows
    <3>4. \A i \in DOMAIN health' : \E n \in DOMAIN check' : check'[n] = health'[i]
      BY <2>1, <3>1 DEF HealthKnows
    <3>5. \A r \in Requests : guarding'[r] # SE!Idle => HealthKnows(guarding[r])'
      <4>1. \A r \in Requests : guarding'[r] # SE!Idle => HealthKnows(guarding[r]) /\ guarding'[r] = guarding[r]
        BY <3>1 DEF HealthInv
      <4> QED BY <1>0, <3>1, <4>1 DEF HealthKnows, IsLatest, Named, SE!Checked
    <3> QED BY <3>1, <3>2, <3>3, <3>4, <3>5 DEF HealthInv
  <2> QED BY <1>5, <2>2, <2>3
<1> QED BY <1>1, <1>3, <1>4, <1>5 DEF SE!HealthNext, SE!Is

LEMMA HealthStatus == ASSUME HealthInv PROVE SE!StatusIsLatest
<1>1. \A q \in Requests : guarding[q].op = "status" => HealthKnows(guarding[q])
  BY DEF HealthInv, SE!Idle
<1> QED BY <1>1 DEF SE!StatusIsLatest, HealthInv, HealthKnows, IsLatest, Named, SE!Is

\* The instances count with the same operator.
LEMMA SearchCounts == \A S : SR!Cardinality(S) = Cardinality(S)
  BY DEF SR!Cardinality, Cardinality

\* Members that satisfy a condition come and go one at a time.
LEMMA Comes == ASSUME NEW S, IsFiniteSet(S), NEW x, x \notin S, NEW T, T = S \cup {x}
  PROVE  IsFiniteSet(T) /\ Cardinality(T) = Cardinality(S) + 1
  BY FS_AddElement
LEMMA Goes == ASSUME NEW S, IsFiniteSet(S), NEW x \in S, NEW T, T = S \ {x}
  PROVE  IsFiniteSet(T) /\ Cardinality(T) = Cardinality(S) - 1
  BY FS_RemoveElement

-----------------------------------------------------------------------------
(* Searching *)

SearchInv ==
    /\ DOMAIN finding = Requests
    /\ \A q \in Requests : finding[q].op = "log" => finding[q].term \in Terms \cup {"any"}
    /\ IsFiniteSet(queries)
    /\ \A r \in queries : r.term \in Terms /\ r.term # "any"

LEMMA SearchStep == ASSUME SearchInv, SR!SearchNext PROVE SearchInv'
<1>1. CASE UNCHANGED <<queries, finding>>
  BY <1>1 DEF SearchInv
<1>2. ASSUME NEW q \in Requests, NEW e \in Entities, SR!ReadSource(q, e) PROVE SearchInv'
  <2>1. /\ finding' = [finding EXCEPT ![q] = [op |-> "index", e |-> e, new |-> source[e]]]
        /\ UNCHANGED queries
    BY <1>2 DEF SR!ReadSource, SR!Begin, SR!searchVars
  <2> QED BY <2>1 DEF SearchInv
<1>3. ASSUME NEW q \in Requests, SR!Index(q) PROVE SearchInv'
  BY <1>3 DEF SR!Index, SR!End, SR!Idle, SearchInv
<1>4. ASSUME NEW q \in Requests, NEW t \in Terms \cup {"any"}, NEW tags, NEW page,
             SR!RunSearch(q, t, tags, page)
      PROVE  SearchInv'
  <2>1. PICK shown :
            /\ finding' = [finding EXCEPT ![q] = [op |-> "log", term |-> t, page |-> page, shown |-> shown]]
            /\ UNCHANGED queries
    BY <1>4, Zenon DEF SR!RunSearch, SR!Begin, SR!searchVars
  <2> QED BY <2>1 DEF SearchInv
<1>5. ASSUME NEW q \in Requests, finding[q].op = "log", SR!LogQuery(q) PROVE SearchInv'
  <2>1. finding' = [finding EXCEPT ![q] = SR!Idle] BY <1>5 DEF SR!LogQuery, SR!End
  <2>2. \/ UNCHANGED queries
        \/ /\ finding[q].term # "any"
           /\ \E r : r.term = finding[q].term /\ queries' = queries \cup {r}
    <3>1. PICK r : r = [id |-> SR!Cardinality(queries), term |-> finding[q].term,
                        page |-> finding[q].page, found |-> SR!Cardinality(finding[q].shown)]
      BY Zenon
    <3>2. r.term = finding[q].term BY <3>1
    <3>3. CASE finding[q].term = "any" BY <1>5, <3>3, Zenon DEF SR!LogQuery
    <3>4. CASE finding[q].term # "any"
      <4>1. queries' = queries \/ queries' = queries \cup {r} BY <1>5, <3>1 DEF SR!LogQuery
      <4> QED BY <3>2, <3>4, <4>1
    <3> QED BY <3>3, <3>4
  <2>3. \A r \in queries' : r.term \in Terms /\ r.term # "any"
    BY <1>5, <2>2 DEF SearchInv
  <2>4. IsFiniteSet(queries')
    BY <2>2, FS_AddElement DEF SearchInv
  <2> QED BY <2>1, <2>3, <2>4 DEF SearchInv, SR!Idle
<1>6. ASSUME NEW e \in Entities, SR!Drop(e) \/ SR!Remove(e) \/ \E c \in Contents : SR!Edit(e, c)
      PROVE  UNCHANGED <<queries, finding>>
  BY <1>6 DEF SR!Drop, SR!Remove, SR!Edit
<1> QED BY <1>1, <1>2, <1>3, <1>4, <1>5, <1>6 DEF SR!SearchNext, SR!Is

SearchesFor(t) == {r \in queries : r.term = t}

LEMMA PopularFound == ASSUME SearchInv, queries # {} PROVE SR!PopularSearches # {}
<1>1. ASSUME NEW t PROVE /\ IsFiniteSet(SearchesFor(t))
                         /\ Cardinality(SearchesFor(t)) \in 0..Cardinality(queries)
  <2>1. SearchesFor(t) \in SUBSET queries BY DEF SearchesFor
  <2>2. IsFiniteSet(SearchesFor(t)) /\ Cardinality(SearchesFor(t)) <= Cardinality(queries)
    BY <2>1, FS_Subset DEF SearchInv
  <2>3. Cardinality(SearchesFor(t)) \in Nat /\ Cardinality(queries) \in Nat
    BY <2>2, FS_CardinalityType DEF SearchInv
  <2> QED BY <2>2, <2>3
<1>2. Cardinality(queries) \in Nat BY FS_CardinalityType DEF SearchInv
<1>3. PICK r \in queries : r.term \in Terms BY DEF SearchInv
<1>4. PICK N : N = {Cardinality(SearchesFor(t)) : t \in Terms} BY Zenon
<1>5. PICK n \in N : \A m \in N : m <= n
  <2>1. N \in SUBSET (0..Cardinality(queries)) /\ N # {} BY <1>1, <1>3, <1>4
  <2> QED BY <1>2, <2>1, LastOne, Zenon
<1>6. PICK t \in Terms : n = Cardinality(SearchesFor(t)) BY <1>4, <1>5
<1>7. \A u \in Terms : Cardinality(SearchesFor(u)) <= Cardinality(SearchesFor(t))
  BY <1>4, <1>5, <1>6
<1>8. Cardinality(SearchesFor(r.term)) # 0
  <2>1. SearchesFor(r.term) # {} BY <1>3 DEF SearchesFor
  <2> QED BY <1>1, <2>1, FS_EmptySet
<1>9. Cardinality(SearchesFor(t)) > 0
  <2>1. /\ Cardinality(SearchesFor(t)) \in Nat /\ Cardinality(SearchesFor(r.term)) \in Nat
        /\ Cardinality(SearchesFor(r.term)) <= Cardinality(SearchesFor(t))
    BY <1>1, <1>3, <1>7
  <2> QED BY <1>8, <2>1
<1>10. \A u : SR!Asked(u) = Cardinality(SearchesFor(u))
  BY SearchCounts DEF SR!Asked, SearchesFor
<1> QED BY <1>6, <1>7, <1>9, <1>10 DEF SR!PopularSearches

LEMMA SearchViews == ASSUME SearchInv PROVE SR!SearchAgrees
<1>1. \A t \in Terms : SR!Autocomplete(t) \subseteq SR!Hits(t, {})
  BY DEF SR!Autocomplete, SR!Hits, SR!Matches, SR!Mentions
<1>2. ASSUME NEW t, NEW tags PROVE SR!Hits(t, tags) \subseteq SR!Hits(t, {})
  BY DEF SR!Hits
<1>3. ASSUME NEW t, NEW tags
      PROVE  /\ IsFiniteSet(SR!Hits(t, tags)) /\ Cardinality(SR!Hits(t, tags)) \in Nat
             /\ Cardinality(SR!Hits(t, tags)) = 0 => SR!Hits(t, tags) = {}
  <2>1. SR!Hits(t, tags) \in SUBSET Entities BY DEF SR!Hits
  <2>2. IsFiniteSet(SR!Hits(t, tags)) BY <2>1, ServicesAssumption, FS_Subset
  <2> QED BY <2>2, FS_CardinalityType, FS_EmptySet
<1>4. ASSUME NEW t, NEW tags, SR!PageLength(SR!Cardinality(SR!Hits(t, tags)), 1) = 0
      PROVE  SR!Hits(t, tags) = {}
  <2>1. PICK n \in Nat : n = Cardinality(SR!Hits(t, tags)) BY <1>3
  <2>2. SR!PageLength(n, 1) = 0 BY <1>4, <2>1, SearchCounts
  <2>3. n = 0 BY <2>2, ServicesAssumption DEF SR!PageLength
  <2> QED BY <1>3, <2>1, <2>3
<1>5. ASSUME NEW t, NEW u \in Terms
      PROVE  /\ SR!Facets(t)[u] <= SR!Cardinality(SR!Hits(t, {u}))
             /\ (\A e \in SR!Hits(t, {u}) : SR!Mentions(e, t)) =>
                   SR!Facets(t)[u] = SR!Cardinality(SR!Hits(t, {u}))
  <2>1. PICK counted : counted = {e \in Entities : SR!Mentions(e, t) /\ u \in entry[e].tags}
    OBVIOUS
  <2>2. SR!Facets(t)[u] = Cardinality(counted) BY <2>1, SearchCounts DEF SR!Facets
  <2>3. counted \subseteq SR!Hits(t, {u})
    BY <2>1 DEF SR!Hits, SR!Matches, SR!Mentions
  <2>4. (\A e \in SR!Hits(t, {u}) : SR!Mentions(e, t)) => counted = SR!Hits(t, {u})
    BY <2>1, <2>3 DEF SR!Hits
  <2>5. Cardinality(counted) <= Cardinality(SR!Hits(t, {u}))
    BY <1>3, <2>3, FS_Subset
  <2> QED BY <2>2, <2>4, <2>5, SearchCounts
<1>6. \A r \in SR!NoResultQueries : r.term # "any"
  BY DEF SR!NoResultQueries, SearchInv
<1> QED BY <1>1, <1>2, <1>4, <1>5, <1>6, PopularFound, Zenon DEF SR!SearchAgrees

-----------------------------------------------------------------------------
(* The assistant *)

WaitingIn(calls, op) == {q \in Requests : calls[q].op = op}
\* Every answer of the provider is stored, or on its way to its row; a refused
\* write turned one answer into a failure, or lost the row of a failure.
UsageInv ==
    /\ DOMAIN finding = Requests
    /\ completion \in [completed : Nat, failed : Nat] /\ provided \in [ok : Nat, failed : Nat]
    /\ returned = completion.completed
    /\ fault \in BOOLEAN
    /\ LET stored == completion.completed + Cardinality(WaitingIn(finding, "store"))
           lost == completion.failed + Cardinality(WaitingIn(finding, "storeFailed"))
       IN  \/ stored = provided.ok /\ lost = provided.failed
           \/ ~fault /\ stored = provided.ok - 1 /\ lost = provided.failed + 1
           \/ ~fault /\ stored = provided.ok /\ lost = provided.failed - 1

LEMMA WaitingFinite == ASSUME NEW calls, NEW op
  PROVE  IsFiniteSet(WaitingIn(calls, op)) /\ Cardinality(WaitingIn(calls, op)) \in Nat
<1>1. WaitingIn(calls, op) \in SUBSET Requests BY DEF WaitingIn
<1> QED BY <1>1, PaymentsAssumption, FS_Subset, FS_CardinalityType

\* Request q goes from one step to another.
LEMMA WaitingMoves ==
  ASSUME NEW q \in Requests, DOMAIN finding = Requests, NEW c, finding' = [finding EXCEPT ![q] = c],
         NEW op
  PROVE  /\ finding[q].op # op /\ c.op # op => WaitingIn(finding', op) = WaitingIn(finding, op)
         /\ finding[q].op = op /\ c.op # op
               => Cardinality(WaitingIn(finding', op)) = Cardinality(WaitingIn(finding, op)) - 1
<1>1. ASSUME finding[q].op = op, c.op # op
      PROVE  Cardinality(WaitingIn(finding', op)) = Cardinality(WaitingIn(finding, op)) - 1
  <2>1. q \in WaitingIn(finding, op) /\ WaitingIn(finding', op) = WaitingIn(finding, op) \ {q}
    BY <1>1 DEF WaitingIn
  <2> QED BY <2>1, WaitingFinite, Goes, Zenon
<1>2. ASSUME finding[q].op # op, c.op # op PROVE WaitingIn(finding', op) = WaitingIn(finding, op)
  BY <1>2 DEF WaitingIn
<1> QED BY <1>1, <1>2

LEMMA WaitingMore ==
  ASSUME NEW q \in Requests, DOMAIN finding = Requests, NEW c, finding' = [finding EXCEPT ![q] = c],
         finding[q].op # c.op
  PROVE  Cardinality(WaitingIn(finding', c.op)) = Cardinality(WaitingIn(finding, c.op)) + 1
<1>1. q \notin WaitingIn(finding, c.op) /\ WaitingIn(finding', c.op) = WaitingIn(finding, c.op) \cup {q}
  BY DEF WaitingIn
<1> QED BY <1>1, WaitingFinite, Comes, Zenon

LEMMA UsageStep == ASSUME UsageInv, SR!AssistantNext PROVE UsageInv'
<1> DEFINE s == Cardinality(WaitingIn(finding, "store"))
           f == Cardinality(WaitingIn(finding, "storeFailed"))
<1>0. s \in Nat /\ f \in Nat BY WaitingFinite
<1>1. ASSUME NEW q \in Requests, NEW c, finding[q].op \notin {"store", "storeFailed"},
             c.op \notin {"store", "storeFailed"}, finding' = [finding EXCEPT ![q] = c],
             UNCHANGED <<completion, provided, returned, fault>>
      PROVE  UsageInv'
  <2>1. WaitingIn(finding', "store") = WaitingIn(finding, "store") /\ WaitingIn(finding', "storeFailed") = WaitingIn(finding, "storeFailed")
    BY <1>1, WaitingMoves, Zenon DEF UsageInv
  <2> QED BY <1>1, <2>1 DEF UsageInv
<1>2. ASSUME NEW q \in Requests, NEW ok \in BOOLEAN, SR!Complete(q, ok) PROVE UsageInv'
  <2>0. PICK c : c = [op |-> IF ok THEN "store" ELSE "storeFailed"] BY Zenon
  <2>1. /\ finding[q].op = "idle" /\ UNCHANGED <<completion, returned, fault>>
        /\ finding' = [finding EXCEPT ![q] = c]
    BY <1>2, <2>0 DEF SR!Complete, SR!Begin, SR!Idle
  <2>2. CASE ok
    <3>1. c.op = "store" BY <2>0, <2>2
    <3>2. Cardinality(WaitingIn(finding', "store")) = s + 1 BY <2>1, <3>1, WaitingMore, Zenon DEF UsageInv
    <3>3. WaitingIn(finding', "storeFailed") = WaitingIn(finding, "storeFailed")
      BY <2>1, <3>1, WaitingMoves, Zenon DEF UsageInv
    <3>4. provided' = [provided EXCEPT !.ok = @ + 1] BY <1>2, <2>2 DEF SR!Complete
    <3> QED BY <1>0, <2>1, <3>2, <3>3, <3>4 DEF UsageInv
  <2>3. CASE ~ok
    <3>1. c.op = "storeFailed" BY <2>0, <2>3
    <3>2. Cardinality(WaitingIn(finding', "storeFailed")) = f + 1
      BY <2>1, <3>1, WaitingMore, Zenon DEF UsageInv
    <3>3. WaitingIn(finding', "store") = WaitingIn(finding, "store")
      BY <2>1, <3>1, WaitingMoves, Zenon DEF UsageInv
    <3>4. provided' = [provided EXCEPT !.failed = @ + 1] BY <1>2, <2>3 DEF SR!Complete
    <3> QED BY <1>0, <2>1, <3>2, <3>3, <3>4 DEF UsageInv
  <2> QED BY <2>2, <2>3
<1>8. SR!Idle.op = "idle" BY DEF SR!Idle
<1>3. ASSUME NEW q \in Requests, finding[q].op = "store", SR!StoreCompletion(q) PROVE UsageInv'
  <2>1. UNCHANGED provided BY <1>3 DEF SR!StoreCompletion
  <2>2. CASE /\ completion' = [completion EXCEPT !.completed = @ + 1]
             /\ returned' = returned + 1 /\ finding' = [finding EXCEPT ![q] = SR!Idle]
             /\ UNCHANGED fault
    <3>1. Cardinality(WaitingIn(finding', "store")) = s - 1
      BY <1>3, <1>8, <2>2, WaitingMoves, Zenon DEF UsageInv
    <3>2. WaitingIn(finding', "storeFailed") = WaitingIn(finding, "storeFailed")
      BY <1>3, <1>8, <2>2, WaitingMoves, Zenon DEF UsageInv
    <3> QED BY <1>0, <2>1, <2>2, <3>1, <3>2 DEF UsageInv
  <2>3. CASE /\ fault /\ fault' = FALSE
             /\ finding' = [finding EXCEPT ![q] = [op |-> "storeFailed"]]
             /\ UNCHANGED <<completion, returned>>
    <3>0. PICK c : c = [op |-> "storeFailed"] BY Zenon
    <3>1. c.op = "storeFailed" /\ finding' = [finding EXCEPT ![q] = c] BY <2>3, <3>0
    <3>2. Cardinality(WaitingIn(finding', "store")) = s - 1
      BY <1>3, <3>1, WaitingMoves, Zenon DEF UsageInv
    <3>3. Cardinality(WaitingIn(finding', "storeFailed")) = f + 1
      BY <1>3, <3>1, WaitingMore, Zenon DEF UsageInv
    <3>4. fault /\ ~fault' /\ fault' \in BOOLEAN BY <2>3, Zenon
    <3>5. UNCHANGED <<completion, returned>> /\ DOMAIN finding' = Requests BY <2>3 DEF UsageInv
    <3> QED BY <1>0, <2>1, <3>2, <3>3, <3>4, <3>5 DEF UsageInv
  <2> QED BY <1>3, <2>2, <2>3, Zenon DEF SR!StoreCompletion, SR!End, SR!Go
<1>4. ASSUME NEW q \in Requests, finding[q].op = "storeFailed", SR!StoreFailure(q) PROVE UsageInv'
  <2>1. UNCHANGED <<provided, returned>> /\ finding' = [finding EXCEPT ![q] = SR!Idle]
    BY <1>4 DEF SR!StoreFailure, SR!End
  <2>2. Cardinality(WaitingIn(finding', "storeFailed")) = f - 1
    BY <1>4, <1>8, <2>1, WaitingMoves, Zenon DEF UsageInv
  <2>5. WaitingIn(finding', "store") = WaitingIn(finding, "store")
    BY <1>4, <1>8, <2>1, WaitingMoves, Zenon DEF UsageInv
  <2>3. CASE completion' = [completion EXCEPT !.failed = @ + 1] /\ UNCHANGED fault
    BY <1>0, <2>1, <2>2, <2>3, <2>5 DEF UsageInv
  <2>4. CASE fault /\ fault' = FALSE /\ UNCHANGED completion
    <3>1. fault /\ ~fault' /\ fault' \in BOOLEAN BY <2>4, Zenon
    <3> QED BY <1>0, <2>1, <2>2, <2>4, <2>5, <3>1 DEF UsageInv
  <2> QED BY <1>4, <2>3, <2>4, Zenon DEF SR!StoreFailure
<1>5. ASSUME NEW q \in Requests, NEW e \in Entities, NEW v, SR!Embed(q, e, v) PROVE UsageInv'
  <2>1. /\ finding[q].op = "idle" /\ UNCHANGED <<completion, provided, returned, fault>>
        /\ finding' = [finding EXCEPT ![q] = [op |-> "embed", e |-> e, version |-> v]]
    BY <1>5 DEF SR!Embed, SR!Begin, SR!Idle, SR!aiVars
  <2> QED BY <1>1, <2>1, Zenon
<1>6. ASSUME NEW q \in Requests, finding[q].op = "embed", SR!StoreEmbedding(q) PROVE UsageInv'
  <2>1. SR!Idle.op = "idle" BY DEF SR!Idle
  <2> QED BY <1>1, <1>6, <2>1, Zenon DEF SR!StoreEmbedding, SR!End
<1>7. ASSUME SR!SavePrompt \/ SR!DeletePrompt PROVE UsageInv'
  <2>1. UNCHANGED <<completion, provided, returned, fault, finding>>
    BY <1>7 DEF SR!SavePrompt, SR!DeletePrompt
  <2> QED BY <2>1 DEF UsageInv
<1> QED BY <1>2, <1>3, <1>4, <1>5, <1>6, <1>7 DEF SR!AssistantNext, SR!Is

LEMMA UsageHolds == ASSUME UsageInv PROVE SR!UsageAccounted
<1>1. /\ \A op : SR!Cardinality({q \in Requests : SR!Is(q, op)}) = Cardinality(WaitingIn(finding, op))
      /\ Cardinality(WaitingIn(finding, "store")) \in Nat /\ Cardinality(WaitingIn(finding, "storeFailed")) \in Nat
  BY SearchCounts, WaitingFinite, Zenon DEF WaitingIn, SR!Is
<1> QED BY <1>1 DEF UsageInv, SR!UsageAccounted, SR!UsageStats, SR!Started

-----------------------------------------------------------------------------
(* Messages *)

Told == Messages \cup {"deleted"}
ReplyCalls == [op : {"reply"}, id : Told, who : MS!Authors]
ReadCalls == [op : {"read"}, id : Told, who : MS!Readers]
TalkCall(c) == c = MS!Idle \/ c \in ReplyCalls \/ c \in ReadCalls
\* What a request read of its message is so until the message is deleted.
TalkKnows(c) ==
    /\ c.op = "reply" /\ c.id # "deleted" =>
          MS!Exists(c.id) /\ (c.who # MS!Platform => MS!ForMerchant(message[c.id], c.who))
    /\ solo /\ c.op = "read" /\ c.id # "deleted" => receipt[c.id][c.who] = 0
Whole(m) ==
    /\ \A t \in Merchants : reply[m][t] > 0 => MS!ForMerchant(message[m], t)
    /\ ~MS!Exists(m) => /\ \A a \in MS!Authors : reply[m][a] = 0
                        /\ \A r \in MS!Readers : receipt[m][r] = 0
    /\ solo => \A r \in MS!Readers : receipt[m][r] <= 1
TalkRows ==
    /\ DOMAIN message = Messages
    /\ \A m \in Messages : message[m].kind \in {"none", "broadcast", "direct"}
    /\ reply \in [Messages -> [MS!Authors -> 0..MaxReplies]]
    /\ receipt \in [Messages -> [MS!Readers -> 0..MaxReads]]
TalkInv ==
    /\ TalkRows
    /\ DOMAIN talking = Requests
    /\ \A q \in Requests : TalkCall(talking[q]) /\ TalkKnows(talking[q])
    /\ \A m \in Messages : Whole(m)
    /\ solo => \A q, r \in Requests : talking[q] # MS!Idle /\ talking[r] # MS!Idle => q = r

\* A request begins, knowing what it read.
LEMMA TalkBegin ==
  ASSUME TalkInv, NEW q \in Requests, NEW c, MS!Begin(q, c), UNCHANGED <<message, reply, receipt, solo>>,
         c \in ReplyCalls \/ c \in ReadCalls, TalkKnows(c)
  PROVE  TalkInv'
<1>1. /\ talking' = [talking EXCEPT ![q] = c]
      /\ solo => \A r \in Requests : talking[r] = MS!Idle
  BY DEF MS!Begin, MS!Free
<1>2. \A d : TalkKnows(d) => TalkKnows(d)'
  BY DEF TalkKnows, MS!Exists
<1>3. ASSUME NEW r \in Requests PROVE TalkCall(talking'[r]) /\ TalkKnows(talking[r])'
  <2>1. talking'[r] = talking[r] \/ talking'[r] = c BY <1>1 DEF TalkInv
  <2>2. TalkKnows(talking'[r]) BY <2>1 DEF TalkInv
  <2> QED BY <2>1, <2>2 DEF TalkInv, TalkCall, TalkKnows, MS!Exists
<1>4. \A m \in Messages : Whole(m)' BY DEF TalkInv, Whole, MS!Exists
<1>5. solo => \A r, s \in Requests : talking'[r] # MS!Idle /\ talking'[s] # MS!Idle => r = s
  BY <1>1 DEF TalkInv
<1> QED BY <1>1, <1>3, <1>4, <1>5 DEF TalkInv, TalkRows, TalkCall

\* A request ends.
LEMMA TalkEnd ==
  ASSUME TalkInv, NEW q \in Requests, MS!End(q), UNCHANGED <<message, solo>>, TalkRows',
         \A m \in Messages : Whole(m)',
         \A r \in Requests : r # q /\ talking[r] # MS!Idle => TalkKnows(talking[r])'
  PROVE  TalkInv'
<1>1. talking' = [talking EXCEPT ![q] = MS!Idle] BY DEF MS!End
<1>2. ASSUME NEW r \in Requests PROVE TalkCall(talking'[r]) /\ TalkKnows(talking[r])'
  <2>1. CASE talking'[r] = MS!Idle BY <2>1 DEF TalkCall, TalkKnows, MS!Idle
  <2>2. CASE talking'[r] # MS!Idle
    <3>1. r # q /\ talking'[r] = talking[r] BY <1>1, <2>2 DEF TalkInv
    <3> QED BY <2>2, <3>1 DEF TalkInv, TalkKnows
  <2> QED BY <2>1, <2>2
<1>3. solo => \A r, s \in Requests : talking'[r] # MS!Idle /\ talking'[s] # MS!Idle => r = s
  BY <1>1 DEF TalkInv
<1> QED BY <1>1, <1>2, <1>3 DEF TalkInv, TalkCall

LEMMA TalkStep == ASSUME TalkInv, MS!CommsNext PROVE TalkInv'
<1> USE ServicesAssumption
<1>0. UNCHANGED solo BY DEF MS!CommsNext
<1>1. ASSUME NEW m \in Messages, MS!CreateAnnouncement(m) PROVE TalkInv'
  <2>1. PICK put : /\ message' = [message EXCEPT ![m] = put] /\ put.kind \in {"broadcast", "direct"}
                   /\ ~MS!Exists(m) /\ UNCHANGED <<reply, receipt, talking>>
    BY <1>1, Zenon DEF MS!CreateAnnouncement
  <2>2. TalkRows' BY <2>1 DEF TalkInv, TalkRows
  <2>3. \A n \in Messages : n # m => message'[n] = message[n] BY <2>1 DEF TalkInv, TalkRows
  <2>4. message'[m] # MS!NoMessage BY <2>1 DEF TalkInv, TalkRows, MS!NoMessage
  <2>5. ASSUME NEW n \in Messages PROVE Whole(n)'
    <3>1. CASE n # m
      <4>1. Whole(n) BY DEF TalkInv
      <4> QED BY <1>0, <2>1, <2>3, <3>1, <4>1 DEF Whole, MS!Exists, MS!ForMerchant
    <3>2. CASE n = m
      <4>1. Whole(m) /\ MS!Exists(m)' BY <2>4 DEF TalkInv, MS!Exists
      <4>2. \A t \in Merchants : reply[m][t] = 0 BY <2>1, <4>1 DEF Whole, MS!Authors
      <4> QED BY <1>0, <2>1, <3>2, <4>1, <4>2 DEF Whole, MS!Exists
    <3> QED BY <3>1, <3>2
  <2>6. ASSUME NEW q \in Requests PROVE TalkKnows(talking[q])'
    <3>1. TalkKnows(talking[q]) /\ TalkCall(talking[q]) BY DEF TalkInv
    <3>2. ASSUME talking[q].op = "reply", talking[q].id # "deleted"
          PROVE  talking[q].id \in Messages /\ talking[q].id # m
      <4>1. talking[q].id \in Told BY <3>1, <3>2 DEF TalkCall, ReplyCalls, ReadCalls, MS!Idle
      <4> QED BY <2>1, <3>1, <3>2, <4>1 DEF TalkKnows, Told
    <3> QED BY <1>0, <2>1, <2>3, <3>1, <3>2 DEF TalkKnows, MS!Exists, MS!ForMerchant
  <2> QED BY <1>0, <2>1, <2>2, <2>5, <2>6 DEF TalkInv, TalkCall
<1>2. ASSUME NEW m \in Messages, MS!DeleteAnnouncement(m) PROVE TalkInv'
  <2>1. /\ message' = [message EXCEPT ![m] = MS!NoMessage]
        /\ reply' = [reply EXCEPT ![m] = [a \in MS!Authors |-> 0]]
        /\ receipt' = [receipt EXCEPT ![m] = [r \in MS!Readers |-> 0]]
        /\ DOMAIN talking' = Requests
        /\ \A q \in Requests : talking'[q] = IF talking[q] # MS!Idle /\ talking[q].id = m
                                  THEN [talking[q] EXCEPT !.id = "deleted"] ELSE talking[q]
    BY <1>2 DEF MS!DeleteAnnouncement
  <2>2. TalkRows'
    <3>1. [a \in MS!Authors |-> 0] \in [MS!Authors -> 0..MaxReplies] OBVIOUS
    <3>2. [r \in MS!Readers |-> 0] \in [MS!Readers -> 0..MaxReads] OBVIOUS
    <3>3. \A n \in Messages : message'[n].kind \in {"none", "broadcast", "direct"}
      BY <2>1 DEF TalkInv, TalkRows, MS!NoMessage
    <3>4. reply' \in [Messages -> [MS!Authors -> 0..MaxReplies]] BY <2>1, <3>1 DEF TalkInv, TalkRows
    <3>5. receipt' \in [Messages -> [MS!Readers -> 0..MaxReads]] BY <2>1, <3>2 DEF TalkInv, TalkRows
    <3>6. DOMAIN message' = Messages BY <2>1 DEF TalkInv, TalkRows
    <3> QED BY <3>3, <3>4, <3>5, <3>6 DEF TalkRows
  <2>3. ASSUME NEW n \in Messages PROVE Whole(n)'
    <3>1. CASE n # m
      <4>1. message'[n] = message[n] /\ reply'[n] = reply[n] /\ receipt'[n] = receipt[n]
        BY <2>1, <3>1 DEF TalkInv, TalkRows
      <4> QED BY <1>0, <4>1 DEF Whole, TalkInv, MS!Exists, MS!ForMerchant
    <3>2. CASE n = m
      <4>1. /\ \A a \in MS!Authors : reply'[m][a] = 0
            /\ \A r \in MS!Readers : receipt'[m][r] = 0
        BY <2>1 DEF TalkInv, TalkRows
      <4>2. Merchants \subseteq MS!Authors BY DEF MS!Authors
      <4> QED BY <1>0, <3>2, <4>1, <4>2 DEF Whole
    <3> QED BY <3>1, <3>2
  <2>4. ASSUME NEW q \in Requests
        PROVE  /\ TalkCall(talking'[q]) /\ TalkKnows(talking[q])'
               /\ talking'[q] # MS!Idle => talking[q] # MS!Idle
    <3>1. TalkCall(talking[q]) /\ TalkKnows(talking[q]) BY DEF TalkInv
    <3>2. CASE talking[q] # MS!Idle /\ talking[q].id = m
      <4>1. PICK c : c = talking'[q] OBVIOUS
      <4>2. c = [talking[q] EXCEPT !.id = "deleted"] BY <2>1, <3>2, <4>1
      <4>3. c \in ReplyCalls \/ c \in ReadCalls
        BY <3>1, <3>2, <4>2 DEF TalkCall, ReplyCalls, ReadCalls, Told
      <4>4. c.id = "deleted" BY <3>1, <3>2, <4>2 DEF TalkCall, ReplyCalls, ReadCalls
      <4> QED BY <3>2, <4>1, <4>3, <4>4 DEF TalkCall, TalkKnows
    <3>3. CASE ~(talking[q] # MS!Idle /\ talking[q].id = m)
      <4>1. talking'[q] = talking[q] BY <2>1, <3>3
      <4>2. ASSUME talking[q].op \in {"reply", "read"}, talking[q].id # "deleted"
            PROVE  /\ talking[q].id \in Messages /\ talking[q].id # m
                   /\ message'[talking[q].id] = message[talking[q].id]
                   /\ receipt'[talking[q].id] = receipt[talking[q].id]
        <5>1. talking[q].id \in Told /\ talking[q] # MS!Idle
          BY <3>1, <4>2 DEF TalkCall, ReplyCalls, ReadCalls, MS!Idle
        <5> QED BY <2>1, <3>3, <4>2, <5>1 DEF Told, TalkInv, TalkRows
      <4> QED BY <1>0, <3>1, <4>1, <4>2 DEF TalkKnows, MS!Exists, MS!ForMerchant
    <3> QED BY <3>2, <3>3
  <2>5. solo => \A r, s \in Requests : talking'[r] # MS!Idle /\ talking'[s] # MS!Idle => r = s
    BY <2>4 DEF TalkInv
  <2> QED BY <1>0, <2>1, <2>2, <2>3, <2>4, <2>5 DEF TalkInv, TalkCall
<1>3. ASSUME NEW q \in Requests, NEW m \in Messages, NEW a \in MS!Authors, MS!ReadForReply(q, m, a)
      PROVE  TalkInv'
  <2>1. PICK c : c = [op |-> "reply", id |-> m, who |-> a] BY Zenon
  <2>2. c \in ReplyCalls /\ c.op = "reply" /\ c.id = m /\ c.who = a BY <2>1 DEF ReplyCalls, Told
  <2>3. /\ MS!Begin(q, c) /\ UNCHANGED <<message, reply, receipt>>
        /\ MS!Exists(m) /\ (a # MS!Platform => MS!ForMerchant(message[m], a))
    BY <1>3, <2>1 DEF MS!ReadForReply, MS!commsVars
  <2>4. TalkKnows(c) BY <2>2, <2>3 DEF TalkKnows
  <2> QED BY <1>0, <2>2, <2>3, <2>4, TalkBegin
<1>4. ASSUME NEW q \in Requests, NEW m \in Messages, NEW r \in MS!Readers, MS!ReadReceipt(q, m, r)
      PROVE  TalkInv'
  <2>1. PICK c : c = [op |-> "read", id |-> m, who |-> r] BY Zenon
  <2>2. c \in ReadCalls /\ c.op = "read" /\ c.id = m /\ c.who = r BY <2>1 DEF ReadCalls, Told
  <2>3. MS!Begin(q, c) /\ UNCHANGED <<message, reply, receipt>> /\ receipt[m][r] = 0
    BY <1>4, <2>1 DEF MS!ReadReceipt, MS!commsVars
  <2>4. TalkKnows(c) BY <2>2, <2>3 DEF TalkKnows
  <2> QED BY <1>0, <2>2, <2>3, <2>4, TalkBegin
<1>5. ASSUME NEW q \in Requests, talking[q].op = "reply", MS!InsertReply(q) PROVE TalkInv'
  <2>1. PICK c : c = talking[q] OBVIOUS
  <2>2. c \in ReplyCalls /\ TalkKnows(c) /\ c.op = "reply"
    BY <1>5, <2>1 DEF TalkInv, TalkCall, ReadCalls, MS!Idle
  <2>3. MS!End(q) /\ UNCHANGED <<message, receipt>> BY <1>5 DEF MS!InsertReply
  <2>4. TalkRows' /\ \A m \in Messages : Whole(m)'
    <3>1. CASE c.id = "deleted"
      <4>1. UNCHANGED reply BY <1>5, <2>1, <3>1 DEF MS!InsertReply
      <4> QED BY <1>0, <2>3, <4>1 DEF TalkInv, TalkRows, Whole, MS!Exists
    <3>2. CASE c.id # "deleted"
      <4>0. PICK n, who : n = c.id /\ who = c.who OBVIOUS
      <4>1. n \in Messages /\ who \in MS!Authors /\ MS!Exists(n)
            /\ (who # MS!Platform => MS!ForMerchant(message[n], who))
        BY <2>2, <3>2, <4>0 DEF ReplyCalls, Told, TalkKnows
      <4>2. /\ reply[n][who] < MaxReplies
            /\ reply' = [reply EXCEPT ![n][who] = @ + 1]
        BY <1>5, <2>1, <3>2, <4>0 DEF MS!InsertReply
      <4>3. reply[n] \in [MS!Authors -> 0..MaxReplies] BY <4>1 DEF TalkInv, TalkRows
      <4>4. PICK more : more = [reply[n] EXCEPT ![who] = @ + 1] BY Zenon
      <4>5. more \in [MS!Authors -> 0..MaxReplies] BY <4>1, <4>2, <4>3, <4>4
      <4>6. reply' = [reply EXCEPT ![n] = more] BY <4>1, <4>2, <4>4 DEF TalkInv, TalkRows
      <4>7. TalkRows' BY <2>3, <4>1, <4>5, <4>6 DEF TalkInv, TalkRows
      <4>8. ASSUME NEW m \in Messages PROVE Whole(m)'
        <5>1. Whole(m) BY DEF TalkInv
        <5>2. CASE m # n
          <6>1. reply'[m] = reply[m] BY <4>6, <5>2 DEF TalkInv, TalkRows
          <6> QED BY <1>0, <2>3, <5>1, <6>1 DEF Whole, MS!Exists, MS!ForMerchant
        <5>3. CASE m = n
          <6>1. \A t \in Merchants : t # who => reply'[m][t] = reply[m][t]
            BY <4>3, <4>4, <4>6, <5>3 DEF TalkInv, TalkRows, MS!Authors
          <6>2. \A t \in Merchants : t = who => MS!ForMerchant(message[m], t)
            BY <4>1, <5>3 DEF MS!Platform
          <6> QED BY <1>0, <2>3, <4>1, <5>1, <5>3, <6>1, <6>2 DEF Whole, MS!Exists, MS!ForMerchant
        <5> QED BY <5>2, <5>3
      <4> QED BY <4>7, <4>8
    <3> QED BY <3>1, <3>2
  <2>5. \A r \in Requests : TalkKnows(talking[r])' <=> TalkKnows(talking'[r])
    BY <1>0, <2>3 DEF TalkKnows, MS!Exists
  <2>6. ASSUME NEW r \in Requests, r # q PROVE TalkKnows(talking[r])'
    <3>1. talking'[r] = talking[r] BY <2>3, <2>6 DEF MS!End, TalkInv
    <3> QED BY <2>5, <3>1 DEF TalkInv
  <2> QED BY <1>0, <2>3, <2>4, <2>6, TalkEnd
<1>6. ASSUME NEW q \in Requests, talking[q].op = "read", MS!InsertReceipt(q) PROVE TalkInv'
  <2>1. PICK c : c = talking[q] OBVIOUS
  <2>2. c \in ReadCalls /\ TalkKnows(c) /\ c.op = "read"
    BY <1>6, <2>1 DEF TalkInv, TalkCall, ReplyCalls, MS!Idle
  <2>3. MS!End(q) /\ UNCHANGED <<message, reply>> BY <1>6 DEF MS!InsertReceipt
  <2>4. TalkRows' /\ \A m \in Messages : Whole(m)'
    <3>1. CASE c.id = "deleted" \/ ~MS!Exists(c.id)
      <4>1. UNCHANGED receipt BY <1>6, <2>1, <3>1 DEF MS!InsertReceipt
      <4> QED BY <1>0, <2>3, <4>1 DEF TalkInv, TalkRows, Whole, MS!Exists
    <3>2. CASE c.id # "deleted" /\ MS!Exists(c.id)
      <4>0. PICK n, who : n = c.id /\ who = c.who OBVIOUS
      <4>1. n \in Messages /\ who \in MS!Readers /\ MS!Exists(n) /\ (solo => receipt[n][who] = 0)
        BY <2>2, <3>2, <4>0 DEF ReadCalls, Told, TalkKnows
      <4>2. /\ receipt[n][who] < MaxReads
            /\ receipt' = [receipt EXCEPT ![n][who] = @ + 1]
        BY <1>6, <2>1, <3>2, <4>0 DEF MS!InsertReceipt
      <4>3. receipt[n] \in [MS!Readers -> 0..MaxReads] BY <4>1 DEF TalkInv, TalkRows
      <4>4. PICK more : more = [receipt[n] EXCEPT ![who] = @ + 1] BY Zenon
      <4>5. more \in [MS!Readers -> 0..MaxReads] BY <4>1, <4>2, <4>3, <4>4
      <4>6. receipt' = [receipt EXCEPT ![n] = more] BY <4>1, <4>2, <4>4 DEF TalkInv, TalkRows
      <4>7. TalkRows' BY <2>3, <4>1, <4>5, <4>6 DEF TalkInv, TalkRows
      <4>8. ASSUME NEW m \in Messages PROVE Whole(m)'
        <5>1. Whole(m) BY DEF TalkInv
        <5>2. CASE m # n
          <6>1. receipt'[m] = receipt[m] BY <4>6, <5>2 DEF TalkInv, TalkRows
          <6> QED BY <1>0, <2>3, <5>1, <6>1 DEF Whole, MS!Exists, MS!ForMerchant
        <5>3. CASE m = n
          <6>1. ASSUME solo PROVE \A r \in MS!Readers : receipt'[m][r] <= 1
            <7>1. receipt'[m] = more BY <4>1, <4>6, <5>3 DEF TalkInv, TalkRows
            <7>2. more[who] = 1 BY <4>1, <4>3, <4>4, <6>1
            <7>3. \A r \in MS!Readers : r # who => more[r] = receipt[m][r] BY <4>3, <4>4, <5>3
            <7> QED BY <5>1, <6>1, <7>1, <7>2, <7>3 DEF Whole
          <6> QED BY <1>0, <2>3, <4>1, <5>1, <5>3, <6>1 DEF Whole, MS!Exists, MS!ForMerchant
        <5> QED BY <5>2, <5>3
      <4> QED BY <4>7, <4>8
    <3> QED BY <3>1, <3>2
  <2>5. ASSUME NEW r \in Requests, r # q, talking[r] # MS!Idle PROVE TalkKnows(talking[r])'
    <3>1. talking'[r] = talking[r] BY <2>3, <2>5 DEF MS!End, TalkInv
    <3>2. talking[q] # MS!Idle BY <1>6 DEF MS!Idle
    <3>3. ~solo BY <2>5, <3>2 DEF TalkInv
    <3>4. TalkKnows(talking[r]) BY DEF TalkInv
    <3> QED BY <1>0, <2>3, <3>1, <3>3, <3>4 DEF TalkKnows, MS!Exists
  <2> QED BY <1>0, <2>3, <2>4, <2>5, TalkEnd
<1> QED BY <1>1, <1>2, <1>3, <1>4, <1>5, <1>6 DEF MS!CommsNext

LEMMA TalkWhole == ASSUME TalkInv PROVE MS!ThreadsWhole
  BY DEF TalkInv, Whole, MS!ThreadsWhole

-----------------------------------------------------------------------------
(* Results of sends *)

LEMMA SendCounts == \A S : NO!Cardinality(S) = Cardinality(S)
  BY DEF NO!Cardinality, Cardinality

SendPcs == {"template", "row", "find", "skip", "deliver", "smsRow", "record", "done", "failed"}
SendRow == [pc : SendPcs, channel : NO!Channels, to : SUBSET (Tokens \cup Targets),
            sent : Nat, failed : Nat]
NoteRow == [channel : NO!Channels \cup {"none"}, read : BOOLEAN]
ResultRow == [sent : Nat, failed : Nat, skipped : 0..1]

\* How many results a send leaves when it ends in order.
Owed(at) == IF at.to = {} THEN 1 ELSE Cardinality(at.to)

\* A send has its row once it is created, no result until something is
\* recorded, and while it records the results it has and has still to record
\* are those it owes.
Accounted(at, put, res, tpl) ==
    /\ at # NO!NotSent => IsFiniteSet(at.to)
    /\ at.pc \in {"none", "template", "row", "smsRow"} => put = NO!NoRow
    /\ at.pc \in {"find", "skip", "record", "done"} => put # NO!NoRow
    /\ at.pc = "deliver" => (at.channel = "sms" <=> put = NO!NoRow)
    /\ at.pc \in {"none", "template", "row", "find", "skip", "deliver", "smsRow"} => res = NO!NoResults
    /\ at.pc = "template" => tpl # "none"
    /\ at.pc \in {"row", "find"} => at.channel # "sms"
    /\ at.pc \in {"template", "row", "find", "deliver"} => at.failed = 0
    /\ at.pc \in {"skip", "smsRow"} => at.to = {}
    /\ at.pc = "deliver" => (at.channel = "sms" <=> at.to = {})
    /\ at.pc = "smsRow" => at.sent = 1 /\ at.failed = 0
    /\ at.pc = "record" => /\ res.skipped = 0 /\ at.sent + at.failed > 0
                           /\ res.sent + res.failed + at.sent + at.failed = Owed(at)
    /\ at.pc = "done" => res.sent + res.failed + res.skipped = Owed(at)

ResultInv ==
    /\ send \in [NO!Sends -> SendRow \cup {NO!NotSent}]
    /\ notification \in [NO!Sends -> NoteRow]
    /\ result \in [NO!Sends -> ResultRow]
    /\ template \in NO!Channels \cup {"none"}
    /\ DOMAIN noting = Requests
    /\ \A q \in Requests : noting[q].op = "click" =>
          noting[q].id \in NO!Sends /\ notification[noting[q].id].read
    /\ clicked \subseteq NO!Sends /\ \A n \in clicked : notification[n].read
    /\ \A n \in NO!Sends : Accounted(send[n], notification[n], result[n], template)

\* One send moves on, its row and its results with it.
LEMMA ResultMove ==
  ASSUME ResultInv, NEW n \in NO!Sends, NEW at \in SendRow, NEW put \in NoteRow, NEW res \in ResultRow,
         send' = [send EXCEPT ![n] = at],
         \/ notification' = notification /\ put = notification[n]
         \/ notification' = [notification EXCEPT ![n] = put] /\ notification[n] = NO!NoRow,
         \/ result' = result /\ res = result[n]
         \/ result' = [result EXCEPT ![n] = res],
         UNCHANGED <<clicked, template, noting>>, Accounted(at, put, res, template)
  PROVE  ResultInv'
<1>1. /\ send' \in [NO!Sends -> SendRow \cup {NO!NotSent}]
      /\ notification' \in [NO!Sends -> NoteRow]
      /\ result' \in [NO!Sends -> ResultRow]
  BY DEF ResultInv
<1>2. \A m \in NO!Sends : notification[m].read => notification'[m].read
  BY DEF ResultInv, NO!NoRow
<1>3. \A m \in NO!Sends : Accounted(send'[m], notification'[m], result'[m], template)
  BY DEF ResultInv
<1>4. ASSUME NEW q \in Requests, noting'[q].op = "click"
      PROVE  noting'[q].id \in NO!Sends /\ notification'[noting'[q].id].read
  <2>1. noting[q].id \in NO!Sends /\ notification[noting[q].id].read BY <1>4 DEF ResultInv
  <2> QED BY <1>2, <2>1
<1>5. \A m \in clicked' : notification'[m].read BY <1>2 DEF ResultInv
<1>6. NO!Sends' = NO!Sends BY DEF NO!Sends
<1>7. /\ template' \in NO!Channels \cup {"none"} /\ DOMAIN noting' = Requests
      /\ clicked' \subseteq NO!Sends
  BY DEF ResultInv
<1>8. \A m \in NO!Sends : Accounted(send'[m], notification'[m], result'[m], template')
  BY <1>3
<1> QED BY <1>1, <1>4, <1>5, <1>6, <1>7, <1>8 DEF ResultInv

LEMMA BegunSend == ASSUME NEW channel \in NO!Channels
  PROVE  /\ NO!Begun(channel) \in SendRow
         /\ \A tpl : Accounted(NO!Begun(channel), NO!NoRow, NO!NoResults, tpl)
<1>1. PICK at : at = NO!Begun(channel) OBVIOUS
<1>2. /\ at \in SendRow /\ at.to = {} /\ at.channel = channel /\ at.failed = 0
      /\ at.pc = IF channel = "sms" THEN "deliver" ELSE "row"
  BY <1>1 DEF NO!Begun, SendRow, SendPcs
<1>3. at # NO!NotSent /\ IsFiniteSet(at.to)
  BY <1>2, FS_EmptySet DEF NO!NotSent
<1>4. \A tpl : Accounted(at, NO!NoRow, NO!NoResults, tpl)
  BY <1>2, <1>3 DEF Accounted
<1> QED BY <1>1, <1>2, <1>4

\* What has not begun has neither row nor result.
LEMMA NotBegun == ASSUME ResultInv, NEW n \in NO!Sends, send[n] = NO!NotSent
  PROVE  notification[n] = NO!NoRow /\ result[n] = NO!NoResults
<1>1. send[n].pc = "none" BY DEF NO!NotSent
<1>2. Accounted(send[n], notification[n], result[n], template) BY DEF ResultInv
<1> QED BY <1>1, <1>2 DEF Accounted

LEMMA ResultDispatch == ASSUME ResultInv, NO!DispatchNext PROVE ResultInv'
<1> USE ServicesAssumption
<1> SUFFICES ASSUME NEW n \in NO!Sends,
               \/ \E channel \in NO!Channels : NO!StartSend(n, channel)
               \/ NO!CreateRow(n) \/ NO!FindTargets(n) \/ NO!RecordSkipped(n)
               \/ send[n].pc = "deliver" /\ \E taken \in SUBSET send[n].to :
                     \E lost \in BOOLEAN : NO!Deliver(n, taken, lost)
               \/ NO!CreateSmsRow(n)
               \/ \E status \in {"sent", "failed"} : NO!RecordResult(n, status)
               \/ NO!Fail(n)
             PROVE ResultInv'
  BY DEF NO!DispatchNext
<1>0. PICK at, put, res : at = send[n] /\ put = notification[n] /\ res = result[n] OBVIOUS
<1>1. Accounted(at, put, res, template) /\ put \in NoteRow /\ res \in ResultRow
  BY <1>0 DEF ResultInv
<1>2. at = NO!NotSent \/ at \in SendRow BY <1>0 DEF ResultInv
<1>3. at.pc # "none" => at \in SendRow /\ at # NO!NotSent BY <1>2 DEF NO!NotSent
<1>4. CASE \E channel \in NO!Channels : NO!StartSend(n, channel)
  <2>1. PICK channel \in NO!Channels : NO!StartSend(n, channel) BY <1>4
  <2>2. /\ send[n] = NO!NotSent /\ send' = [send EXCEPT ![n] = NO!Begun(channel)]
        /\ UNCHANGED <<notification, result, clicked, template, noting>>
    BY <2>1 DEF NO!StartSend, NO!NextOf
  <2>3. Accounted(NO!Begun(channel), put, res, template)
    BY <1>0, <2>2, BegunSend, NotBegun
  <2> QED BY <1>0, <1>1, <2>2, <2>3, BegunSend, ResultMove, Zenon
<1>5. CASE NO!CreateRow(n)
  <2>1. PICK next, row2 : /\ next = [at EXCEPT !.pc = "find"]
                          /\ row2 = [channel |-> at.channel, read |-> FALSE]
    BY Zenon
  <2>2. /\ at.pc = "row" /\ send' = [send EXCEPT ![n] = next]
        /\ notification' = [notification EXCEPT ![n] = row2]
        /\ UNCHANGED <<result, clicked, template, noting>>
    BY <1>0, <1>5, <2>1 DEF NO!CreateRow, ResultInv
  <2>3. next \in SendRow /\ next.pc = "find" /\ next.channel = at.channel /\ next.to = at.to
        /\ next.failed = at.failed
    BY <1>3, <2>1, <2>2 DEF SendRow, SendPcs
  <2>4. row2 \in NoteRow /\ row2 # NO!NoRow
    BY <1>3, <2>1, <2>2 DEF SendRow, NoteRow, NO!NoRow, NO!Channels
  <2>5. Accounted(next, row2, res, template) /\ put = NO!NoRow
    BY <1>1, <1>3, <2>2, <2>3, <2>4 DEF Accounted
  <2> QED BY <1>0, <1>1, <2>2, <2>3, <2>4, <2>5, ResultMove, Zenon
<1>6. CASE NO!FindTargets(n)
  <2>1. PICK active, targets :
          /\ active = {t \in Tokens : device[t].active /\ device[t].user = n[1]}
          /\ targets = IF send[n].channel = "push" THEN active ELSE {n[1]} \cap Emailed
    BY Zenon
  <2>2. PICK to2 : to2 = IF targets = {} THEN "skip" ELSE "deliver" OBVIOUS
  <2>3. PICK next : next = [at EXCEPT !.to = targets, !.pc = to2] OBVIOUS
  <2>4. /\ at.pc = "find" /\ send' = [send EXCEPT ![n] = next]
        /\ UNCHANGED <<notification, result, clicked, template, noting>>
    BY <1>0, <1>6, <2>1, <2>2, <2>3 DEF NO!FindTargets
  <2>5. targets \subseteq Tokens \cup Targets /\ IsFiniteSet(targets)
    <3>1. n[1] \in Targets BY DEF NO!Sends
    <3>2. active \in SUBSET Tokens /\ IsFiniteSet(active) BY <2>1, FS_Subset
    <3>3. {n[1]} \cap Emailed \in SUBSET {n[1]} /\ IsFiniteSet({n[1]}) BY FS_Singleton, Zenon
    <3>4. IsFiniteSet({n[1]} \cap Emailed) BY <3>3, FS_Subset
    <3> QED BY <2>1, <3>1, <3>2, <3>4
  <2>6. next \in SendRow /\ next.pc = to2 /\ next.channel = at.channel /\ next.to = targets
        /\ next.failed = at.failed
    BY <1>3, <2>2, <2>3, <2>4, <2>5, Zenon DEF SendRow, SendPcs
  <2>7. Accounted(next, put, res, template)
    BY <1>1, <1>3, <2>2, <2>4, <2>5, <2>6 DEF Accounted
  <2> QED BY <1>0, <1>1, <2>4, <2>6, <2>7, ResultMove, Zenon
<1>7. CASE NO!RecordSkipped(n)
  <2>1. PICK next, res2 : next = [at EXCEPT !.pc = "done"] /\ res2 = [res EXCEPT !.skipped = @ + 1]
    BY Zenon
  <2>2. /\ at.pc = "skip" /\ send' = [send EXCEPT ![n] = next]
        /\ result' = [result EXCEPT ![n] = res2]
        /\ UNCHANGED <<notification, clicked, template, noting>>
    BY <1>0, <1>7, <2>1 DEF NO!RecordSkipped, ResultInv
  <2>3. next \in SendRow /\ next.pc = "done" /\ next.to = at.to
    BY <1>3, <2>1, <2>2 DEF SendRow, SendPcs
  <2>4. at.to = {} /\ res = NO!NoResults /\ put # NO!NoRow BY <1>1, <2>2 DEF Accounted
  <2>5. res2 = [sent |-> 0, failed |-> 0, skipped |-> 1] BY <2>1, <2>4 DEF NO!NoResults
  <2>6. res2 \in ResultRow /\ res2.sent + res2.failed + res2.skipped = 1 BY <2>5 DEF ResultRow
  <2>7. Accounted(next, put, res2, template)
    BY <1>1, <1>3, <2>2, <2>3, <2>4, <2>6 DEF Accounted, Owed
  <2> QED BY <1>0, <1>1, <2>2, <2>3, <2>6, <2>7, ResultMove, Zenon
<1>8. ASSUME send[n].pc = "deliver", NEW taken \in SUBSET send[n].to, NEW lost \in BOOLEAN,
             NO!Deliver(n, taken, lost)
      PROVE  ResultInv'
  <2>0. at.pc = "deliver" /\ at \in SendRow /\ at # NO!NotSent BY <1>0, <1>3, <1>8
  <2>1. UNCHANGED <<notification, result, clicked, template, noting>>
    BY <1>8, Zenon DEF NO!Deliver
  <2>2. CASE at.channel = "sms"
    <3>1. PICK next : next = [at EXCEPT !.pc = "smsRow", !.sent = 1] OBVIOUS
    <3>2. send' = [send EXCEPT ![n] = next] BY <1>0, <1>8, <2>2, <3>1 DEF NO!Deliver
    <3>3. PICK was : was = at.failed OBVIOUS
    <3>4. next \in SendRow /\ next.pc = "smsRow" /\ next.to = at.to /\ next.sent = 1 /\ next.failed = at.failed
      BY <2>0, <3>1, Zenon DEF SendRow, SendPcs
    <3>5. Accounted(next, put, res, template)
      BY <1>1, <2>0, <2>2, <3>4 DEF Accounted
    <3> QED BY <1>0, <1>1, <2>1, <3>2, <3>4, <3>5, ResultMove, Zenon
  <2>3. CASE at.channel # "sms"
    <3>1. PICK a, b : a = Cardinality(taken) /\ b = Cardinality(at.to \ taken) OBVIOUS
    <3>2. PICK next : next = [at EXCEPT !.pc = "record", !.sent = a, !.failed = b] OBVIOUS
    <3>3. send' = [send EXCEPT ![n] = next]
      BY <1>0, <1>8, <2>3, <3>1, <3>2, SendCounts, Zenon DEF NO!Deliver
    <3>4. IsFiniteSet(at.to) /\ at.to # {} /\ put # NO!NoRow /\ res = NO!NoResults
      BY <1>1, <2>0, <2>3 DEF Accounted
    <3>5. a \in Nat /\ b \in Nat /\ a + b = Cardinality(at.to) /\ Cardinality(at.to) > 0
      <4>1. taken \in SUBSET at.to BY <1>0
      <4>2. IsFiniteSet(taken) /\ IsFiniteSet(at.to \ taken)
        BY <3>4, <4>1, FS_Subset
      <4>3. taken \cap (at.to \ taken) = {} /\ taken \cup (at.to \ taken) = at.to
        BY <4>1
      <4>4. Cardinality(at.to) = a + b - Cardinality({})
        BY <3>1, <4>2, <4>3, FS_Union
      <4>5. Cardinality({}) = 0 /\ Cardinality(at.to) # 0 /\ a \in Nat /\ b \in Nat
            /\ Cardinality(at.to) \in Nat
        BY <3>1, <3>4, <4>2, FS_EmptySet, FS_CardinalityType
      <4> QED BY <4>4, <4>5
    <3>6. /\ next \in SendRow /\ next.pc = "record" /\ next.to = at.to
          /\ next.sent = a /\ next.failed = b
      BY <2>0, <3>2, <3>5, Zenon DEF SendRow, SendPcs
    <3>7. res.sent = 0 /\ res.failed = 0 /\ res.skipped = 0 BY <3>4 DEF NO!NoResults
    <3>8. Accounted(next, put, res, template)
      BY <1>1, <2>0, <3>4, <3>5, <3>6, <3>7 DEF Accounted, Owed
    <3> QED BY <1>0, <1>1, <2>1, <3>3, <3>6, <3>8, ResultMove, Zenon
  <2> QED BY <2>2, <2>3
<1>9. CASE NO!CreateSmsRow(n)
  <2>1. PICK next, row2 : /\ next = [at EXCEPT !.pc = "record"]
                          /\ row2 = [channel |-> "sms", read |-> FALSE]
    BY Zenon
  <2>2. /\ at.pc = "smsRow" /\ send' = [send EXCEPT ![n] = next]
        /\ notification' = [notification EXCEPT ![n] = row2]
        /\ UNCHANGED <<result, clicked, template, noting>>
    BY <1>0, <1>9, <2>1 DEF NO!CreateSmsRow, ResultInv
  <2>3. /\ next \in SendRow /\ next.pc = "record" /\ next.to = at.to
        /\ next.sent = at.sent /\ next.failed = at.failed
    BY <1>3, <2>1, <2>2 DEF SendRow, SendPcs
  <2>4. row2 \in NoteRow /\ row2 # NO!NoRow BY <2>1 DEF NoteRow, NO!NoRow, NO!Channels
  <2>5. at.to = {} /\ res = NO!NoResults /\ put = NO!NoRow /\ at.sent = 1 /\ at.failed = 0
    BY <1>1, <2>2 DEF Accounted
  <2>6. res.sent = 0 /\ res.failed = 0 /\ res.skipped = 0 BY <2>5 DEF NO!NoResults
  <2>7. Accounted(next, row2, res, template)
    BY <1>1, <1>3, <2>2, <2>3, <2>4, <2>5, <2>6 DEF Accounted, Owed
  <2> QED BY <1>0, <1>1, <2>2, <2>3, <2>4, <2>5, <2>7, ResultMove, Zenon
<1>10. ASSUME NEW status \in {"sent", "failed"}, NO!RecordResult(n, status) PROVE ResultInv'
  <2>0. at.pc = "record" /\ at \in SendRow /\ at # NO!NotSent BY <1>0, <1>3, <1>10, Zenon DEF NO!RecordResult
  <2>1. PICK to2 : to2 = IF at.sent + at.failed = 1 THEN "done" ELSE "record" OBVIOUS
  <2>2. PICK next, res2 :
          /\ next = IF status = "sent" THEN [at EXCEPT !.sent = at.sent - 1, !.pc = to2]
                    ELSE [at EXCEPT !.failed = at.failed - 1, !.pc = to2]
          /\ res2 = IF status = "sent" THEN [res EXCEPT !.sent = res.sent + 1]
                    ELSE [res EXCEPT !.failed = res.failed + 1]
    BY Zenon
  <2>3. /\ send' = [send EXCEPT ![n] = next] /\ result' = [result EXCEPT ![n] = res2]
        /\ status = "sent" => at.sent > 0
        /\ status = "failed" => at.failed > 0
        /\ UNCHANGED <<notification, clicked, template, noting>>
    <3>1. CASE status = "sent"
      <4>1. next = [at EXCEPT !["sent"] = @ - 1, !.pc = to2] BY <2>2, <3>1, Zenon
      <4>2. res2 = [res EXCEPT !["sent"] = @ + 1] BY <2>2, <3>1
      <4>3. send' = [send EXCEPT ![n] = next]
        <5>1. PICK gone : gone = [send[n] EXCEPT ![status] = @ - 1,
                 !.pc = IF send[n].sent + send[n].failed = 1 THEN "done" ELSE "record"]
          BY Zenon
        <5>2. send' = [send EXCEPT ![n] = gone] BY <1>10, <5>1, Zenon DEF NO!RecordResult
        <5>3. gone = [at EXCEPT ![status] = @ - 1, !.pc = to2] BY <1>0, <2>1, <5>1, Zenon
        <5>4. gone = next BY <3>1, <4>1, <5>3, Zenon
        <5> QED BY <5>2, <5>4
      <4>4. result' = [result EXCEPT ![n] = res2]
        BY <1>0, <1>10, <3>1, <4>2, Zenon DEF NO!RecordResult, ResultInv
      <4> QED BY <1>0, <1>10, <3>1, <4>3, <4>4, Zenon DEF NO!RecordResult
    <3>2. CASE status = "failed"
      <4>1. next = [at EXCEPT !["failed"] = @ - 1, !.pc = to2] BY <2>2, <3>2, Zenon
      <4>2. res2 = [res EXCEPT !["failed"] = @ + 1] BY <2>2, <3>2
      <4>3. send' = [send EXCEPT ![n] = next]
        <5>1. PICK gone : gone = [send[n] EXCEPT ![status] = @ - 1,
                 !.pc = IF send[n].sent + send[n].failed = 1 THEN "done" ELSE "record"]
          BY Zenon
        <5>2. send' = [send EXCEPT ![n] = gone] BY <1>10, <5>1, Zenon DEF NO!RecordResult
        <5>3. gone = [at EXCEPT ![status] = @ - 1, !.pc = to2] BY <1>0, <2>1, <5>1, Zenon
        <5>4. gone = next BY <3>2, <4>1, <5>3, Zenon
        <5> QED BY <5>2, <5>4
      <4>4. result' = [result EXCEPT ![n] = res2]
        BY <1>0, <1>10, <3>2, <4>2, Zenon DEF NO!RecordResult, ResultInv
      <4> QED BY <1>0, <1>10, <3>2, <4>3, <4>4, Zenon DEF NO!RecordResult
    <3> QED BY <3>1, <3>2
  <2>4. /\ res.skipped = 0 /\ at.sent + at.failed > 0 /\ put # NO!NoRow /\ IsFiniteSet(at.to)
        /\ res.sent + res.failed + at.sent + at.failed = Owed(at)
    BY <1>1, <2>0 DEF Accounted
  <2>5. at.sent \in Nat /\ at.failed \in Nat /\ res.sent \in Nat /\ res.failed \in Nat
    BY <1>1, <2>0 DEF SendRow, ResultRow
  <2>6. /\ next \in SendRow /\ next.pc = to2 /\ next.to = at.to
        /\ res2 \in ResultRow /\ res2.skipped = 0
        /\ next.sent + next.failed = at.sent + at.failed - 1
        /\ res2.sent + res2.failed = res.sent + res.failed + 1
    <3>1. CASE status = "sent"
      <4>1. next = [at EXCEPT !.sent = at.sent - 1, !.pc = to2] /\ at.sent - 1 \in Nat
        BY <2>2, <2>3, <2>5, <3>1
      <4>2. res2 = [res EXCEPT !.sent = res.sent + 1] BY <2>2, <3>1
      <4>3. next \in SendRow /\ next.pc = to2 /\ next.to = at.to /\ next.sent = at.sent - 1
            /\ next.failed = at.failed
        BY <2>0, <2>1, <4>1, Zenon DEF SendRow, SendPcs
      <4>4. res2 \in ResultRow /\ res2.skipped = res.skipped /\ res2.sent = res.sent + 1
            /\ res2.failed = res.failed
        BY <1>1, <2>5, <4>2 DEF ResultRow
      <4> QED BY <2>4, <2>5, <4>3, <4>4
    <3>2. CASE status = "failed"
      <4>1. next = [at EXCEPT !.failed = at.failed - 1, !.pc = to2] /\ at.failed - 1 \in Nat
        BY <2>2, <2>3, <2>5, <3>2
      <4>2. res2 = [res EXCEPT !.failed = res.failed + 1] BY <2>2, <3>2
      <4>3. next \in SendRow /\ next.pc = to2 /\ next.to = at.to /\ next.sent = at.sent
            /\ next.failed = at.failed - 1
        BY <2>0, <2>1, <4>1, Zenon DEF SendRow, SendPcs
      <4>4. res2 \in ResultRow /\ res2.skipped = res.skipped /\ res2.sent = res.sent
            /\ res2.failed = res.failed + 1
        BY <1>1, <2>5, <4>2 DEF ResultRow
      <4> QED BY <2>4, <2>5, <4>3, <4>4
    <3> QED BY <3>1, <3>2
  <2>7. next.sent \in Nat /\ next.failed \in Nat /\ res2.sent \in Nat /\ res2.failed \in Nat
    BY <2>6 DEF SendRow, ResultRow
  <2>8. Owed(next) = Owed(at) BY <2>6 DEF Owed
  <2>9. Owed(at) \in Int BY <2>4, FS_CardinalityType DEF Owed
  <2>10. Accounted(next, put, res2, template)
    BY <1>1, <2>0, <2>1, <2>4, <2>5, <2>6, <2>7, <2>8, <2>9 DEF Accounted
  <2> QED BY <1>0, <1>1, <2>3, <2>6, <2>10, ResultMove, Zenon
<1>11. CASE NO!Fail(n)
  <2>1. PICK next : next = [at EXCEPT !.pc = "failed"] BY Zenon
  <2>2. /\ at.pc # "none" /\ send' = [send EXCEPT ![n] = next]
        /\ UNCHANGED <<notification, result, clicked, template, noting>>
    BY <1>0, <1>11, <2>1 DEF NO!Fail, NO!Busy, ResultInv
  <2>3. next \in SendRow /\ next.pc = "failed" /\ next.to = at.to
    BY <1>3, <2>1, <2>2 DEF SendRow, SendPcs
  <2>4. Accounted(next, put, res, template)
    BY <1>1, <1>3, <2>2, <2>3 DEF Accounted
  <2> QED BY <1>0, <1>1, <2>2, <2>3, <2>4, ResultMove, Zenon
<1> QED BY <1>4, <1>5, <1>6, <1>7, <1>8, <1>9, <1>10, <1>11

\* A campaign begins many sends, each as it would begin on its own.
LEMMA ResultCampaign == ASSUME ResultInv, NO!CampaignNext PROVE ResultInv'
<1> USE ServicesAssumption
<1>0. NO!Sends' = NO!Sends BY DEF NO!Sends
<1>1. ASSUME NEW n \in NO!Sends, NO!StartFromTemplate(n) PROVE ResultInv'
  <2>1. /\ send[n] = NO!NotSent /\ template # "none"
        /\ send' = [send EXCEPT ![n] = NO!Begun(template)]
        /\ UNCHANGED <<notification, result, clicked, template, noting>>
    BY <1>1 DEF NO!StartFromTemplate, NO!NextOf
  <2>2. template \in NO!Channels BY <2>1 DEF ResultInv
  <2>3. PICK put, res : put = notification[n] /\ res = result[n] OBVIOUS
  <2>4. put \in NoteRow /\ res \in ResultRow BY <2>3 DEF ResultInv
  <2>5. Accounted(NO!Begun(template), put, res, template)
    BY <2>1, <2>2, <2>3, BegunSend, NotBegun
  <2> QED BY <2>1, <2>2, <2>3, <2>4, <2>5, BegunSend, ResultMove, Zenon
<1>2. ASSUME NEW n \in NO!Sends, NO!ReadTemplate(n) PROVE ResultInv'
  <2>1. /\ send[n].pc = "template" /\ send' = [send EXCEPT ![n] = NO!Begun(template)]
        /\ UNCHANGED <<notification, result, clicked, template, noting>>
    BY <1>2 DEF NO!ReadTemplate
  <2>2. Accounted(send[n], notification[n], result[n], template) BY DEF ResultInv
  <2>3. template \in NO!Channels BY <2>1, <2>2 DEF ResultInv, Accounted
  <2>4. PICK put, res : put = notification[n] /\ res = result[n] OBVIOUS
  <2>5. put \in NoteRow /\ res \in ResultRow BY <2>4 DEF ResultInv
  <2>6. put = NO!NoRow /\ res = NO!NoResults BY <2>1, <2>2, <2>4 DEF Accounted
  <2>7. Accounted(NO!Begun(template), put, res, template) BY <2>3, <2>6, BegunSend
  <2> QED BY <2>1, <2>3, <2>4, <2>5, <2>7, BegunSend, ResultMove, Zenon
<1>3. ASSUME NEW recipients \in SUBSET Targets, NEW sms \in BOOLEAN, NO!SendCampaign(recipients, sms)
      PROVE  ResultInv'
  <2>1. /\ template # "none" /\ UNCHANGED <<notification, result, clicked, template, noting>>
        /\ send' = [n \in NO!Sends |->
              IF n[1] \notin recipients \/ n \notin NO!NextOf(n[1]) THEN send[n]
              ELSE IF sms \/ template = "sms" THEN NO!Begun("sms")
              ELSE [NO!Begun("push") EXCEPT !.pc = "template"]]
    BY <1>3 DEF NO!SendCampaign
  <2>2. PICK asks : asks = [NO!Begun("push") EXCEPT !.pc = "template"] BY Zenon
  <2>3. asks \in SendRow /\ asks.pc = "template" /\ asks.to = {} /\ asks.channel = "push" /\ asks.failed = 0
    BY <2>2 DEF NO!Begun, SendRow, SendPcs, NO!Channels
  <2>4. Accounted(asks, NO!NoRow, NO!NoResults, template)
    BY <2>1, <2>3, FS_EmptySet DEF Accounted
  <2>5. /\ NO!Begun("sms") \in SendRow
        /\ Accounted(NO!Begun("sms"), NO!NoRow, NO!NoResults, template)
    BY BegunSend DEF NO!Channels
  <2>6. ASSUME NEW n \in NO!Sends
        PROVE  \/ send'[n] = send[n]
               \/ send[n] = NO!NotSent /\ send'[n] \in {asks, NO!Begun("sms")}
    <3>1. CASE n[1] \notin recipients \/ n \notin NO!NextOf(n[1]) BY <2>1, <3>1
    <3>2. CASE n \in NO!NextOf(n[1]) /\ n[1] \in recipients
      <4>1. send[n] = NO!NotSent BY <3>2 DEF NO!NextOf
      <4>2. send'[n] \in {asks, NO!Begun("sms")} BY <2>1, <2>2, <3>2
      <4> QED BY <4>1, <4>2
    <3> QED BY <3>1, <3>2
  <2>7. ASSUME NEW n \in NO!Sends
        PROVE  /\ send'[n] \in SendRow \cup {NO!NotSent}
               /\ Accounted(send'[n], notification[n], result[n], template)
    <3>1. CASE send'[n] = send[n]
      <4>1. PICK at : at = send[n] OBVIOUS
      <4>2. at \in SendRow \cup {NO!NotSent} /\ Accounted(at, notification[n], result[n], template)
        BY <4>1 DEF ResultInv
      <4> QED BY <3>1, <4>1, <4>2
    <3>2. CASE send[n] = NO!NotSent /\ send'[n] \in {asks, NO!Begun("sms")}
      <4>1. notification[n] = NO!NoRow /\ result[n] = NO!NoResults BY <3>2, NotBegun
      <4> QED BY <2>3, <2>4, <2>5, <3>2, <4>1
    <3> QED BY <2>6, <3>1, <3>2
  <2>8. send' \in [NO!Sends -> SendRow \cup {NO!NotSent}]
    <3>1. PICK now2 : now2 = send' OBVIOUS
    <3>2. DOMAIN now2 = NO!Sends /\ now2 = [n \in DOMAIN now2 |-> now2[n]] BY <2>1, <3>1
    <3> QED BY <2>7, <3>1, <3>2
  <2>9. \A n \in NO!Sends : Accounted(send'[n], notification'[n], result'[n], template')
    BY <2>1, <2>7
  <2>10. /\ notification' \in [NO!Sends -> NoteRow] /\ result' \in [NO!Sends -> ResultRow]
         /\ template' \in NO!Channels \cup {"none"} /\ DOMAIN noting' = Requests
         /\ \A q \in Requests : noting'[q].op = "click" =>
               noting'[q].id \in NO!Sends /\ notification'[noting'[q].id].read
         /\ clicked' \subseteq NO!Sends /\ \A n \in clicked' : notification'[n].read
    BY <2>1 DEF ResultInv
  <2> QED BY <1>0, <2>8, <2>9, <2>10 DEF ResultInv
<1>4. ASSUME NEW channel \in NO!Channels, NO!SetTemplate(channel) PROVE ResultInv'
  <2>1. /\ template' = channel /\ channel # "none"
        /\ UNCHANGED <<notification, result, clicked, send, noting>>
    BY <1>4 DEF NO!SetTemplate, NO!Channels
  <2>2. ASSUME NEW n \in NO!Sends PROVE Accounted(send'[n], notification'[n], result'[n], template')
    <3>1. PICK at, put, res, tpl : at = send[n] /\ put = notification[n] /\ res = result[n] /\ tpl = template
      OBVIOUS
    <3>2. Accounted(at, put, res, tpl) BY <3>1 DEF ResultInv
    <3>3. Accounted(at, put, res, channel) BY <2>1, <3>2 DEF Accounted
    <3> QED BY <2>1, <3>1, <3>3
  <2> QED BY <1>0, <2>1, <2>2 DEF ResultInv
<1>5. ASSUME \/ \E t \in Tokens : (\E u \in Targets : NO!RegisterDevice(t, u)) \/ NO!UnregisterDevice(t)
      PROVE  ResultInv'
  <2>1. UNCHANGED <<notification, result, clicked, send, template, noting>>
    BY <1>5 DEF NO!RegisterDevice, NO!UnregisterDevice
  <2> QED BY <1>0, <2>1 DEF ResultInv
<1> QED BY <1>1, <1>2, <1>3, <1>4, <1>5 DEF NO!CampaignNext

\* Rows become read, and stay it.
LEMMA ReadingMoves ==
  ASSUME ResultInv, notification' \in [NO!Sends -> NoteRow],
         \A n \in NO!Sends : /\ notification[n] = NO!NoRow <=> notification'[n] = NO!NoRow
                             /\ notification[n].read => notification'[n].read,
         UNCHANGED <<result, send, template>>, DOMAIN noting' = Requests,
         \A q \in Requests : noting'[q].op = "click" =>
             \/ noting'[q] = noting[q]
             \/ noting'[q].id \in NO!Sends /\ notification'[noting'[q].id].read,
         clicked' \subseteq NO!Sends,
         \A n \in clicked' : n \in clicked \/ notification'[n].read
  PROVE  ResultInv'
<1>1. ASSUME NEW n \in NO!Sends PROVE Accounted(send'[n], notification'[n], result'[n], template')
  <2>1. PICK at, put, put2, res, tpl :
          /\ at = send[n] /\ put = notification[n] /\ put2 = notification'[n]
          /\ res = result[n] /\ tpl = template
    OBVIOUS
  <2>2. Accounted(at, put, res, tpl) /\ (put = NO!NoRow <=> put2 = NO!NoRow) BY <2>1 DEF ResultInv
  <2>3. Accounted(at, put2, res, tpl) BY <2>2 DEF Accounted
  <2> QED BY <2>1, <2>3
<1>2. ASSUME NEW q \in Requests, noting'[q].op = "click"
      PROVE  noting'[q].id \in NO!Sends /\ notification'[noting'[q].id].read
  <2>1. CASE noting'[q] = noting[q]
    <3>1. PICK c, c2 : c = noting[q] /\ c2 = noting'[q] OBVIOUS
    <3>2. c2.op = "click" /\ c = c2 BY <1>2, <2>1, <3>1
    <3>3. c.id \in NO!Sends /\ notification[c.id].read BY <3>1, <3>2, Zenon DEF ResultInv
    <3> QED BY <3>1, <3>2, <3>3
  <2> QED BY <1>2, <2>1
<1>3. \A n \in clicked' : notification'[n].read BY DEF ResultInv
<1>4. NO!Sends' = NO!Sends BY DEF NO!Sends
<1>5. /\ send' \in [NO!Sends -> SendRow \cup {NO!NotSent}] /\ result' \in [NO!Sends -> ResultRow]
      /\ template' \in NO!Channels \cup {"none"}
  BY DEF ResultInv
<1> QED BY <1>1, <1>2, <1>3, <1>4, <1>5 DEF ResultInv

LEMMA ReadRow == ASSUME NEW put \in NoteRow, put # NO!NoRow
  PROVE  /\ [put EXCEPT !.read = TRUE] \in NoteRow /\ [put EXCEPT !.read = TRUE].read
         /\ [put EXCEPT !.read = TRUE] # NO!NoRow
<1>1. PICK seen : seen = [put EXCEPT !.read = TRUE] BY Zenon
<1>2. seen = [channel |-> put.channel, read |-> TRUE] BY <1>1, Zenon DEF NoteRow
<1>3. seen.read BY <1>2
<1>4. seen \in NoteRow BY <1>2 DEF NoteRow
<1>5. seen # NO!NoRow BY <1>2 DEF NO!NoRow
<1> QED BY <1>1, <1>3, <1>4, <1>5

LEMMA ResultReading == ASSUME ResultInv, NO!ReadingNext PROVE ResultInv'
<1>0. /\ clicked \subseteq NO!Sends /\ DOMAIN noting = Requests
      /\ notification \in [NO!Sends -> NoteRow]
  BY DEF ResultInv
<1>1. ASSUME NEW n \in NO!Sends, NO!Exists(n), notification' = [notification EXCEPT ![n].read = TRUE]
      PROVE  /\ notification' \in [NO!Sends -> NoteRow] /\ notification'[n].read
             /\ \A m \in NO!Sends : /\ notification[m] = NO!NoRow <=> notification'[m] = NO!NoRow
                                    /\ notification[m].read => notification'[m].read
  <2>1. PICK seen : seen = [notification[n] EXCEPT !.read = TRUE] BY Zenon
  <2>2. notification' = [notification EXCEPT ![n] = seen] BY <1>1, <2>1
  <2>3. PICK put : put = notification[n] OBVIOUS
  <2>4. put \in NoteRow /\ put # NO!NoRow BY <1>0, <1>1, <2>3 DEF NO!Exists
  <2>5. seen \in NoteRow /\ seen.read /\ seen # NO!NoRow BY <2>1, <2>3, <2>4, ReadRow
  <2> QED BY <1>0, <2>2, <2>3, <2>4, <2>5
<1>2. ASSUME NEW n \in NO!Sends, NO!MarkRead(n) PROVE ResultInv'
  <2>1. /\ NO!Exists(n) /\ notification' = [notification EXCEPT ![n].read = TRUE]
        /\ UNCHANGED <<result, clicked, send, template, noting>>
    BY <1>2 DEF NO!MarkRead
  <2> QED BY <1>0, <1>1, <2>1, ReadingMoves, Zenon
<1>3. ASSUME NEW n \in NO!Sends, NEW q \in Requests, NO!ClickTrack(q, n) PROVE ResultInv'
  <2>1. /\ NO!Exists(n) /\ notification' = [notification EXCEPT ![n].read = TRUE]
        /\ noting' = [noting EXCEPT ![q] = [op |-> "click", id |-> n]]
        /\ UNCHANGED <<result, clicked, send, template>>
    BY <1>3 DEF NO!ClickTrack
  <2>2. notification'[n].read BY <1>1, <2>1, Zenon
  <2>3. \A r \in Requests : \/ noting'[r] = noting[r]
                            \/ noting'[r].id \in NO!Sends /\ notification'[noting'[r].id].read
    BY <1>0, <2>1, <2>2
  <2>4. DOMAIN noting' = Requests BY <1>0, <2>1
  <2> QED BY <1>0, <1>1, <2>1, <2>3, <2>4, ReadingMoves, Zenon
<1>4. ASSUME NEW u \in Targets, NO!MarkAllRead(u) PROVE ResultInv'
  <2>1. /\ notification' = [n \in NO!Sends |-> IF n[1] = u /\ NO!Exists(n)
                               THEN [notification[n] EXCEPT !.read = TRUE] ELSE notification[n]]
        /\ UNCHANGED <<result, clicked, send, template, noting>>
    BY <1>4 DEF NO!MarkAllRead
  <2>2. ASSUME NEW n \in NO!Sends
        PROVE  /\ notification'[n] \in NoteRow
               /\ notification[n] = NO!NoRow <=> notification'[n] = NO!NoRow
               /\ notification[n].read => notification'[n].read
    <3>1. PICK put, put2 : put = notification[n] /\ put2 = notification'[n] OBVIOUS
    <3>2. put2 = IF n[1] = u /\ NO!Exists(n) THEN [put EXCEPT !.read = TRUE] ELSE put
      BY <2>1, <3>1
    <3>3. put \in NoteRow BY <1>0, <3>1
    <3>4. CASE n[1] = u /\ NO!Exists(n)
      <4>1. put # NO!NoRow BY <3>1, <3>4 DEF NO!Exists
      <4>2. put2 \in NoteRow /\ put2.read /\ put2 # NO!NoRow BY <3>2, <3>3, <3>4, <4>1, ReadRow
      <4> QED BY <3>1, <4>1, <4>2
    <3>5. CASE ~(n[1] = u /\ NO!Exists(n)) BY <3>1, <3>2, <3>3, <3>5
    <3> QED BY <3>4, <3>5
  <2>3. notification' \in [NO!Sends -> NoteRow]
    <3>1. PICK now2 : now2 = notification' OBVIOUS
    <3>2. DOMAIN now2 = NO!Sends /\ now2 = [n \in DOMAIN now2 |-> now2[n]] BY <2>1, <3>1
    <3> QED BY <2>2, <3>1, <3>2
  <2> QED BY <1>0, <2>1, <2>2, <2>3, ReadingMoves
<1>5. ASSUME NEW q \in Requests, NO!RecordClick(q) PROVE ResultInv'
  <2>1. /\ noting[q].op = "click" /\ clicked' \in {clicked, clicked \cup {noting[q].id}}
        /\ noting' = [noting EXCEPT ![q] = NO!Idle]
        /\ UNCHANGED <<notification, result, send, template>>
    BY <1>5 DEF NO!RecordClick, NO!End
  <2>2. noting[q].id \in NO!Sends /\ notification[noting[q].id].read BY <2>1 DEF ResultInv
  <2>3. clicked' \subseteq NO!Sends /\ \A n \in clicked' : n \in clicked \/ notification'[n].read
    BY <1>0, <2>1, <2>2
  <2>4. \A r \in Requests : noting'[r].op = "click" => noting'[r] = noting[r]
    BY <1>0, <2>1 DEF NO!Idle
  <2>5. DOMAIN noting' = Requests BY <1>0, <2>1
  <2>6. notification' = notification BY <2>1
  <2> QED BY <1>0, <2>1, <2>3, <2>4, <2>5, <2>6, ReadingMoves
<1> QED BY <1>2, <1>3, <1>4, <1>5 DEF NO!ReadingNext

LEMMA ResultsHold == ASSUME ResultInv PROVE NO!ResultsAccounted
<1> SUFFICES ASSUME NEW n \in NO!Sends
             PROVE  /\ send[n].pc = "done" =>
                         /\ NO!Exists(n)
                         /\ result[n].sent + result[n].failed + result[n].skipped
                              = (IF send[n].to = {} THEN 1 ELSE Cardinality(send[n].to))
                    /\ n \in clicked => notification[n].read
  BY SendCounts DEF NO!ResultsAccounted
<1>1. Accounted(send[n], notification[n], result[n], template) BY DEF ResultInv
<1>2. send[n].pc = "done" => NO!Exists(n) BY <1>1 DEF Accounted, NO!Exists
<1>3. send[n].pc = "done" => result[n].sent + result[n].failed + result[n].skipped
                               = (IF send[n].to = {} THEN 1 ELSE Cardinality(send[n].to))
  BY <1>1 DEF Accounted, Owed
<1>4. n \in clicked => notification[n].read BY DEF ResultInv
<1> QED BY <1>2, <1>3, <1>4

LEMMA ResultStart == ASSUME NO!Init PROVE ResultInv
<1>1. /\ notification = [n \in NO!Sends |-> NO!NoRow] /\ result = [n \in NO!Sends |-> NO!NoResults]
      /\ send = [n \in NO!Sends |-> NO!NotSent] /\ clicked = {} /\ template = "none"
      /\ noting = [q \in Requests |-> NO!Idle]
  BY DEF NO!Init
<1>2. NO!NoRow \in NoteRow BY DEF NO!NoRow, NoteRow
<1>3. NO!NoResults \in ResultRow BY DEF NO!NoResults, ResultRow
<1>4. Accounted(NO!NotSent, NO!NoRow, NO!NoResults, template) BY DEF Accounted, NO!NotSent
<1>5. NO!Idle.op # "click" BY DEF NO!Idle
<1>6. /\ send \in [NO!Sends -> SendRow \cup {NO!NotSent}] /\ notification \in [NO!Sends -> NoteRow]
      /\ result \in [NO!Sends -> ResultRow]
  BY <1>1, <1>2, <1>3
<1>7. \A n \in NO!Sends : Accounted(send[n], notification[n], result[n], template)
  BY <1>1, <1>4
<1>8. \A q \in Requests : noting[q].op # "click" BY <1>1, <1>5
<1> QED BY <1>1, <1>6, <1>7, <1>8 DEF ResultInv

-----------------------------------------------------------------------------
(* Integrations *)

\* What the steps of another part leave as it was created.
NoOutbox == outbox = [w \in Webhooks |-> IG!NotQueued] /\ accepted = [w \in Webhooks |-> 0]

Starting == [op |-> "sync", pc |-> "create"]
SyncCalls == [op : {"sync"}, pc : {"complete", "touch", "fail"}, job : Nat]
JobCall(c) == c.op # "sync" \/ c = Starting \/ c \in SyncCalls
\* A job a request came to the end of runs no longer.
JobKnows(c, jobs) ==
    c \in SyncCalls => /\ c.job \in DOMAIN jobs
                       /\ c.pc = "touch" => jobs[c.job] # "running"
Holds(c, i) == c.op = "sync" /\ c.pc # "create" /\ c.job = i
ConnectorInv ==
    /\ NoOutbox /\ log = <<>>
    /\ DOMAIN linking = Requests /\ sync \in Seq({"running", "completed", "failed"})
    /\ \A q \in Requests : JobCall(linking[q]) /\ JobKnows(linking[q], sync)
    /\ \A i \in DOMAIN sync : sync[i] = "running" => broken \/ \E q \in Requests : Holds(linking[q], i)

\* One request moves on, at most one job with it.
LEMMA ConnectorMove ==
  ASSUME ConnectorInv, NEW q \in Requests, NEW c, JobCall(c), linking' = [linking EXCEPT ![q] = c],
         NoOutbox', log' = <<>>, broken => broken', UNCHANGED sync, JobKnows(c, sync),
         \A i \in DOMAIN sync : Holds(linking[q], i) => Holds(c, i) \/ sync[i] # "running" \/ broken'
  PROVE  ConnectorInv'
<1>1. \A r \in Requests : JobCall(linking'[r]) /\ JobKnows(linking'[r], sync) BY DEF ConnectorInv
<1>2. \A r \in Requests : JobKnows(linking'[r], sync') BY <1>1
<1>3. ASSUME NEW i \in DOMAIN sync, sync[i] = "running", ~broken'
      PROVE  \E r \in Requests : Holds(linking'[r], i)
  <2>1. PICK r \in Requests : Holds(linking[r], i) BY <1>3 DEF ConnectorInv
  <2>2. CASE r = q
    <3>1. Holds(c, i) BY <1>3, <2>1, <2>2
    <3>2. linking'[q] = c BY DEF ConnectorInv
    <3> QED BY <3>1, <3>2
  <2>3. CASE r # q
    <3>1. linking'[r] = linking[r] BY <2>3 DEF ConnectorInv
    <3> QED BY <2>1, <3>1
  <2> QED BY <2>2, <2>3
<1>4. DOMAIN linking' = Requests BY DEF ConnectorInv
<1> QED BY <1>1, <1>2, <1>3, <1>4 DEF ConnectorInv

\* A request settles its job.
LEMMA JobSettled ==
  ASSUME ConnectorInv, NEW q \in Requests, NEW c, JobCall(c), linking' = [linking EXCEPT ![q] = c],
         NoOutbox', log' = <<>>, UNCHANGED broken, linking[q] \in SyncCalls,
         NEW to \in {"completed", "failed"}, sync' = [sync EXCEPT ![linking[q].job] = to],
         c \in SyncCalls => c.job = linking[q].job
  PROVE  ConnectorInv'
<1>1. PICK j : j = linking[q].job OBVIOUS
<1>2. j \in DOMAIN sync BY <1>1 DEF ConnectorInv, JobKnows
<1>3. sync' \in Seq({"running", "completed", "failed"}) /\ DOMAIN sync' = DOMAIN sync
  BY <1>1, <1>2 DEF ConnectorInv
<1>4. sync'[j] = to /\ \A i \in DOMAIN sync : i # j => sync'[i] = sync[i]
  BY <1>1, <1>2 DEF ConnectorInv
<1>5. ASSUME NEW r \in Requests PROVE JobCall(linking'[r]) /\ JobKnows(linking'[r], sync')
  <2>1. PICK d : d = linking'[r] OBVIOUS
  <2>2. JobCall(d) /\ (d \in SyncCalls => d.job \in DOMAIN sync)
    BY <1>1, <1>2, <2>1 DEF ConnectorInv, JobKnows
  <2>3. ASSUME d \in SyncCalls, d.pc = "touch" PROVE sync'[d.job] # "running"
    <3>1. CASE d.job = j BY <1>4, <3>1
    <3>2. CASE d.job # j
      <4>1. r # q BY <1>1, <2>1, <2>3, <3>2 DEF ConnectorInv
      <4>2. d = linking[r] BY <2>1, <4>1 DEF ConnectorInv
      <4>3. sync[d.job] # "running" BY <2>3, <4>2 DEF ConnectorInv, JobKnows
      <4> QED BY <1>4, <2>2, <2>3, <3>2, <4>3
    <3> QED BY <3>1, <3>2
  <2>4. d \in SyncCalls => d.job \in DOMAIN sync' /\ (d.pc = "touch" => sync'[d.job] # "running")
    BY <1>3, <2>2, <2>3
  <2> QED BY <2>1, <2>2, <2>4 DEF JobKnows
<1>6. ASSUME NEW i \in DOMAIN sync', sync'[i] = "running", ~broken'
      PROVE  \E r \in Requests : Holds(linking'[r], i)
  <2>1. i # j /\ sync[i] = "running" BY <1>3, <1>4, <1>6
  <2>2. PICK r \in Requests : Holds(linking[r], i) BY <1>3, <1>6, <2>1 DEF ConnectorInv
  <2>3. r # q BY <1>1, <2>1, <2>2 DEF Holds
  <2>4. linking'[r] = linking[r] BY <2>3 DEF ConnectorInv
  <2> QED BY <2>2, <2>4
<1>7. DOMAIN linking' = Requests BY DEF ConnectorInv
<1> QED BY <1>3, <1>5, <1>6, <1>7, Zenon DEF ConnectorInv

LEMMA ConnectorStep == ASSUME ConnectorInv, IG!ConnectorNext \/ IG!Crash PROVE ConnectorInv'
<1>0. /\ DOMAIN linking = Requests /\ NoOutbox /\ log = <<>>
      /\ sync \in Seq({"running", "completed", "failed"})
  BY DEF ConnectorInv
<1>1. ASSUME IG!Crash PROVE ConnectorInv'
  <2>1. /\ broken' = TRUE /\ linking' = [q \in Requests |-> IG!Idle]
        /\ UNCHANGED <<sync, outbox, accepted, log>>
    BY <1>1 DEF IG!Crash, IG!outboxVars, IG!portalVars
  <2>2. \A q \in Requests : JobCall(linking'[q]) /\ JobKnows(linking'[q], sync')
    BY <2>1 DEF IG!Idle, JobCall, JobKnows, SyncCalls
  <2>3. broken' BY <2>1
  <2>4. DOMAIN linking' = Requests BY <2>1
  <2> QED BY <1>0, <2>1, <2>2, <2>3, <2>4 DEF ConnectorInv, NoOutbox
<1>2. ASSUME NEW q \in Requests, NEW c, c.op # "sync", IG!Begin(q, c),
             UNCHANGED <<sync, outbox, accepted, log, broken>>
      PROVE  ConnectorInv'
  <2>1. linking[q] = IG!Idle /\ linking' = [linking EXCEPT ![q] = c]
    BY <1>2 DEF IG!Begin, IG!Free
  <2>2. JobCall(c) /\ JobKnows(c, sync) BY <1>2 DEF JobCall, JobKnows, SyncCalls
  <2>3. \A i : ~Holds(linking[q], i) BY <2>1 DEF Holds, IG!Idle
  <2>4. NoOutbox' /\ log' = <<>> BY <1>0, <1>2 DEF NoOutbox
  <2> QED BY <1>2, <2>1, <2>2, <2>3, <2>4, ConnectorMove, Zenon
<1>3. ASSUME NEW q \in Requests, linking[q].op # "sync", IG!End(q),
             UNCHANGED <<sync, outbox, accepted, log, broken>>
      PROVE  ConnectorInv'
  <2>1. linking' = [linking EXCEPT ![q] = IG!Idle] BY <1>3 DEF IG!End
  <2>2. JobCall(IG!Idle) /\ JobKnows(IG!Idle, sync) BY DEF JobCall, JobKnows, SyncCalls, IG!Idle
  <2>3. \A i : ~Holds(linking[q], i) BY <1>3 DEF Holds
  <2>4. NoOutbox' /\ log' = <<>> BY <1>0, <1>3 DEF NoOutbox
  <2> QED BY <1>3, <2>1, <2>2, <2>3, <2>4, ConnectorMove, Zenon
<1>4. ASSUME NEW q \in Requests, NEW t \in Connected,
             IG!Connect(q, t) \/ IG!TestConnection(q, t) \/ IG!Disconnect(q, t)
      PROVE  ConnectorInv'
  <2>1. /\ \E op \in {"connect", "test"} : \E ok \in BOOLEAN :
              IG!Begin(q, [op |-> op, pc |-> "store", tenant |-> t, ok |-> ok])
           \/ IG!Begin(q, [op |-> "disconnect", pc |-> "store", tenant |-> t])
        /\ UNCHANGED <<sync, outbox, accepted, log, broken>>
    BY <1>4, Zenon DEF IG!Connect, IG!TestConnection, IG!Disconnect, IG!outboxVars, IG!portalVars,
                IG!connectorVars
  <2>2. PICK c : c.op # "sync" /\ IG!Begin(q, c)
    <3>1. CASE \E op \in {"connect", "test"} : \E ok \in BOOLEAN :
                 IG!Begin(q, [op |-> op, pc |-> "store", tenant |-> t, ok |-> ok])
      <4>1. PICK op \in {"connect", "test"}, ok \in BOOLEAN :
              IG!Begin(q, [op |-> op, pc |-> "store", tenant |-> t, ok |-> ok])
        BY <3>1
      <4>2. PICK c : c = [op |-> op, pc |-> "store", tenant |-> t, ok |-> ok] BY Zenon
      <4> QED BY <4>1, <4>2
    <3>2. CASE IG!Begin(q, [op |-> "disconnect", pc |-> "store", tenant |-> t])
      <4>1. PICK c : c = [op |-> "disconnect", pc |-> "store", tenant |-> t] BY Zenon
      <4> QED BY <3>2, <4>1
    <3> QED BY <2>1, <3>1, <3>2
  <2> QED BY <1>2, <2>1, <2>2
<1>5. ASSUME NEW q \in Requests, NEW t \in Connected, IG!Sync(q, t) PROVE ConnectorInv'
  <2>1. /\ linking[q] = IG!Idle /\ linking' = [linking EXCEPT ![q] = Starting]
        /\ UNCHANGED <<sync, outbox, accepted, log, broken>>
    BY <1>5 DEF IG!Sync, IG!Begin, IG!Free, Starting, IG!outboxVars, IG!portalVars, IG!connectorVars
  <2>2. JobCall(Starting) /\ JobKnows(Starting, sync) BY DEF JobCall, JobKnows, SyncCalls, Starting
  <2>3. \A i : ~Holds(linking[q], i) BY <2>1 DEF Holds, IG!Idle
  <2>4. NoOutbox' /\ log' = <<>> BY <1>0, <2>1 DEF NoOutbox
  <2> QED BY <2>1, <2>2, <2>3, <2>4, ConnectorMove, Zenon
<1>6. ASSUME NEW q \in Requests, IG!StoreConnector(q) \/ IG!StoreDisconnected(q) PROVE ConnectorInv'
  <2>1. /\ linking[q].op # "sync" /\ IG!End(q) /\ UNCHANGED <<sync, outbox, accepted, log, broken>>
    BY <1>6 DEF IG!StoreConnector, IG!StoreDisconnected, IG!At, IG!outboxVars, IG!portalVars
  <2> QED BY <1>3, <2>1
<1>7. ASSUME NEW q \in Requests, IG!CreateJob(q) PROVE ConnectorInv'
  <2>1. PICK n, c : n = Len(sync) + 1 /\ c = [op |-> "sync", pc |-> "complete", job |-> n] BY Zenon
  <2>2. /\ linking[q].op = "sync" /\ linking[q].pc = "create" /\ sync' = Append(sync, "running")
        /\ UNCHANGED <<outbox, accepted, log, broken>>
    BY <1>7 DEF IG!CreateJob, IG!At, IG!outboxVars, IG!portalVars
  <2>3. /\ Len(sync') = n /\ n \in Nat \ {0} /\ DOMAIN sync' = 1..n /\ DOMAIN sync = 1..(n - 1)
        /\ sync' \in Seq({"running", "completed", "failed"})
        /\ \A i \in DOMAIN sync : sync'[i] = sync[i]
    BY <1>0, <2>1, <2>2
  <2>4. linking' = [linking EXCEPT ![q] = c]
    BY <1>7, <2>1, <2>3 DEF IG!CreateJob
  <2>5. c \in SyncCalls /\ Holds(c, n) /\ c.pc = "complete" /\ c.job = n
    BY <2>1, <2>3 DEF SyncCalls, Holds
  <2>6. ASSUME NEW r \in Requests PROVE JobCall(linking'[r]) /\ JobKnows(linking'[r], sync')
    <3>1. PICK d : d = linking'[r] OBVIOUS
    <3>2. CASE r = q
      <4>1. d = c BY <1>0, <2>4, <3>1, <3>2
      <4>2. JobCall(d) /\ d.job \in DOMAIN sync' /\ d.pc # "touch"
        BY <2>3, <2>5, <4>1 DEF JobCall
      <4> QED BY <3>1, <4>2 DEF JobKnows
    <3>3. CASE r # q
      <4>1. d = linking[r] BY <1>0, <2>4, <3>1, <3>3
      <4>2. JobCall(d) /\ JobKnows(d, sync) BY <4>1 DEF ConnectorInv
      <4>3. d \in SyncCalls => d.job \in DOMAIN sync' /\ (d.pc = "touch" => sync'[d.job] # "running")
        BY <2>3, <4>2 DEF JobKnows
      <4> QED BY <3>1, <4>2, <4>3 DEF JobKnows
    <3> QED BY <3>2, <3>3
  <2>7. ASSUME NEW i \in DOMAIN sync', sync'[i] = "running", ~broken'
        PROVE  \E r \in Requests : Holds(linking'[r], i)
    <3>1. CASE i = n
      <4>1. linking'[q] = c BY <1>0, <2>4
      <4> QED BY <2>5, <3>1, <4>1
    <3>2. CASE i # n
      <4>1. i \in DOMAIN sync /\ sync[i] = "running" /\ ~broken BY <2>2, <2>3, <2>7, <3>2
      <4>2. PICK r \in Requests : Holds(linking[r], i) BY <4>1 DEF ConnectorInv
      <4>3. r # q BY <2>2, <4>2 DEF Holds
      <4>4. linking'[r] = linking[r] BY <1>0, <2>4, <4>3
      <4> QED BY <4>2, <4>4
    <3> QED BY <3>1, <3>2
  <2>8. DOMAIN linking' = Requests /\ NoOutbox' /\ log' = <<>>
    BY <1>0, <2>2, <2>4 DEF NoOutbox
  <2> QED BY <2>3, <2>6, <2>7, <2>8 DEF ConnectorInv
<1>8. ASSUME NEW q \in Requests, linking[q].op = "sync", linking[q].pc # "create"
      PROVE  linking[q] \in SyncCalls
  BY <1>8 DEF ConnectorInv, JobCall, Starting
<1>9. ASSUME NEW q \in Requests, NEW pc2 \in {"touch", "fail"}, linking[q] \in SyncCalls
      PROVE  /\ [linking[q] EXCEPT !.pc = pc2] \in SyncCalls
             /\ [linking[q] EXCEPT !.pc = pc2].job = linking[q].job
             /\ [linking[q] EXCEPT !.pc = pc2].pc = pc2
             /\ \A i : Holds(linking[q], i) => Holds([linking[q] EXCEPT !.pc = pc2], i)
  BY <1>9 DEF SyncCalls, Holds
<1>10. ASSUME NEW q \in Requests, IG!CompleteJob(q) PROVE ConnectorInv'
  <2>1. PICK c : c = [linking[q] EXCEPT !.pc = "touch"] BY Zenon
  <2>2. /\ linking[q] \in SyncCalls /\ linking' = [linking EXCEPT ![q] = c]
        /\ UNCHANGED <<outbox, accepted, log, broken>>
    BY <1>8, <1>10, <2>1 DEF IG!CompleteJob, IG!At, IG!Go, IG!outboxVars, IG!portalVars
  <2>5. PICK to \in {"completed", "failed"} : sync' = [sync EXCEPT ![linking[q].job] = to]
    BY <1>10, Zenon DEF IG!CompleteJob
  <2>3. c \in SyncCalls /\ c.job = linking[q].job /\ JobCall(c) BY <1>9, <2>1, <2>2, Zenon DEF JobCall
  <2>4. NoOutbox' /\ log' = <<>> BY <1>0, <2>2 DEF NoOutbox
  <2> QED BY <2>2, <2>3, <2>4, <2>5, JobSettled, Zenon
<1>11. ASSUME NEW q \in Requests, IG!FailJob(q) PROVE ConnectorInv'
  <2>1. /\ linking[q] \in SyncCalls /\ sync' = [sync EXCEPT ![linking[q].job] = "failed"]
        /\ linking' = [linking EXCEPT ![q] = IG!Idle] /\ UNCHANGED <<outbox, accepted, log, broken>>
    BY <1>8, <1>11 DEF IG!FailJob, IG!At, IG!End, IG!outboxVars, IG!portalVars
  <2>2. JobCall(IG!Idle) /\ IG!Idle \notin SyncCalls BY DEF JobCall, SyncCalls, IG!Idle
  <2>3. NoOutbox' /\ log' = <<>> BY <1>0, <2>1 DEF NoOutbox
  <2> QED BY <2>1, <2>2, <2>3, JobSettled, Zenon
<1>12. ASSUME NEW q \in Requests, IG!TouchConnector(q) PROVE ConnectorInv'
  <2>1. /\ linking[q] \in SyncCalls /\ linking[q].pc = "touch"
        /\ linking' = [linking EXCEPT ![q] = IG!Idle] /\ UNCHANGED <<sync, outbox, accepted, log, broken>>
    BY <1>8, <1>12 DEF IG!TouchConnector, IG!At, IG!End, IG!outboxVars, IG!portalVars, IG!connectorVars
  <2>2. JobCall(IG!Idle) /\ JobKnows(IG!Idle, sync) BY DEF JobCall, JobKnows, SyncCalls, IG!Idle
  <2>3. \A i \in DOMAIN sync : Holds(linking[q], i) => sync[i] # "running"
    BY <2>1 DEF ConnectorInv, JobKnows, Holds
  <2>4. NoOutbox' /\ log' = <<>> BY <1>0, <2>1 DEF NoOutbox
  <2> QED BY <2>1, <2>2, <2>3, <2>4, ConnectorMove, Zenon
<1>13. ASSUME NEW q \in Requests, IG!SyncThrows(q) PROVE ConnectorInv'
  <2>1. PICK c : c = [linking[q] EXCEPT !.pc = "fail"] BY Zenon
  <2>2. /\ linking[q] \in SyncCalls /\ linking' = [linking EXCEPT ![q] = c] /\ broken'
        /\ UNCHANGED <<sync, outbox, accepted, log>>
    BY <1>8, <1>13, <2>1 DEF IG!SyncThrows, IG!At, IG!Go, IG!outboxVars, IG!portalVars, IG!connectorVars
  <2>3. c \in SyncCalls /\ c.job = linking[q].job /\ c.pc = "fail" BY <1>9, <2>1, <2>2, Zenon
  <2>4. JobCall(c) /\ JobKnows(c, sync) BY <2>2, <2>3 DEF JobCall, JobKnows, ConnectorInv
  <2>5. NoOutbox' /\ log' = <<>> BY <1>0, <2>2 DEF NoOutbox
  <2> QED BY <2>2, <2>4, <2>5, ConnectorMove, Zenon
<1> QED BY <1>1, <1>4, <1>5, <1>6, <1>7, <1>10, <1>11, <1>12, <1>13 DEF IG!ConnectorNext

LEMMA ConnectorHolds == ASSUME ConnectorInv PROVE IG!OutboxHonest /\ IG!RunningIsHeld
<1>1. IG!OutboxHonest BY DEF ConnectorInv, NoOutbox, IG!OutboxHonest, IG!NotQueued
<1>2. DOMAIN log = {} BY DEF ConnectorInv
<1>3. \A i \in DOMAIN sync : sync[i] = "running" => broken \/ \E q \in Requests :
         linking[q].op = "sync" /\ linking[q].pc # "create" /\ linking[q].job = i
  BY DEF ConnectorInv, Holds
<1> QED BY <1>1, <1>2, <1>3 DEF IG!RunningIsHeld

\* The requests of a paced behaviour take their turns.
Turns == solo => \A q, r \in Requests : linking[q] # IG!Idle /\ linking[r] # IG!Idle => q = r

\* Requests take their turns and nothing has failed.
Sober == solo /\ ~broken
DrainPcs == {"post", "delivered", "retry"}
IsDrain(c) ==
    \E at \in DrainPcs : \E left \in SUBSET Webhooks : \E id, tries :
        c = [op |-> "drain", pc |-> at, left |-> left, id |-> id, attempts |-> tries]
Delivering(c, w) == c.op = "drain" /\ c.pc = "delivered" /\ c.id = w
\* What a drain knows of the row it posted, and with the outbox to itself of
\* those it has still to post.
DrainKnows(c, hooks, took, sober) ==
    c.op = "drain" =>
       /\ c.pc # "post" => c.id \in Webhooks
       /\ c.pc = "delivered" => took[c.id] > 0
       /\ sober => /\ \A w \in c.left : hooks[w].status = "pending"
                   /\ c.pc # "post" => c.id \notin c.left /\ hooks[c.id].status = "pending"
                   /\ c.pc = "delivered" => took[c.id] = 1
\* A row says what became of the webhook, and with the outbox to itself only
\* one being delivered was taken before it says so.
OutboxRow(w, at, took, held, sober) ==
    /\ at.status = "delivered" => took > 0
    /\ at.status = "failed" => at.attempts >= IG!MaxAttempts
    /\ sober => took <= 1 /\ (at.status # "delivered" /\ ~held => took = 0)
HeldBy(calls, w) == \E q \in Requests : Delivering(calls[q], w)
OutboxInv ==
    /\ sync = <<>> /\ log = <<>>
    /\ DOMAIN linking = Requests /\ DOMAIN outbox = Webhooks /\ accepted \in [Webhooks -> Nat]
    /\ Turns /\ due \subseteq Webhooks
    /\ \A q \in Requests : /\ linking[q] = IG!Idle \/ IsDrain(linking[q])
                           /\ DrainKnows(linking[q], outbox, accepted, Sober)
    /\ \A w \in Webhooks : OutboxRow(w, outbox[w], accepted[w], HeldBy(linking, w), Sober)

\* A drain moves on, with the row of one webhook at most.
LEMMA OutboxMove ==
  ASSUME OutboxInv, NEW q \in Requests, NEW c, c = IG!Idle \/ IsDrain(c),
         linking' = [linking EXCEPT ![q] = c], linking[q] # IG!Idle,
         UNCHANGED <<sync, log, solo>>, broken => broken', due' \subseteq Webhooks,
         NEW hooks, NEW took, outbox' = hooks, accepted' = took,
         DOMAIN hooks = Webhooks, took \in [Webhooks -> Nat], \A v \in Webhooks : took[v] >= accepted[v],
         DrainKnows(c, hooks, took, Sober'),
         \A v \in Webhooks : OutboxRow(v, hooks[v], took[v], Delivering(c, v), Sober')
                             \/ (hooks[v] = outbox[v] /\ took[v] = accepted[v] /\ ~Delivering(linking[q], v))
  PROVE  OutboxInv'
<1>1. Sober' => Sober BY DEF Sober
<1>2. /\ linking'[q] = c /\ \A r \in Requests : r # q => linking'[r] = linking[r]
      /\ DOMAIN linking' = Requests
  BY DEF OutboxInv
<1>3. Turns' BY <1>2 DEF Turns, OutboxInv
<1>4. ASSUME NEW r \in Requests
      PROVE  /\ linking'[r] = IG!Idle \/ IsDrain(linking'[r])
             /\ DrainKnows(linking'[r], hooks, took, Sober')
  <2>1. CASE r = q BY <1>2, <2>1
  <2>2. CASE r # q
    <3>1. PICK d : d = linking[r] OBVIOUS
    <3>2. linking'[r] = d BY <1>2, <2>2, <3>1
    <3>3. (d = IG!Idle \/ IsDrain(d)) /\ DrainKnows(d, outbox, accepted, Sober)
      BY <3>1 DEF OutboxInv
    <3>4. Sober' => d = IG!Idle BY <1>1, <2>2, <3>1 DEF Turns, OutboxInv, Sober
    <3>5. ASSUME d.op = "drain" PROVE DrainKnows(d, hooks, took, Sober')
      <4>1. ~Sober' BY <3>4, <3>5 DEF IG!Idle
      <4>2. /\ d.pc # "post" => d.id \in Webhooks
            /\ d.pc = "delivered" => accepted[d.id] > 0
        BY <3>3, <3>5 DEF DrainKnows
      <4>3. ASSUME d.pc = "delivered" PROVE took[d.id] > 0
        <5>1. d.id \in Webhooks /\ accepted[d.id] > 0 BY <4>2, <4>3
        <5>2. took[d.id] \in Nat /\ accepted[d.id] \in Nat BY <5>1 DEF OutboxInv
        <5> QED BY <5>1, <5>2
      <4> QED BY <4>1, <4>2, <4>3 DEF DrainKnows
    <3>6. DrainKnows(d, hooks, took, Sober') BY <3>5 DEF DrainKnows
    <3> QED BY <3>2, <3>3, <3>6
  <2> QED BY <2>1, <2>2
<1>5. ASSUME NEW v \in Webhooks
      PROVE  OutboxRow(v, hooks[v], took[v], HeldBy(linking', v), Sober')
  <2>1. CASE OutboxRow(v, hooks[v], took[v], Delivering(c, v), Sober')
    <3>1. Delivering(c, v) => HeldBy(linking', v) BY <1>2 DEF HeldBy
    <3> QED BY <2>1, <3>1 DEF OutboxRow
  <2>2. CASE hooks[v] = outbox[v] /\ took[v] = accepted[v] /\ ~Delivering(linking[q], v)
    <3>1. OutboxRow(v, hooks[v], took[v], HeldBy(linking, v), Sober) BY <2>2 DEF OutboxInv
    <3>2. HeldBy(linking, v) => HeldBy(linking', v) BY <1>2, <2>2 DEF HeldBy
    <3> QED BY <1>1, <3>1, <3>2 DEF OutboxRow
  <2> QED BY <2>1, <2>2
<1>6. sync' = <<>> /\ log' = <<>> BY DEF OutboxInv
<1>7. \A r \in Requests : /\ linking'[r] = IG!Idle \/ IsDrain(linking'[r])
                          /\ DrainKnows(linking'[r], outbox', accepted', Sober')
  BY <1>4
<1>8. \A v \in Webhooks : OutboxRow(v, outbox'[v], accepted'[v], HeldBy(linking', v), Sober') BY <1>5, Zenon
<1>9. DOMAIN outbox' = Webhooks /\ accepted' \in [Webhooks -> Nat] OBVIOUS
<1> QED BY <1>2, <1>3, <1>6, <1>7, <1>8, <1>9, Zenon DEF OutboxInv

\* With the outbox to itself a drain is the one that delivers.
LEMMA OneDrains ==
  ASSUME OutboxInv, NEW q \in Requests, linking[q] # IG!Idle, NEW w \in Webhooks
  PROVE  Sober => (HeldBy(linking, w) <=> Delivering(linking[q], w))
<1> SUFFICES ASSUME Sober PROVE HeldBy(linking, w) <=> Delivering(linking[q], w)
  OBVIOUS
<1>1. ASSUME NEW r \in Requests, Delivering(linking[r], w) PROVE r = q
  <2>1. linking[r] # IG!Idle BY <1>1 DEF Delivering, IG!Idle
  <2> QED BY <2>1 DEF Turns, OutboxInv, Sober
<1> QED BY <1>1 DEF HeldBy

LEMMA DrainAdvances ==
  ASSUME NEW c, IsDrain(c), NEW at \in DrainPcs, NEW d, d = [c EXCEPT !.pc = at]
  PROVE  IsDrain(d) /\ d.pc = at /\ d.left = c.left /\ d.id = c.id /\ d.op = "drain"
<1>1. PICK was \in DrainPcs : \E left \in SUBSET Webhooks : \E id, tries :
        c = [op |-> "drain", pc |-> was, left |-> left, id |-> id, attempts |-> tries]
  BY Zenon DEF IsDrain
<1>2. PICK left \in SUBSET Webhooks : \E id, tries :
        c = [op |-> "drain", pc |-> was, left |-> left, id |-> id, attempts |-> tries]
  BY <1>1, Zenon
<1>3. PICK id, tries :
        c = [op |-> "drain", pc |-> was, left |-> left, id |-> id, attempts |-> tries]
  BY <1>2, Zenon
<1>5. d = [op |-> "drain", pc |-> at, left |-> left, id |-> id, attempts |-> tries]
  BY <1>3
<1>6. IsDrain(d) BY <1>5, Zenon DEF IsDrain
<1>7. d.pc = at /\ d.left = c.left /\ d.id = c.id /\ d.op = "drain" BY <1>3, <1>5
<1> QED BY <1>6, <1>7

LEMMA OutboxStep == ASSUME OutboxInv, IG!OutboxNext \/ IG!Crash, UNCHANGED solo PROVE OutboxInv'
<1>0. /\ DOMAIN linking = Requests /\ sync = <<>> /\ log = <<>> /\ Turns
      /\ DOMAIN outbox = Webhooks /\ accepted \in [Webhooks -> Nat]
      /\ due \subseteq Webhooks
  BY DEF OutboxInv
<1>1. ASSUME IG!Crash PROVE OutboxInv'
  <2>1. /\ broken' /\ linking' = [q \in Requests |-> IG!Idle]
        /\ UNCHANGED <<sync, outbox, due, accepted, log>>
    BY <1>1 DEF IG!Crash, IG!outboxVars, IG!portalVars
  <2>2. ~Sober' BY <2>1 DEF Sober
  <2>3. \A q \in Requests : linking'[q] = IG!Idle BY <2>1
  <2>4. \A q \in Requests : DrainKnows(linking'[q], outbox', accepted', Sober')
    BY <2>3 DEF DrainKnows, IG!Idle
  <2>5. ASSUME NEW w \in Webhooks
        PROVE  OutboxRow(w, outbox'[w], accepted'[w], HeldBy(linking', w), Sober')
    <3>1. OutboxRow(w, outbox[w], accepted[w], HeldBy(linking, w), Sober) BY DEF OutboxInv
    <3> QED BY <2>1, <2>2, <3>1 DEF OutboxRow
  <2>6. Turns' BY <2>3 DEF Turns
  <2>7. DOMAIN linking' = Requests BY <2>1
  <2> QED BY <1>0, <2>1, <2>3, <2>4, <2>5, <2>6, <2>7 DEF OutboxInv
<1>2. ASSUME NEW w \in Webhooks, IG!QueueWebhook(w) PROVE OutboxInv'
  <2>1. PICK fresh : fresh = [IG!NotQueued EXCEPT !.status = "pending"] BY Zenon
  <2>2. fresh.status = "pending" BY <2>1 DEF IG!NotQueued
  <2>3. /\ outbox[w] = IG!NotQueued /\ outbox' = [outbox EXCEPT ![w] = fresh]
        /\ due' = due \cup {w} /\ UNCHANGED <<accepted, sync, log, broken, linking>>
    BY <1>2, <2>1 DEF IG!QueueWebhook, IG!connectorVars, IG!portalVars
  <2>4. Sober' = Sober BY <2>3 DEF Sober
  <2>5. ASSUME NEW q \in Requests PROVE DrainKnows(linking'[q], outbox', accepted', Sober')
    <3>1. PICK d : d = linking[q] OBVIOUS
    <3>2. DrainKnows(d, outbox, accepted, Sober) /\ (d = IG!Idle \/ IsDrain(d)) BY <3>1 DEF OutboxInv
    <3>3. d.op = "drain" => d.left \in SUBSET Webhooks
      <4>1. IsDrain(d) => d.left \in SUBSET Webhooks BY DEF IsDrain
      <4> QED BY <3>2, <4>1 DEF IG!Idle
    <3>4. \A v \in Webhooks : outbox[v].status = "pending" => outbox'[v].status = "pending"
      BY <1>0, <2>2, <2>3
    <3>5. DrainKnows(d, outbox', accepted, Sober) BY <3>2, <3>3, <3>4 DEF DrainKnows
    <3> QED BY <2>3, <2>4, <3>1, <3>5
  <2>6. ASSUME NEW v \in Webhooks
        PROVE  OutboxRow(v, outbox'[v], accepted'[v], HeldBy(linking', v), Sober')
    <3>1. PICK was, is, took, held : /\ was = outbox[v] /\ is = outbox'[v] /\ took = accepted[v]
                                     /\ held = HeldBy(linking, v)
      OBVIOUS
    <3>2. OutboxRow(v, was, took, held, Sober) BY <3>1 DEF OutboxInv
    <3>3. is = was \/ (is.status = "pending" /\ was.status = "none")
      BY <1>0, <2>2, <2>3, <3>1 DEF IG!NotQueued
    <3>4. OutboxRow(v, is, took, held, Sober) BY <3>2, <3>3 DEF OutboxRow
    <3> QED BY <2>3, <2>4, <3>1, <3>4
  <2>7. DOMAIN outbox' = Webhooks BY <1>0, <2>3
  <2>8. Turns' BY <1>0, <2>3 DEF Turns
  <2>9. \A q \in Requests : linking'[q] = IG!Idle \/ IsDrain(linking'[q]) BY <2>3 DEF OutboxInv
  <2> QED BY <1>0, <2>3, <2>5, <2>6, <2>7, <2>8, <2>9, Zenon DEF OutboxInv
<1>3. ASSUME NEW w \in Webhooks, IG!RetryTime(w) PROVE OutboxInv'
  <2>1. due' = due \cup {w} /\ UNCHANGED <<outbox, accepted, sync, log, broken, linking>>
    BY <1>3 DEF IG!RetryTime, IG!connectorVars, IG!portalVars
  <2>2. Sober' = Sober BY <2>1 DEF Sober
  <2> QED BY <2>1, <2>2 DEF OutboxInv, Turns
<1>4. ASSUME NEW q \in Requests, IG!Drain(q) PROVE OutboxInv'
  <2>1. PICK batch, tries : /\ batch = {w \in due : outbox[w].status = "pending"
                                           /\ outbox[w].attempts < IG!MaxAttempts}
                            /\ tries = [w \in batch |-> outbox[w].attempts]
    BY Zenon
  <2>2. PICK c : c = [op |-> "drain", pc |-> "post", left |-> batch, id |-> "none", attempts |-> tries]
    BY Zenon
  <2>3. /\ linking[q] = IG!Idle /\ linking' = [linking EXCEPT ![q] = c]
        /\ solo => \A r \in Requests : linking[r] = IG!Idle
        /\ UNCHANGED <<outbox, due, accepted, sync, log, broken>>
    BY <1>4, <2>1, <2>2 DEF IG!Drain, IG!Begin, IG!Free, IG!connectorVars, IG!portalVars, IG!outboxVars
  <2>4. Sober' = Sober BY <2>3 DEF Sober
  <2>5. batch \in SUBSET Webhooks /\ "post" \in DrainPcs BY <1>0, <2>1 DEF DrainPcs
  <2>6. IsDrain(c) BY <2>2, <2>5, Zenon DEF IsDrain
  <2>7. c.op = "drain" /\ c.pc = "post" /\ c.left = batch BY <2>2
  <2>8. DrainKnows(c, outbox, accepted, Sober) BY <2>1, <2>7 DEF DrainKnows
  <2>9. linking'[q] = c /\ \A r \in Requests : r # q => linking'[r] = linking[r] BY <1>0, <2>3
  <2>10. Turns' BY <2>3, <2>9 DEF Turns
  <2>11. \A r \in Requests : /\ linking'[r] = IG!Idle \/ IsDrain(linking'[r])
                             /\ DrainKnows(linking'[r], outbox', accepted', Sober')
    BY <2>3, <2>4, <2>6, <2>8, <2>9 DEF OutboxInv
  <2>12. ASSUME NEW w \in Webhooks PROVE HeldBy(linking', w) <=> HeldBy(linking, w)
    <3>1. ~Delivering(c, w) /\ ~Delivering(linking[q], w) BY <2>3, <2>7 DEF Delivering, IG!Idle
    <3>2. \A r \in Requests : Delivering(linking'[r], w) <=> Delivering(linking[r], w)
      BY <2>9, <3>1
    <3> QED BY <3>2 DEF HeldBy
  <2>13. ASSUME NEW w \in Webhooks
         PROVE  OutboxRow(w, outbox'[w], accepted'[w], HeldBy(linking', w), Sober')
    <3>1. OutboxRow(w, outbox[w], accepted[w], HeldBy(linking, w), Sober) BY DEF OutboxInv
    <3> QED BY <2>3, <2>4, <2>12, <3>1, Zenon DEF OutboxRow
  <2>14. DOMAIN linking' = Requests BY <1>0, <2>3
  <2> QED BY <1>0, <2>3, <2>10, <2>11, <2>13, <2>14, Zenon DEF OutboxInv
<1>5. ASSUME NEW q \in Requests, linking[q].op = "drain"
      PROVE  /\ IsDrain(linking[q]) /\ linking[q] # IG!Idle
             /\ DrainKnows(linking[q], outbox, accepted, Sober)
  BY <1>5 DEF OutboxInv, IG!Idle
<1>6. ASSUME NEW q \in Requests, NEW w \in Webhooks, NEW ok \in BOOLEAN, IG!Post(q, w, ok)
      PROVE  OutboxInv'
  <2>1. PICK at, took : /\ at = IF ok THEN "delivered" ELSE "retry"
                        /\ took = IF ok THEN [accepted EXCEPT ![w] = @ + 1] ELSE accepted
    BY Zenon
  <2>0. PICK c, rest : c = linking[q] /\ rest = c.left \ {w} BY Zenon
  <2>2. PICK d : c = linking[q] /\ d = [c EXCEPT !.id = w, !.left = rest, !.pc = at]
    BY <2>0
  <2>3. /\ c.op = "drain" /\ c.pc = "post" /\ w \in c.left /\ accepted' = took
        /\ UNCHANGED <<outbox, due, sync, log, broken>>
    BY <1>6, <2>1, <2>2 DEF IG!Post, IG!At, IG!connectorVars, IG!portalVars
  <2>4. linking' = [linking EXCEPT ![q] = d] BY <1>6, <2>0, <2>1, <2>2 DEF IG!Post
  <2>5. IsDrain(c) /\ linking[q] # IG!Idle /\ DrainKnows(c, outbox, accepted, Sober)
    BY <1>5, <2>2, <2>3
  <2>6. at \in DrainPcs /\ at # "post" BY <2>1 DEF DrainPcs
  <2>7. IsDrain(d) /\ d.op = "drain" /\ d.id = w /\ d.left = c.left \ {w} /\ d.pc = at
    <3>1. PICK was \in DrainPcs : \E left \in SUBSET Webhooks : \E id, tries :
            c = [op |-> "drain", pc |-> was, left |-> left, id |-> id, attempts |-> tries]
      BY <2>5, Zenon DEF IsDrain
    <3>2. PICK left \in SUBSET Webhooks : \E id, tries :
            c = [op |-> "drain", pc |-> was, left |-> left, id |-> id, attempts |-> tries]
      BY <3>1, Zenon
    <3>3. PICK id, tries :
            c = [op |-> "drain", pc |-> was, left |-> left, id |-> id, attempts |-> tries]
      BY <3>2, Zenon
    <3>4. left = c.left BY <3>3
    <3>5. rest \in SUBSET Webhooks BY <2>0, <3>4
    <3>6. d = [op |-> "drain", pc |-> at, left |-> rest, id |-> w, attempts |-> tries]
      <4>1. PICK one : one = [c EXCEPT !.id = w] BY Zenon
      <4>2. PICK two : two = [one EXCEPT !.left = rest] BY Zenon
      <4>3. one = [op |-> "drain", pc |-> was, left |-> left, id |-> w, attempts |-> tries]
        BY <3>3, <4>1
      <4>4. two = [op |-> "drain", pc |-> was, left |-> rest, id |-> w, attempts |-> tries]
        BY <4>2, <4>3
      <4>5. d = [two EXCEPT !.pc = at] BY <2>2, <3>3, <4>1, <4>2, <4>3, <4>4
      <4> QED BY <4>4, <4>5
    <3>7. IsDrain(d) BY <2>6, <3>5, <3>6, Zenon DEF IsDrain
    <3> QED BY <2>0, <3>6, <3>7
  <2>8. Sober' = Sober BY <2>3 DEF Sober
  <2>9. took \in [Webhooks -> Nat] /\ took[w] = (IF ok THEN accepted[w] + 1 ELSE accepted[w])
        /\ \A v \in Webhooks : v # w => took[v] = accepted[v]
    BY <1>0, <2>1
  <2>10. accepted[w] \in Nat BY <1>0
  <2>11. \A v \in Webhooks : took[v] >= accepted[v]
    <3> TAKE v \in Webhooks
    <3>1. accepted[v] \in Nat BY <1>0
    <3> QED BY <2>9, <3>1
  <2>12. c.left \subseteq Webhooks BY <2>5 DEF IsDrain
  <2>13. Sober => outbox[w].status = "pending" /\ accepted[w] = 0
    <3> SUFFICES ASSUME Sober PROVE outbox[w].status = "pending" /\ accepted[w] = 0
      OBVIOUS
    <3>1. outbox[w].status = "pending" BY <2>3, <2>5 DEF DrainKnows
    <3>2. ~Delivering(linking[q], w) BY <2>2, <2>3 DEF Delivering
    <3>3. ~HeldBy(linking, w) BY <2>5, <3>2, OneDrains
    <3>4. OutboxRow(w, outbox[w], accepted[w], HeldBy(linking, w), Sober) BY Zenon DEF OutboxInv
    <3> QED BY <3>1, <3>3, <3>4 DEF OutboxRow
  <2>14. DrainKnows(d, outbox, took, Sober')
    <3>1. d.pc # "post" => d.id \in Webhooks BY <2>7
    <3>2. ASSUME d.pc = "delivered" PROVE took[d.id] > 0 /\ (Sober => took[d.id] = 1)
      <4>1. ok BY <2>1, <2>7, <3>2
      <4> QED BY <2>7, <2>9, <2>10, <2>13, <4>1
    <3>3. Sober => \A v \in d.left : outbox[v].status = "pending"
      BY <2>3, <2>5, <2>7 DEF DrainKnows
    <3>4. Sober => d.id \notin d.left /\ outbox[d.id].status = "pending" BY <2>7, <2>13
    <3> QED BY <2>8, <3>1, <3>2, <3>3, <3>4 DEF DrainKnows
  <2>15. ASSUME NEW v \in Webhooks
         PROVE  \/ OutboxRow(v, outbox[v], took[v], Delivering(d, v), Sober')
                \/ (outbox[v] = outbox[v] /\ took[v] = accepted[v] /\ ~Delivering(linking[q], v))
    <3>1. CASE v # w BY <2>2, <2>3, <2>9, <3>1 DEF Delivering
    <3>2. CASE v = w
      <4>1. OutboxRow(w, outbox[w], accepted[w], HeldBy(linking, w), Sober) BY DEF OutboxInv
      <4>2. Delivering(d, w) <=> ok BY <2>1, <2>7 DEF Delivering
      <4>3. PICK a, b, row2 : a = accepted[w] /\ b = took[w] /\ row2 = outbox[w] OBVIOUS
      <4>4. b = (IF ok THEN a + 1 ELSE a) /\ a \in Nat /\ (Sober => a = 0)
        BY <2>9, <2>10, <2>13, <4>3
      <4>5. row2.status = "delivered" => b > 0 BY <4>1, <4>3, <4>4 DEF OutboxRow
      <4>6. row2.status = "failed" => row2.attempts >= IG!MaxAttempts BY <4>1, <4>3 DEF OutboxRow
      <4>7. Sober => b <= 1 /\ (~ok => b = 0) BY <4>4
      <4> QED BY <2>8, <3>2, <4>2, <4>3, <4>5, <4>6, <4>7 DEF OutboxRow
    <3> QED BY <3>1, <3>2
  <2>17. outbox' = outbox /\ due' \subseteq Webhooks BY <1>0, <2>3
  <2> QED BY <1>0, <2>3, <2>4, <2>5, <2>7, <2>9, <2>11, <2>14, <2>15, <2>17, OutboxMove, Zenon
<1>8. ASSUME NEW q \in Requests, linking[q].op = "drain", IG!Advance(q)
      PROVE  \E d : /\ linking' = [linking EXCEPT ![q] = d]
                    /\ d = IG!Idle \/ (IsDrain(d) /\ d.pc = "post" /\ d.left = linking[q].left)
  <2>1. PICK c, on : c = linking[q] /\ on = [c EXCEPT !.pc = "post"] BY Zenon
  <2>2. IsDrain(c) BY <1>5, <1>8, <2>1
  <2>3. IsDrain(on) /\ on.pc = "post" /\ on.left = c.left
    BY <2>1, <2>2, DrainAdvances DEF DrainPcs
  <2>4. linking' = [linking EXCEPT ![q] = IG!Idle] \/ linking' = [linking EXCEPT ![q] = on]
    BY <1>0, <1>8, <2>1 DEF IG!Advance, IG!End, IG!Go
  <2> QED BY <2>1, <2>3, <2>4, Zenon
<1>9. ASSUME NEW q \in Requests, IG!RecordDelivered(q) PROVE OutboxInv'
  <2>1. PICK c : c = linking[q] OBVIOUS
  <2>2. /\ c.op = "drain" /\ c.pc = "delivered" /\ IG!Advance(q)
        /\ UNCHANGED <<due, accepted, sync, log, broken>>
    BY <1>9, <2>1 DEF IG!RecordDelivered, IG!At, IG!connectorVars, IG!portalVars
  <2>3. IsDrain(c) /\ linking[q] # IG!Idle /\ DrainKnows(c, outbox, accepted, Sober)
    BY <1>5, <2>1, <2>2
  <2>4. PICK w, done : w = c.id /\ done = [status |-> "delivered", attempts |-> outbox[w].attempts + 1]
    BY Zenon
  <2>5. PICK hooks : hooks = [outbox EXCEPT ![w] = done] BY Zenon
  <2>6. outbox' = hooks
    BY <1>9, <2>1, <2>4, <2>5 DEF IG!RecordDelivered
  <2>7. w \in Webhooks /\ accepted[w] > 0 /\ accepted[w] \in Nat
        /\ (Sober => accepted[w] = 1 /\ w \notin c.left)
    BY <1>0, <2>2, <2>3, <2>4 DEF DrainKnows
  <2>8. DOMAIN hooks = Webhooks /\ hooks[w] = done /\ \A v \in Webhooks : v # w => hooks[v] = outbox[v]
    BY <1>0, <2>5, <2>7
  <2>9. PICK d : /\ linking' = [linking EXCEPT ![q] = d]
                 /\ d = IG!Idle \/ (IsDrain(d) /\ d.pc = "post" /\ d.left = c.left)
    BY <1>8, <2>1, <2>2
  <2>10. Sober' = Sober BY <2>2 DEF Sober
  <2>11. c.left \subseteq Webhooks BY <2>3 DEF IsDrain
  <2>12. DrainKnows(d, hooks, accepted, Sober')
    <3>1. CASE d = IG!Idle BY <3>1 DEF DrainKnows, IG!Idle
    <3>2. CASE d.pc = "post" /\ d.left = c.left
      <4>1. Sober => \A v \in c.left : hooks[v].status = "pending"
        BY <2>2, <2>3, <2>7, <2>8, <2>11 DEF DrainKnows
      <4> QED BY <2>10, <3>2, <4>1 DEF DrainKnows
    <3> QED BY <2>9, <3>1, <3>2
  <2>13. \A v : ~Delivering(d, v) BY <2>9 DEF Delivering, IG!Idle
  <2>14. ASSUME NEW v \in Webhooks
         PROVE  \/ OutboxRow(v, hooks[v], accepted[v], Delivering(d, v), Sober')
                \/ (hooks[v] = outbox[v] /\ accepted[v] = accepted[v] /\ ~Delivering(linking[q], v))
    <3>1. CASE v # w BY <2>1, <2>4, <2>8, <3>1 DEF Delivering
    <3>2. CASE v = w
      <4>1. done.status = "delivered" BY <2>4
      <4>2. OutboxRow(w, done, accepted[w], FALSE, Sober)
        BY <2>7, <4>1 DEF OutboxRow
      <4> QED BY <2>8, <2>10, <2>13, <3>2, <4>2 DEF OutboxRow
    <3> QED BY <3>1, <3>2
  <2>15. \A v \in Webhooks : accepted[v] >= accepted[v]
    <3> TAKE v \in Webhooks
    <3>1. accepted[v] \in Nat BY <1>0
    <3> QED BY <3>1
  <2> QED BY <1>0, <2>2, <2>3, <2>6, <2>8, <2>9, <2>12, <2>14, <2>15, OutboxMove, Zenon
<1>10. ASSUME NEW q \in Requests, IG!DeliveredNotRecorded(q) PROVE OutboxInv'
  <2>1. PICK c, d : c = linking[q] /\ d = [c EXCEPT !.pc = "retry"] BY Zenon
  <2>2. /\ c.op = "drain" /\ c.pc = "delivered" /\ broken' /\ linking' = [linking EXCEPT ![q] = d]
        /\ UNCHANGED <<outbox, due, accepted, sync, log>>
    BY <1>10, <2>1 DEF IG!DeliveredNotRecorded, IG!At, IG!Go, IG!connectorVars, IG!portalVars,
                       IG!outboxVars
  <2>3. IsDrain(c) /\ linking[q] # IG!Idle /\ DrainKnows(c, outbox, accepted, Sober)
    BY <1>5, <2>1, <2>2
  <2>4. IsDrain(d) /\ d.pc = "retry" /\ d.id = c.id
    BY <2>1, <2>3, DrainAdvances DEF DrainPcs
  <2>5. ~Sober' BY <2>2 DEF Sober
  <2>6. DrainKnows(d, outbox, accepted, Sober') BY <2>2, <2>3, <2>4, <2>5 DEF DrainKnows
  <2>7. ASSUME NEW v \in Webhooks PROVE OutboxRow(v, outbox[v], accepted[v], Delivering(d, v), Sober')
    <3>1. OutboxRow(v, outbox[v], accepted[v], HeldBy(linking, v), Sober) BY DEF OutboxInv
    <3> QED BY <2>5, <3>1 DEF OutboxRow
  <2>8. \A v \in Webhooks : accepted[v] >= accepted[v]
    <3> TAKE v \in Webhooks
    <3>1. accepted[v] \in Nat BY <1>0
    <3> QED BY <3>1
  <2> QED BY <1>0, <2>2, <2>3, <2>4, <2>6, <2>7, <2>8, OutboxMove, Zenon
<1>11. ASSUME NEW q \in Requests, IG!RecordRetry(q) PROVE OutboxInv'
  <2>1. PICK c, w, tries : c = linking[q] /\ w = c.id /\ tries = c.attempts[w] + 1 OBVIOUS
  <2>2. PICK at : at = [status |-> IF tries >= IG!MaxAttempts THEN "failed" ELSE "pending",
                        attempts |-> tries]
    BY Zenon
  <2>3. PICK hooks : hooks = [outbox EXCEPT ![w] = at] BY Zenon
  <2>4. /\ c.op = "drain" /\ c.pc = "retry" /\ IG!Advance(q) /\ due' \subseteq due
        /\ outbox' = hooks /\ UNCHANGED <<accepted, sync, log, broken>>
    BY <1>11, <2>1, <2>2, <2>3 DEF IG!RecordRetry, IG!At, IG!connectorVars, IG!portalVars
  <2>5. IsDrain(c) /\ linking[q] # IG!Idle /\ DrainKnows(c, outbox, accepted, Sober)
    BY <1>5, <2>1, <2>4
  <2>6. w \in Webhooks /\ (Sober => w \notin c.left /\ outbox[w].status = "pending")
    BY <2>1, <2>4, <2>5 DEF DrainKnows
  <2>7. DOMAIN hooks = Webhooks /\ hooks[w] = at /\ \A v \in Webhooks : v # w => hooks[v] = outbox[v]
    BY <1>0, <2>3, <2>6
  <2>8. PICK d : /\ linking' = [linking EXCEPT ![q] = d]
                 /\ d = IG!Idle \/ (IsDrain(d) /\ d.pc = "post" /\ d.left = c.left)
    BY <1>8, <2>1, <2>4
  <2>9. Sober' = Sober BY <2>4 DEF Sober
  <2>10. c.left \subseteq Webhooks BY <2>5 DEF IsDrain
  <2>11. DrainKnows(d, hooks, accepted, Sober')
    <3>1. CASE d = IG!Idle BY <3>1 DEF DrainKnows, IG!Idle
    <3>2. CASE d.pc = "post" /\ d.left = c.left
      <4>1. Sober => \A v \in c.left : hooks[v].status = "pending"
        BY <2>4, <2>5, <2>6, <2>7, <2>10 DEF DrainKnows
      <4> QED BY <2>9, <3>2, <4>1 DEF DrainKnows
    <3> QED BY <2>8, <3>1, <3>2
  <2>12. \A v : ~Delivering(d, v) BY <2>8 DEF Delivering, IG!Idle
  <2>13. ASSUME NEW v \in Webhooks
         PROVE  \/ OutboxRow(v, hooks[v], accepted[v], Delivering(d, v), Sober')
                \/ (hooks[v] = outbox[v] /\ accepted[v] = accepted[v] /\ ~Delivering(linking[q], v))
    <3>1. CASE v # w BY <2>1, <2>4, <2>7, <3>1 DEF Delivering
    <3>2. CASE v = w
      <4>1. at.status = "failed" => at.attempts >= IG!MaxAttempts BY <2>2
      <4>2. at.status # "delivered" BY <2>2
      <4>3. ~Delivering(linking[q], w) BY <2>1, <2>4 DEF Delivering
      <4>4. Sober => ~HeldBy(linking, w) BY <2>5, <2>6, <4>3, OneDrains
      <4>5. OutboxRow(w, outbox[w], accepted[w], HeldBy(linking, w), Sober) BY <2>6 DEF OutboxInv
      <4>6. Sober => accepted[w] = 0 BY <2>6, <4>4, <4>5 DEF OutboxRow
      <4>7. OutboxRow(w, at, accepted[w], FALSE, Sober) BY <4>1, <4>2, <4>6 DEF OutboxRow
      <4> QED BY <2>7, <2>9, <2>12, <3>2, <4>7 DEF OutboxRow
    <3> QED BY <3>1, <3>2
  <2>14. \A v \in Webhooks : accepted[v] >= accepted[v]
    <3> TAKE v \in Webhooks
    <3>1. accepted[v] \in Nat BY <1>0
    <3> QED BY <3>1
  <2>15. due' \subseteq Webhooks BY <1>0, <2>4
  <2> QED BY <1>0, <2>4, <2>5, <2>7, <2>8, <2>11, <2>13, <2>14, <2>15, OutboxMove, Zenon
<1> QED BY <1>1, <1>2, <1>3, <1>4, <1>6, <1>9, <1>10, <1>11 DEF IG!OutboxNext

LEMMA OutboxHolds == ASSUME OutboxInv PROVE IG!OutboxHonest /\ IG!RunningIsHeld
<1>1. ASSUME NEW w \in Webhooks
      PROVE  /\ outbox[w].status = "delivered" => accepted[w] > 0
             /\ solo /\ ~broken => accepted[w] <= 1
             /\ outbox[w].status = "failed" =>
                   /\ outbox[w].attempts >= IG!MaxAttempts
                   /\ solo /\ ~broken => accepted[w] = 0
  <2>1. OutboxRow(w, outbox[w], accepted[w], HeldBy(linking, w), Sober) BY DEF OutboxInv
  <2>2. ASSUME Sober, outbox[w].status = "failed" PROVE ~HeldBy(linking, w)
    <3>1. SUFFICES ASSUME NEW q \in Requests, Delivering(linking[q], w) PROVE FALSE
      BY DEF HeldBy
    <3>2. DrainKnows(linking[q], outbox, accepted, Sober) BY DEF OutboxInv
    <3>3. outbox[w].status = "pending" BY <2>2, <3>1, <3>2 DEF DrainKnows, Delivering
    <3> QED BY <2>2, <3>3
  <2> QED BY <2>1, <2>2 DEF OutboxRow, Sober
<1>2. IG!OutboxHonest BY <1>1 DEF IG!OutboxHonest
<1>3. DOMAIN sync = {} /\ DOMAIN log = {} BY DEF OutboxInv
<1>4. IG!RunningIsHeld BY <1>3 DEF IG!RunningIsHeld
<1> QED BY <1>2, <1>4

LogRow == [to : Endpoints, status : {"pending", "delivered", "failed"},
           answer : {"none", "ok", "refused", "timeout"}]
TriggerPcs == {"log", "post", "delivered", "refused", "caught", "endpoint", "caughtEndpoint"}
TriggerCalls == [op : {"trigger"}, pc : TriggerPcs, left : SUBSET Endpoints,
                 id : Endpoints \cup {"none"}, log : Nat]
TriggerCall(c) == c = IG!Idle \/ c \in TriggerCalls
\* Where a request stands with the entry it logged last.
TriggerKnows(c, entries) ==
    c \in TriggerCalls =>
       /\ c.log = 0 => c.pc = "log"
       /\ c.log # 0 =>
            /\ c.log \in DOMAIN entries
            /\ c.pc = "post" => entries[c.log].status = "pending"
            /\ c.pc = "delivered" => entries[c.log].answer = "ok"
            /\ c.pc \in {"log", "endpoint", "caughtEndpoint"} => entries[c.log].status # "pending"
\* An entry is pending while somebody is at it, and delivered once taken.
LogHeld(at, i, calls, died) ==
    /\ at.status = "pending" => died \/ \E q \in Requests : calls[q].op = "trigger" /\ calls[q].log = i
    /\ at.status = "delivered" => at.answer = "ok"
PortalInv ==
    /\ NoOutbox /\ sync = <<>>
    /\ DOMAIN linking = Requests /\ log \in Seq(LogRow)
    /\ \A q \in Requests : TriggerCall(linking[q]) /\ TriggerKnows(linking[q], log)
    /\ \A q, r \in Requests : /\ linking[q] \in TriggerCalls /\ linking[r] \in TriggerCalls
                              /\ linking[q].log = linking[r].log /\ linking[q].log # 0
                              => q = r
    /\ \A i \in DOMAIN log : LogHeld(log[i], i, linking, broken)

\* A request moves on with the entry it is at.
LEMMA PortalMove ==
  ASSUME PortalInv, NEW q \in Requests, linking[q] \in TriggerCalls,
         NEW c, TriggerCall(c), c \in TriggerCalls => c.log = linking[q].log,
         linking' = [linking EXCEPT ![q] = c],
         UNCHANGED <<outbox, accepted, sync>>, broken => broken',
         NEW entries \in Seq(LogRow), log' = entries, DOMAIN entries = DOMAIN log,
         \A i \in DOMAIN log : i # linking[q].log => entries[i] = log[i],
         TriggerKnows(c, entries),
         linking[q].log # 0 => LET at == entries[linking[q].log]
                               IN /\ at.status = "delivered" => at.answer = "ok"
                                  /\ c = IG!Idle => at.status # "pending" \/ broken'
  PROVE  PortalInv'
<1>1. linking'[q] = c /\ \A r \in Requests : r # q => linking'[r] = linking[r] BY DEF PortalInv
<1>2. PICK n : n = linking[q].log OBVIOUS
<1>3. ASSUME NEW r \in Requests PROVE TriggerCall(linking'[r]) /\ TriggerKnows(linking'[r], entries)
  <2>1. CASE r = q BY <1>1, <2>1
  <2>2. CASE r # q
    <3>1. PICK d : d = linking[r] OBVIOUS
    <3>2. TriggerCall(d) /\ TriggerKnows(d, log) BY <3>1 DEF PortalInv
    <3>3. ASSUME d \in TriggerCalls, d.log # 0 PROVE entries[d.log] = log[d.log]
      <4>1. d.log # n BY <1>2, <2>2, <3>1, <3>3 DEF PortalInv
      <4>2. d.log \in DOMAIN log BY <3>2, <3>3 DEF TriggerKnows
      <4> QED BY <1>2, <4>1, <4>2
    <3>4. TriggerKnows(d, entries) BY <3>2, <3>3 DEF TriggerKnows
    <3> QED BY <1>1, <2>2, <3>1, <3>2, <3>4
  <2> QED BY <2>1, <2>2
<1>4. ASSUME NEW r \in Requests, NEW s \in Requests,
             linking'[r] \in TriggerCalls, linking'[s] \in TriggerCalls,
             linking'[r].log = linking'[s].log, linking'[r].log # 0
      PROVE  r = s
  <2>1. \A t \in Requests : linking'[t] \in TriggerCalls =>
           linking[t] \in TriggerCalls /\ linking[t].log = linking'[t].log
    BY <1>1
  <2> QED BY <1>4, <2>1 DEF PortalInv
<1>5. ASSUME NEW i \in DOMAIN entries PROVE LogHeld(entries[i], i, linking', broken')
  <2>1. CASE i # n
    <3>1. entries[i] = log[i] /\ LogHeld(log[i], i, linking, broken) BY <1>2, <2>1 DEF PortalInv
    <3>2. \A r \in Requests : linking[r].op = "trigger" /\ linking[r].log = i => linking'[r] = linking[r]
      BY <1>1, <1>2, <2>1
    <3> QED BY <3>1, <3>2 DEF LogHeld
  <2>2. CASE i = n
    <3>1. n # 0 BY <2>2, <1>5 DEF PortalInv
    <3>2. entries[n].status = "delivered" => entries[n].answer = "ok" BY <1>2, <3>1
    <3>3. ASSUME entries[n].status = "pending", ~broken' PROVE linking'[q].op = "trigger" /\ linking'[q].log = n
      <4>1. c \in TriggerCalls BY <1>2, <3>1, <3>3 DEF TriggerCall
      <4> QED BY <1>1, <1>2, <4>1 DEF TriggerCalls
    <3> QED BY <2>2, <3>2, <3>3 DEF LogHeld
  <2> QED BY <2>1, <2>2
<1>6. NoOutbox' /\ sync' = <<>> /\ DOMAIN linking' = Requests BY DEF PortalInv, NoOutbox
<1>7. \A r \in Requests : TriggerCall(linking'[r]) /\ TriggerKnows(linking'[r], log') BY <1>3
<1>8. \A i \in DOMAIN log' : LogHeld(log'[i], i, linking', broken') BY <1>5, Zenon
<1>9. log' \in Seq(LogRow) OBVIOUS
<1> QED BY <1>4, <1>6, <1>7, <1>8, <1>9, Zenon DEF PortalInv

LEMMA TriggerAdvances ==
  ASSUME NEW c \in TriggerCalls, NEW to \in TriggerPcs, NEW d, d = [c EXCEPT !.pc = to]
  PROVE  d \in TriggerCalls /\ d.pc = to /\ d.log = c.log /\ d.op = "trigger"
  BY DEF TriggerCalls

LEMMA PortalStep == ASSUME PortalInv, IG!PortalNext \/ IG!Crash PROVE PortalInv'
<1>0. /\ DOMAIN linking = Requests /\ log \in Seq(LogRow) /\ NoOutbox /\ sync = <<>>
  BY DEF PortalInv
<1>1. ASSUME IG!Crash PROVE PortalInv'
  <2>1. /\ broken' /\ linking' = [q \in Requests |-> IG!Idle]
        /\ UNCHANGED <<sync, outbox, accepted, log>>
    BY <1>1 DEF IG!Crash, IG!outboxVars, IG!portalVars
  <2>2. DOMAIN linking' = Requests /\ \A q \in Requests : linking'[q] = IG!Idle BY <2>1
  <2>3. IG!Idle \notin TriggerCalls BY DEF IG!Idle, TriggerCalls
  <2>4. \A i \in DOMAIN log : LogHeld(log[i], i, linking', broken')
    BY <2>1 DEF PortalInv, LogHeld
  <2>5. \A q \in Requests : TriggerCall(linking'[q]) /\ TriggerKnows(linking'[q], log')
    BY <2>2, <2>3 DEF TriggerCall, TriggerKnows
  <2>6. \A i \in DOMAIN log' : LogHeld(log'[i], i, linking', broken') BY <2>1, <2>4, Zenon
  <2> QED BY <1>0, <2>1, <2>2, <2>3, <2>5, <2>6, Zenon DEF PortalInv, NoOutbox
<1>2. ASSUME UNCHANGED <<linking, sync, outbox, accepted, log, broken>> PROVE PortalInv'
  BY <1>2 DEF PortalInv, NoOutbox
<1>3. ASSUME NEW e \in Endpoints,
             IG!CreateWebhook(e) \/ IG!DeleteWebhook(e) \/ \E active \in BOOLEAN : IG!UpdateWebhook(e, active)
      PROVE  PortalInv'
  BY <1>2, <1>3 DEF IG!CreateWebhook, IG!DeleteWebhook, IG!UpdateWebhook, IG!connectorVars, IG!outboxVars
<1>4. ASSUME NEW q \in Requests, IG!TriggerWebhook(q) PROVE PortalInv'
  <2>1. PICK targets \in SUBSET Endpoints :
          IG!Begin(q, [op |-> "trigger", pc |-> "log", left |-> targets, id |-> "none", log |-> 0])
    BY <1>4 DEF IG!TriggerWebhook
  <2>2. PICK c : c = [op |-> "trigger", pc |-> "log", left |-> targets, id |-> "none", log |-> 0]
    BY Zenon
  <2>3. /\ linking[q] = IG!Idle /\ linking' = [linking EXCEPT ![q] = c]
        /\ UNCHANGED <<sync, outbox, accepted, log, broken>>
    BY <1>4, <2>1, <2>2, Zenon DEF IG!TriggerWebhook, IG!Begin, IG!Free, IG!connectorVars, IG!outboxVars, IG!portalVars
  <2>4. c \in TriggerCalls /\ c.log = 0 /\ c.pc = "log" BY <2>2 DEF TriggerCalls, TriggerPcs
  <2>5. TriggerCall(c) /\ TriggerKnows(c, log) BY <2>4 DEF TriggerCall, TriggerKnows
  <2>6. linking'[q] = c /\ \A r \in Requests : r # q => linking'[r] = linking[r] BY <1>0, <2>3
  <2>7. \A r \in Requests : TriggerCall(linking'[r]) /\ TriggerKnows(linking'[r], log')
    BY <2>3, <2>5, <2>6 DEF PortalInv
  <2>8. \A r, s \in Requests : /\ linking'[r] \in TriggerCalls /\ linking'[s] \in TriggerCalls
                               /\ linking'[r].log = linking'[s].log /\ linking'[r].log # 0
                               => r = s
    BY <2>4, <2>6 DEF PortalInv
  <2>9. ASSUME NEW i \in DOMAIN log PROVE LogHeld(log[i], i, linking', broken)
    <3>1. LogHeld(log[i], i, linking, broken) BY DEF PortalInv
    <3>2. \A r \in Requests : linking[r].op = "trigger" => linking'[r] = linking[r]
      BY <2>3, <2>6 DEF IG!Idle
    <3> QED BY <3>1, <3>2 DEF LogHeld
  <2>10. \A i \in DOMAIN log' : LogHeld(log'[i], i, linking', broken') BY <2>3, <2>9, Zenon
  <2>11. DOMAIN linking' = Requests BY <1>0, <2>3
  <2> QED BY <1>0, <2>3, <2>7, <2>8, <2>10, <2>11, Zenon DEF PortalInv, NoOutbox
<1>5. ASSUME NEW q \in Requests, linking[q].op = "trigger"
      PROVE  linking[q] \in TriggerCalls /\ TriggerKnows(linking[q], log)
  BY <1>5 DEF PortalInv, TriggerCall, IG!Idle
<1>6. ASSUME NEW q \in Requests, NEW e \in Endpoints, IG!LogEvent(q, e) PROVE PortalInv'
  <2>1. PICK c, n : c = linking[q] /\ n = Len(log) + 1 OBVIOUS
  <2>2. PICK rest, fresh : rest = c.left \ {e} /\ fresh = [to |-> e, status |-> "pending", answer |-> "none"]
    BY Zenon
  <2>3. PICK d : d = [c EXCEPT !.id = e, !.left = rest, !.log = n, !.pc = "post"] OBVIOUS
  <2>4. /\ c.op = "trigger" /\ c.pc = "log" /\ log' = Append(log, fresh)
        /\ UNCHANGED <<sync, outbox, accepted, broken>>
    BY <1>6, <2>1, <2>2 DEF IG!LogEvent, IG!At, IG!connectorVars, IG!outboxVars
  <2>5. fresh \in LogRow /\ fresh.status = "pending" BY <2>2 DEF LogRow
  <2>6. /\ Len(log') = n /\ n \in Nat \ {0} /\ DOMAIN log' = 1..n /\ DOMAIN log = 1..(n - 1)
        /\ log' \in Seq(LogRow) /\ log'[n] = fresh /\ \A i \in DOMAIN log : log'[i] = log[i]
    BY <1>0, <2>1, <2>4, <2>5
  <2>7. linking' = [linking EXCEPT ![q] = d]
    BY <1>6, <2>1, <2>2, <2>3, <2>6 DEF IG!LogEvent
  <2>8. c \in TriggerCalls /\ TriggerKnows(c, log) BY <1>5, <2>1, <2>4
  <2>9. d \in TriggerCalls /\ d.pc = "post" /\ d.log = n /\ d.op = "trigger"
    BY <2>2, <2>3, <2>6, <2>8, Zenon DEF TriggerCalls, TriggerPcs
  <2>10. linking'[q] = d /\ \A r \in Requests : r # q => linking'[r] = linking[r] BY <1>0, <2>7
  <2>11. ASSUME NEW r \in Requests PROVE TriggerCall(linking'[r]) /\ TriggerKnows(linking'[r], log')
    <3>1. CASE r = q BY <2>5, <2>6, <2>9, <2>10, <3>1 DEF TriggerCall, TriggerKnows
    <3>2. CASE r # q
      <4>1. PICK g : g = linking[r] OBVIOUS
      <4>2. TriggerCall(g) /\ TriggerKnows(g, log) BY <4>1 DEF PortalInv
      <4>3. \A i \in DOMAIN log : i \in DOMAIN log' BY <2>6
      <4>4. TriggerKnows(g, log') BY <2>6, <4>2, <4>3 DEF TriggerKnows
      <4> QED BY <2>10, <3>2, <4>1, <4>2, <4>4
    <3> QED BY <3>1, <3>2
  <2>12. ASSUME NEW r \in Requests, r # q, linking[r] \in TriggerCalls PROVE linking[r].log # n
    <3>1. linking[r].log # 0 => linking[r].log \in 1..(n - 1)
      BY <2>6, <2>12 DEF PortalInv, TriggerKnows
    <3> QED BY <2>6, <3>1
  <2>13. ASSUME NEW r \in Requests, NEW s \in Requests,
                linking'[r] \in TriggerCalls, linking'[s] \in TriggerCalls,
                linking'[r].log = linking'[s].log, linking'[r].log # 0
         PROVE  r = s
    <3>1. CASE r = q /\ s # q BY <2>9, <2>10, <2>12, <2>13, <3>1
    <3>2. CASE r # q /\ s = q BY <2>9, <2>10, <2>12, <2>13, <3>2
    <3>3. CASE r # q /\ s # q BY <2>10, <2>13, <3>3 DEF PortalInv
    <3> QED BY <3>1, <3>2, <3>3
  <2>14. ASSUME NEW i \in DOMAIN log' PROVE LogHeld(log'[i], i, linking', broken)
    <3>1. CASE i = n BY <2>5, <2>6, <2>9, <2>10, <3>1 DEF LogHeld
    <3>2. CASE i # n
      <4>1. i \in DOMAIN log /\ log'[i] = log[i] BY <2>6, <3>2
      <4>2. LogHeld(log[i], i, linking, broken) BY <4>1 DEF PortalInv
      <4>3. ASSUME log[i].status = "pending" PROVE c.log # i
        <5>1. c.log # 0 => log[c.log].status # "pending" BY <2>4, <2>8 DEF TriggerKnows
        <5>2. i # 0 BY <2>6, <4>1
        <5> QED BY <4>3, <5>1, <5>2
      <4>4. \A r \in Requests : linking[r].op = "trigger" /\ linking[r].log = i /\ log[i].status = "pending"
                                   => linking'[r] = linking[r]
        BY <2>1, <2>10, <4>3
      <4> QED BY <4>1, <4>2, <4>4 DEF LogHeld
    <3> QED BY <3>1, <3>2
  <2>15. DOMAIN linking' = Requests BY <1>0, <2>7
  <2>16. \A i \in DOMAIN log' : LogHeld(log'[i], i, linking', broken') BY <2>4, <2>14
  <2> QED BY <1>0, <2>4, <2>6, <2>11, <2>13, <2>15, <2>16 DEF PortalInv, NoOutbox
<1>7. ASSUME NEW q \in Requests, linking[q] \in TriggerCalls, TriggerKnows(linking[q], log),
             NEW c, TriggerCall(c), c \in TriggerCalls => c.log = linking[q].log,
             linking' = [linking EXCEPT ![q] = c],
             UNCHANGED <<outbox, accepted, sync, log>>, broken => broken', TriggerKnows(c, log),
             linking[q].log # 0 /\ c = IG!Idle => log[linking[q].log].status # "pending" \/ broken'
      PROVE  PortalInv'
  <2>1. linking[q].log # 0 => LET at == log[linking[q].log]
                              IN /\ at.status = "delivered" => at.answer = "ok"
                                 /\ c = IG!Idle => at.status # "pending" \/ broken'
    BY <1>7 DEF PortalInv, LogHeld, TriggerKnows
  <2>2. log' = log BY <1>7
  <2> QED BY <1>0, <1>7, <2>1, <2>2, PortalMove, Zenon
<1>8. ASSUME NEW q \in Requests, NEW answer \in {"ok", "refused", "timeout"}, IG!PostEvent(q, answer)
      PROVE  PortalInv'
  <2>1. PICK c, to : /\ c = linking[q]
                     /\ to = CASE answer = "ok" -> "delivered" [] answer = "refused" -> "refused"
                               [] OTHER -> "caught"
    OBVIOUS
  <2>2. PICK d : d = [c EXCEPT !.pc = to] BY Zenon
  <2>3. PICK n, at : n = c.log /\ at = [log[n] EXCEPT !.answer = answer] BY Zenon
  <2>4. PICK entries : entries = [log EXCEPT ![n] = at] BY Zenon
  <2>5. /\ c.op = "trigger" /\ c.pc = "post" /\ log' = entries
        /\ UNCHANGED <<outbox, accepted, sync, broken>>
    BY <1>8, <2>1, <2>3, <2>4 DEF IG!PostEvent, IG!At, IG!connectorVars, IG!outboxVars
  <2>6. linking' = [linking EXCEPT ![q] = d]
    BY <1>8, <2>1, <2>2 DEF IG!PostEvent, IG!Go
  <2>7. c \in TriggerCalls /\ TriggerKnows(c, log) BY <1>5, <2>1, <2>5
  <2>8. to \in TriggerPcs /\ to \in {"delivered", "refused", "caught"} /\ (to = "delivered" => answer = "ok")
    BY <2>1 DEF TriggerPcs
  <2>9. d \in TriggerCalls /\ d.pc = to /\ d.log = n /\ d.op = "trigger"
    <3>1. d \in TriggerCalls /\ d.pc = to /\ d.log = c.log /\ d.op = "trigger"
      BY <2>2, <2>7, <2>8 DEF TriggerCalls
    <3> QED BY <2>3, <3>1
  <2>10. n # 0 /\ n \in DOMAIN log /\ log[n].status = "pending" BY <2>3, <2>5, <2>7 DEF TriggerKnows
  <2>11. log[n] \in LogRow BY <1>0, <2>10
  <2>12. at \in LogRow /\ at.status = "pending" /\ at.answer = answer BY <2>3, <2>10, <2>11 DEF LogRow
  <2>13. /\ entries \in Seq(LogRow) /\ DOMAIN entries = DOMAIN log /\ entries[n] = at
         /\ \A i \in DOMAIN log : i # n => entries[i] = log[i]
    BY <1>0, <2>4, <2>10, <2>12
  <2>14. TriggerKnows(d, entries) BY <2>8, <2>9, <2>10, <2>12, <2>13 DEF TriggerKnows
  <2>15. TriggerCall(d) /\ d # IG!Idle BY <2>9 DEF TriggerCall, IG!Idle
  <2> QED BY <2>1, <2>3, <2>5, <2>6, <2>7, <2>9, <2>12, <2>13, <2>14, <2>15, PortalMove, Zenon
<1>9. ASSUME NEW q \in Requests, IG!SettleLog(q) PROVE PortalInv'
  <2>1. PICK c : c = linking[q] OBVIOUS
  <2>2. PICK to, status2 : /\ to = IF c.pc = "caught" THEN "caughtEndpoint" ELSE "endpoint"
                           /\ status2 = IF c.pc = "delivered" THEN "delivered" ELSE "failed"
    OBVIOUS
  <2>3. PICK d : d = [c EXCEPT !.pc = to] BY Zenon
  <2>4. PICK n, at : n = c.log /\ at = [log[n] EXCEPT !.status = status2] BY Zenon
  <2>5. PICK entries : entries = [log EXCEPT ![n] = at] BY Zenon
  <2>6. /\ c.op = "trigger" /\ c.pc \in {"delivered", "refused", "caught"} /\ log' = entries
        /\ UNCHANGED <<outbox, accepted, sync, broken>>
    BY <1>9, <2>1, <2>2, <2>4, <2>5 DEF IG!SettleLog, IG!connectorVars, IG!outboxVars
  <2>7. linking' = [linking EXCEPT ![q] = d]
    BY <1>9, <2>1, <2>2, <2>3 DEF IG!SettleLog, IG!Go
  <2>8. c \in TriggerCalls /\ TriggerKnows(c, log) BY <1>5, <2>1, <2>6
  <2>9. to \in TriggerPcs /\ to \in {"endpoint", "caughtEndpoint"} BY <2>2 DEF TriggerPcs
  <2>10. d \in TriggerCalls /\ d.pc = to /\ d.log = n /\ d.op = "trigger"
    <3>1. d \in TriggerCalls /\ d.pc = to /\ d.log = c.log /\ d.op = "trigger"
      BY <2>3, <2>8, <2>9 DEF TriggerCalls
    <3> QED BY <2>4, <3>1
  <2>11. n # 0 /\ n \in DOMAIN log /\ (c.pc = "delivered" => log[n].answer = "ok")
    BY <2>4, <2>6, <2>8 DEF TriggerKnows
  <2>12. log[n] \in LogRow BY <1>0, <2>11
  <2>13. status2 \in {"delivered", "failed"} /\ (status2 = "delivered" => c.pc = "delivered") BY <2>2
  <2>14. at \in LogRow /\ at.status = status2 /\ at.answer = log[n].answer
    BY <2>4, <2>12, <2>13 DEF LogRow
  <2>15. /\ entries \in Seq(LogRow) /\ DOMAIN entries = DOMAIN log /\ entries[n] = at
         /\ \A i \in DOMAIN log : i # n => entries[i] = log[i]
    BY <1>0, <2>5, <2>11, <2>14
  <2>16. TriggerKnows(d, entries) BY <2>9, <2>10, <2>11, <2>13, <2>14, <2>15 DEF TriggerKnows
  <2>17. TriggerCall(d) /\ d # IG!Idle BY <2>10 DEF TriggerCall, IG!Idle
  <2>18. at.status = "delivered" => at.answer = "ok" BY <2>11, <2>13, <2>14
  <2>19. linking[q].log = n /\ entries[n] = at BY <2>1, <2>4, <2>15
  <2>20. \A i \in DOMAIN log : i # linking[q].log => entries[i] = log[i] BY <2>15, <2>19
  <2>21. linking[q] \in TriggerCalls /\ (d \in TriggerCalls => d.log = linking[q].log)
    BY <2>1, <2>8, <2>10, <2>19
  <2>22. LET was == entries[linking[q].log]
         IN  /\ was.status = "delivered" => was.answer = "ok"
             /\ d = IG!Idle => was.status # "pending" \/ broken'
    BY <2>17, <2>18, <2>19
  <2> QED BY <2>6, <2>7, <2>15, <2>16, <2>17, <2>20, <2>21, <2>22, PortalMove, Zenon
<1>10. ASSUME NEW q \in Requests, IG!SettleEndpoint(q) \/ IG!EndpointGone(q) PROVE PortalInv'
  <2>1. PICK c : c = linking[q] OBVIOUS
  <2>2. /\ c.op = "trigger" /\ c.pc \in {"endpoint", "caughtEndpoint"}
        /\ \E to \in {"log", "caught"} : \/ IG!Go(q, to) \/ IG!End(q)
        /\ UNCHANGED <<log, outbox, accepted, sync, broken>>
    BY <1>10, <2>1 DEF IG!SettleEndpoint, IG!EndpointGone, IG!connectorVars, IG!outboxVars, IG!portalVars
  <2>3. c \in TriggerCalls /\ TriggerKnows(c, log) BY <1>5, <2>1, <2>2
  <2>4. c.log # 0 /\ c.log \in DOMAIN log /\ log[c.log].status # "pending" BY <2>2, <2>3 DEF TriggerKnows
  <2>5. CASE IG!End(q)
    <3>1. linking' = [linking EXCEPT ![q] = IG!Idle] BY <2>5 DEF IG!End
    <3>2. TriggerCall(IG!Idle) /\ IG!Idle \notin TriggerCalls BY DEF TriggerCall, TriggerCalls, IG!Idle
    <3>3. TriggerKnows(IG!Idle, log) BY <3>2 DEF TriggerKnows
    <3> QED BY <1>7, <2>1, <2>2, <2>3, <2>4, <3>1, <3>2, <3>3, Zenon
  <2>6. ASSUME NEW to \in {"log", "caught"}, IG!Go(q, to) PROVE PortalInv'
    <3>1. PICK d : d = [c EXCEPT !.pc = to] BY Zenon
    <3>2. linking' = [linking EXCEPT ![q] = d] BY <2>1, <2>6, <3>1 DEF IG!Go
    <3>3. d \in TriggerCalls /\ d.pc = to /\ d.log = c.log
      BY <2>3, <2>6, <3>1, TriggerAdvances DEF TriggerPcs
    <3>4. TriggerCall(d) /\ TriggerKnows(d, log) BY <2>4, <3>3 DEF TriggerCall, TriggerKnows
    <3>5. d # IG!Idle BY <3>3 DEF TriggerCalls, IG!Idle
    <3> QED BY <1>7, <2>1, <2>2, <2>3, <2>4, <3>2, <3>3, <3>4, <3>5, Zenon
  <2> QED BY <2>2, <2>5, <2>6
<1>11. ASSUME NEW q \in Requests, IG!SettleFails(q) PROVE PortalInv'
  <2>1. PICK c : c = linking[q] OBVIOUS
  <2>2. /\ c.op = "trigger" /\ c.pc \in {"delivered", "refused", "caught"}
        /\ IG!Go(q, "caught") \/ IG!End(q)
        /\ broken' /\ UNCHANGED <<log, outbox, accepted, sync>>
    BY <1>11, <2>1 DEF IG!SettleFails, IG!connectorVars, IG!outboxVars, IG!portalVars
  <2>3. c \in TriggerCalls /\ TriggerKnows(c, log) BY <1>5, <2>1, <2>2
  <2>4. c.log # 0 /\ c.log \in DOMAIN log BY <2>2, <2>3 DEF TriggerKnows
  <2>5. CASE IG!End(q)
    <3>1. linking' = [linking EXCEPT ![q] = IG!Idle] BY <2>5 DEF IG!End
    <3>2. TriggerCall(IG!Idle) /\ IG!Idle \notin TriggerCalls BY DEF TriggerCall, TriggerCalls, IG!Idle
    <3>3. TriggerKnows(IG!Idle, log) BY <3>2 DEF TriggerKnows
    <3> QED BY <1>7, <2>1, <2>2, <2>3, <3>1, <3>2, <3>3, Zenon
  <2>6. CASE IG!Go(q, "caught")
    <3>1. PICK d : d = [c EXCEPT !.pc = "caught"] BY Zenon
    <3>2. linking' = [linking EXCEPT ![q] = d] BY <2>1, <2>6, <3>1 DEF IG!Go
    <3>3. d \in TriggerCalls /\ d.pc = "caught" /\ d.log = c.log
      BY <2>3, <3>1, TriggerAdvances DEF TriggerPcs
    <3>4. TriggerCall(d) /\ TriggerKnows(d, log) BY <2>4, <3>3 DEF TriggerCall, TriggerKnows
    <3> QED BY <1>7, <2>1, <2>2, <2>3, <3>2, <3>3, <3>4, Zenon
  <2> QED BY <2>2, <2>5, <2>6
<1> QED BY <1>1, <1>3, <1>4, <1>6, <1>8, <1>9, <1>10, <1>11 DEF IG!PortalNext

LEMMA PortalHolds == ASSUME PortalInv PROVE IG!OutboxHonest /\ IG!RunningIsHeld
<1>1. IG!OutboxHonest BY DEF PortalInv, NoOutbox, IG!OutboxHonest, IG!NotQueued
<1>2. DOMAIN sync = {} BY DEF PortalInv
<1>3. \A i \in DOMAIN log : LogHeld(log[i], i, linking, broken) BY DEF PortalInv
<1> QED BY <1>1, <1>2, <1>3 DEF IG!RunningIsHeld, LogHeld

-----------------------------------------------------------------------------
(* The feed *)

LEMMA FeedCounts == \A S : FE!Cardinality(S) = Cardinality(S)
  BY DEF FE!Cardinality, Cardinality

FeedRow == [status : {"none", "published", "retired"}, created : Nat, product : BOOLEAN,
            likes : Int, shares : Int, patronage : Int]
\* A post's counters are what the rows behind it say; what is gone has none.
Counted(at, liked, events) ==
    /\ at \in FeedRow
    /\ at.status = "none" => at = FE!NoPost
    /\ IsFiniteSet(liked) /\ at.likes = Cardinality(liked)
    /\ events \in [share : Nat, cta : Nat] /\ at.shares = events.share /\ at.patronage = events.cta
FeedData ==
    /\ DOMAIN post = Posts /\ DOMAIN like = Posts /\ DOMAIN logged = Posts
    /\ \A p \in Posts : Counted(post[p], like[p], logged[p])
    /\ product \in BOOLEAN /\ \A p \in Posts : post[p].product => product
    /\ now \in Nat /\ \A p \in Posts : post[p].created <= now
    /\ entitlement.limit \in Nat

FeedCall(c) ==
    c = FE!Idle \/ /\ c.op \in {"create", "like", "unlike", "share", "cta"} /\ c.id \in Posts
                   /\ c.op = "create" => c.product \in BOOLEAN
FeedCalls ==
    /\ DOMAIN posting = Requests /\ \A q \in Requests : FeedCall(posting[q])
    /\ solo => \A q, r \in Requests : posting[q] # FE!Idle /\ posting[r] # FE!Idle => q = r

\* The posts of a day, and what the plan allowed when it began or allows now.
Today(posts, at) ==
    {p \in Posts : posts[p].status # "none" /\ FE!Day(posts[p].created) = FE!Day(at)}
Allowance(sub, at) ==
    LET was == FE!DailyLimit(sub, 2 * FE!Day(at))
        is == FE!DailyLimit(sub, at)
    IN  IF was > is THEN was ELSE is
FeedQuota ==
    solo => /\ Cardinality(Today(post, now)) <= Allowance(entitlement, now)
            /\ \A q \in Requests : posting[q].op = "create" =>
                  Cardinality(Today(post, now)) < Allowance(entitlement, now)
FeedInv == FeedData /\ FeedCalls /\ FeedQuota

LEMMA SomeLimit ==
  ASSUME NEW sub, sub.limit \in Nat
  PROVE  /\ \A at : FE!DailyLimit(sub, at) \in Nat \ {0}
         /\ \A at : Allowance(sub, at) \in Nat \ {0}
         /\ \A at : Allowance(sub, at) >= FE!DailyLimit(sub, at)
         /\ \A at : Allowance(sub, at) >= FE!DailyLimit(sub, 2 * FE!Day(at))
<1>1. \A at : FE!DailyLimit(sub, at) \in Nat \ {0}
  BY ServicesAssumption DEF FE!DailyLimit
<1>2. ASSUME NEW at
      PROVE  /\ Allowance(sub, at) \in Nat \ {0} /\ Allowance(sub, at) >= FE!DailyLimit(sub, at)
             /\ Allowance(sub, at) >= FE!DailyLimit(sub, 2 * FE!Day(at))
  <2>1. PICK was, is : was = FE!DailyLimit(sub, 2 * FE!Day(at)) /\ is = FE!DailyLimit(sub, at)
    OBVIOUS
  <2>2. was \in Nat \ {0} /\ is \in Nat \ {0} BY <1>1, <2>1
  <2>3. Allowance(sub, at) = IF was > is THEN was ELSE is BY <2>1 DEF Allowance
  <2> QED BY <2>1, <2>2, <2>3
<1> QED BY <1>1, <1>2

LEMMA FeedExists == ASSUME FeedData, NEW p \in Posts
  PROVE  FE!Exists(p) <=> post[p].status # "none"
<1>1. Counted(post[p], like[p], logged[p]) BY DEF FeedData
<1>2. FE!NoPost.status = "none" BY DEF FE!NoPost
<1> QED BY <1>1, <1>2 DEF Counted, FE!Exists

LEMMA FeedToday == ASSUME FeedData PROVE FE!PostsToday = Today(post, now)
  BY FeedExists DEF FE!PostsToday, Today

LEMMA TodayCounts == ASSUME NEW S, NEW posts, NEW at, S = Today(posts, at)
  PROVE  IsFiniteSet(S) /\ Cardinality(S) \in Nat
<1>1. S \in SUBSET Posts BY DEF Today
<1> QED BY <1>1, ServicesAssumption, FS_Subset, FS_CardinalityType

\* What adds no post of today leaves the day within the plan.
LEMMA DayKept ==
  ASSUME FeedInv, UNCHANGED <<now, entitlement, solo>>, Today(post', now) \subseteq Today(post, now),
         \A q \in Requests : posting'[q].op = "create" =>
            \/ posting[q].op = "create"
            \/ Cardinality(Today(post, now)) < FE!DailyLimit(entitlement, now)
  PROVE  FeedQuota'
<1>1. PICK S, T, a, b : /\ S = Today(post, now) /\ T = Today(post', now)
                        /\ a = Allowance(entitlement, now) /\ b = FE!DailyLimit(entitlement, now)
  OBVIOUS
<1>2. IsFiniteSet(S) /\ Cardinality(S) \in Nat BY <1>1, TodayCounts
<1>3. T \in SUBSET S BY <1>1
<1>4. Cardinality(T) \in Nat /\ Cardinality(T) <= Cardinality(S)
  BY <1>2, <1>3, FS_Subset, FS_CardinalityType
<1>5. a \in Nat /\ b \in Nat /\ a >= b BY <1>1, SomeLimit DEF FeedInv, FeedData
<1>6. ASSUME solo
      PROVE  /\ Cardinality(T) <= a
             /\ \A q \in Requests : posting'[q].op = "create" => Cardinality(T) < a
  <2>1. Cardinality(S) <= a BY <1>1, <1>6 DEF FeedInv, FeedQuota
  <2>2. ASSUME NEW q \in Requests, posting'[q].op = "create" PROVE Cardinality(S) < a
    <3>1. CASE posting[q].op = "create" BY <1>1, <1>6, <3>1 DEF FeedInv, FeedQuota
    <3>2. CASE Cardinality(S) < b BY <1>2, <1>5, <3>2
    <3> QED BY <1>1, <2>2, <3>1, <3>2
  <2> QED BY <1>2, <1>4, <1>5, <2>1, <2>2
<1> QED BY <1>1, <1>6 DEF FeedQuota

\* Calls begin and end one at a time.
LEMMA FeedBegins ==
  ASSUME FeedCalls, NEW q \in Requests, NEW c, FeedCall(c), FE!Begin(q, c), UNCHANGED solo
  PROVE  FeedCalls' /\ \A r \in Requests : posting'[r] = posting[r] \/ posting'[r] = c
<1>1. /\ posting[q] = FE!Idle /\ posting' = [posting EXCEPT ![q] = c]
      /\ solo => \A r \in Requests : posting[r] = FE!Idle
  BY DEF FE!Begin, FE!Free
<1>2. posting'[q] = c /\ \A r \in Requests : r # q => posting'[r] = posting[r]
  BY <1>1 DEF FeedCalls
<1>3. DOMAIN posting' = Requests BY <1>1 DEF FeedCalls
<1>4. solo' => \A r, s \in Requests : posting'[r] # FE!Idle /\ posting'[s] # FE!Idle => r = s
  BY <1>1, <1>2
<1> QED BY <1>2, <1>3, <1>4 DEF FeedCalls

LEMMA FeedEnds ==
  ASSUME FeedCalls, NEW q \in Requests, FE!End(q), UNCHANGED solo
  PROVE  /\ FeedCalls' /\ \A r \in Requests : posting'[r] = posting[r] \/ posting'[r] = FE!Idle
         /\ solo /\ posting[q] # FE!Idle => \A r \in Requests : posting'[r] = FE!Idle
<1>1. posting' = [posting EXCEPT ![q] = FE!Idle] BY DEF FE!End
<1>2. posting'[q] = FE!Idle /\ \A r \in Requests : r # q => posting'[r] = posting[r]
  BY <1>1 DEF FeedCalls
<1>3. DOMAIN posting' = Requests BY <1>1 DEF FeedCalls
<1> QED BY <1>2, <1>3 DEF FeedCalls, FeedCall

LEMMA FeedCallsSame == ASSUME FeedCalls, UNCHANGED <<posting, solo>> PROVE FeedCalls'
  BY DEF FeedCalls

\* One post changes with its rows.
LEMMA PostMoves ==
  ASSUME FeedData, NEW p \in Posts, UNCHANGED <<now, product, entitlement>>,
         NEW at, NEW liked, NEW events, Counted(at, liked, events),
         (post' = post /\ at = post[p]) \/ post' = [post EXCEPT ![p] = at],
         (like' = like /\ liked = like[p]) \/ like' = [like EXCEPT ![p] = liked],
         (logged' = logged /\ events = logged[p]) \/ logged' = [logged EXCEPT ![p] = events],
         at.product => product, at.created <= now
  PROVE  FeedData' /\ post'[p] = at /\ \A r \in Posts : r # p => post'[r] = post[r]
<1>1. /\ DOMAIN post' = Posts /\ post'[p] = at /\ \A r \in Posts : r # p => post'[r] = post[r]
      /\ DOMAIN like' = Posts /\ like'[p] = liked /\ \A r \in Posts : r # p => like'[r] = like[r]
      /\ DOMAIN logged' = Posts /\ logged'[p] = events /\ \A r \in Posts : r # p => logged'[r] = logged[r]
  BY DEF FeedData
<1>2. \A r \in Posts : Counted(post'[r], like'[r], logged'[r]) BY <1>1 DEF FeedData
<1>3. \A r \in Posts : post'[r].product => product BY <1>1 DEF FeedData
<1>4. \A r \in Posts : post'[r].created <= now BY <1>1 DEF FeedData
<1> QED BY <1>1, <1>2, <1>3, <1>4 DEF FeedData

\* A post that stays what it is but for its counters.
LEMMA PostTold ==
  ASSUME FeedInv, NEW p \in Posts, NEW at \in FeedRow, NEW liked, NEW events, Counted(at, liked, events),
         (post' = post /\ at = post[p]) \/ post' = [post EXCEPT ![p] = at],
         (like' = like /\ liked = like[p]) \/ like' = [like EXCEPT ![p] = liked],
         (logged' = logged /\ events = logged[p]) \/ logged' = [logged EXCEPT ![p] = events],
         at.product => product, at.created = post[p].created,
         at.status # "none" => post[p].status # "none",
         UNCHANGED <<now, product, entitlement, solo>>, FeedCalls',
         \A q \in Requests : posting'[q].op = "create" => posting[q].op = "create"
  PROVE  FeedInv'
<1>1. FeedData BY DEF FeedInv
<1>2. at.created <= now BY DEF FeedInv, FeedData
<1>3. FeedData' /\ post'[p] = at /\ \A r \in Posts : r # p => post'[r] = post[r]
  BY <1>1, <1>2, PostMoves
<1>4. Today(post', now) \subseteq Today(post, now) BY <1>3 DEF Today
<1>5. FeedQuota' BY <1>4, DayKept
<1> QED BY <1>3, <1>5 DEF FeedInv

LEMMA FeedRead ==
  ASSUME FeedInv, NEW q \in Requests, NEW c, FeedCall(c), FE!Begin(q, c), UNCHANGED FE!feedVars,
         UNCHANGED solo,
         c.op = "create" => Cardinality(Today(post, now)) < FE!DailyLimit(entitlement, now)
  PROVE  FeedInv'
<1>1. UNCHANGED <<now, live, entitlement, product, post, like, logged>> BY DEF FE!feedVars
<1>2. FeedCalls' /\ \A r \in Requests : posting'[r] = posting[r] \/ posting'[r] = c
  BY FeedBegins DEF FeedInv
<1>3. FeedData' BY <1>1 DEF FeedInv, FeedData
<1>4. Today(post', now) \subseteq Today(post, now) BY <1>1
<1>5. FeedQuota' BY <1>1, <1>2, <1>4, DayKept
<1> QED BY <1>2, <1>3, <1>5 DEF FeedInv

\* What happens around the posts: edits, deletions, the clock.
LEMMA FeedAround == ASSUME FeedInv, FE!Around, UNCHANGED solo PROVE FeedInv'
<1>0. FeedData /\ FeedCalls /\ FeedQuota BY DEF FeedInv
<1>1. ASSUME NEW p \in Posts, FE!UpdatePost(p) PROVE FeedInv'
  <2>1. PICK at : at = post[p] OBVIOUS
  <2>2. Counted(at, like[p], logged[p]) /\ at.status # "none"
    BY <1>0, <1>1, <2>1, FeedExists DEF FE!UpdatePost, FeedData
  <2>3. UNCHANGED <<now, entitlement, product, like, logged, posting>>
    BY <1>1 DEF FE!UpdatePost
  <2>4. FeedCalls' BY <1>0, <2>3, FeedCallsSame
  <2>5. ASSUME NEW s \in {"published", "retired"}, post' = [post EXCEPT ![p].status = s] PROVE FeedInv'
    <3>1. PICK new : new = [at EXCEPT !.status = s] BY Zenon
    <3>2. post' = [post EXCEPT ![p] = new] BY <2>1, <2>5, <3>1
    <3>3. new \in FeedRow /\ new.status = s /\ new.created = at.created /\ new.product = at.product
          /\ new.likes = at.likes /\ new.shares = at.shares /\ new.patronage = at.patronage
      BY <2>2, <3>1 DEF Counted, FeedRow
    <3>4. Counted(new, like[p], logged[p]) BY <2>2, <3>3 DEF Counted
    <3>5. new.product => product BY <1>0, <2>1, <3>3, Zenon DEF FeedData
    <3> QED BY <2>1, <2>2, <2>3, <2>4, <3>2, <3>3, <3>4, <3>5, PostTold, Zenon
  <2>6. ASSUME NEW points \in BOOLEAN, points => product, post' = [post EXCEPT ![p].product = points]
        PROVE  FeedInv'
    <3>1. PICK new : new = [at EXCEPT !.product = points] BY Zenon
    <3>2. post' = [post EXCEPT ![p] = new] BY <2>1, <2>6, <3>1
    <3>3. new \in FeedRow /\ new.status = at.status /\ new.created = at.created
          /\ new.likes = at.likes /\ new.shares = at.shares /\ new.patronage = at.patronage
      BY <2>2, <3>1 DEF Counted, FeedRow
    <3>4. new.product <=> points BY <2>2, <3>1 DEF Counted, FeedRow
    <3>5. Counted(new, like[p], logged[p]) BY <2>2, <3>3 DEF Counted
    <3> QED BY <2>1, <2>2, <2>3, <2>4, <2>6, <3>2, <3>3, <3>4, <3>5, PostTold, Zenon
  <2> QED BY <1>1, <2>5, <2>6 DEF FE!UpdatePost
<1>2. ASSUME NEW gone, FE!DeletePosts(gone) PROVE FeedInv'
  <2>1. /\ post' = [p \in Posts |-> IF p \in gone THEN FE!NoPost ELSE post[p]]
        /\ like' = [p \in Posts |-> IF p \in gone THEN {} ELSE like[p]]
        /\ logged' = [p \in Posts |-> IF p \in gone THEN [share |-> 0, cta |-> 0] ELSE logged[p]]
        /\ UNCHANGED <<now, entitlement, product, posting>>
    BY <1>2 DEF FE!DeletePosts
  <2>2. FE!NoPost.status = "none" /\ FE!NoPost.created = 0 /\ ~FE!NoPost.product
    BY DEF FE!NoPost
  <2>3. Counted(FE!NoPost, {}, [share |-> 0, cta |-> 0])
    <3>1. FE!NoPost \in FeedRow BY DEF FE!NoPost, FeedRow
    <3>2. FE!NoPost.likes = 0 /\ FE!NoPost.shares = 0 /\ FE!NoPost.patronage = 0 BY DEF FE!NoPost
    <3>3. IsFiniteSet({}) /\ Cardinality({}) = 0 BY FS_EmptySet
    <3> QED BY <2>2, <3>1, <3>2, <3>3 DEF Counted
  <2>4. ASSUME NEW p \in Posts
        PROVE  /\ Counted(post'[p], like'[p], logged'[p])
               /\ post'[p].product => product
               /\ post'[p].created <= now
               /\ post'[p].status # "none" => post'[p] = post[p]
    <3>1. CASE p \in gone
      <4>1. post'[p] = FE!NoPost /\ like'[p] = {} /\ logged'[p] = [share |-> 0, cta |-> 0]
        BY <2>1, <3>1
      <4>2. now >= 0 BY <1>0 DEF FeedData
      <4> QED BY <2>2, <2>3, <4>1, <4>2
    <3>2. CASE p \notin gone
      <4>1. post'[p] = post[p] /\ like'[p] = like[p] /\ logged'[p] = logged[p] BY <2>1, <3>2
      <4> QED BY <1>0, <4>1 DEF FeedData
    <3> QED BY <3>1, <3>2
  <2>5. DOMAIN post' = Posts /\ DOMAIN like' = Posts /\ DOMAIN logged' = Posts BY <2>1
  <2>6. FeedData' BY <1>0, <2>1, <2>4, <2>5 DEF FeedData
  <2>7. Today(post', now) \subseteq Today(post, now) BY <2>4 DEF Today
  <2>8. FeedQuota' BY <2>1, <2>7, DayKept
  <2>9. FeedCalls' BY <1>0, <2>1, FeedCallsSame
  <2> QED BY <2>6, <2>8, <2>9 DEF FeedInv
<1>3. ASSUME FE!SetLive PROVE FeedInv'
  <2>1. UNCHANGED <<now, entitlement, product, post, like, logged, posting>> BY <1>3 DEF FE!SetLive
  <2>2. FeedData' BY <1>0, <2>1 DEF FeedData
  <2>3. FeedQuota' BY <1>0, <2>1 DEF FeedQuota
  <2> QED BY <1>0, <2>1, <2>2, <2>3, FeedCallsSame DEF FeedInv
<1>4. ASSUME FE!Tick PROVE FeedInv'
  <2>1. /\ now' = now + 1 /\ UNCHANGED <<entitlement, product, post, like, logged, posting>>
    BY <1>4 DEF FE!Tick
  <2>2. PICK t, sub : t = now /\ sub = entitlement OBVIOUS
  <2>3. t \in Nat /\ t + 1 \in Nat /\ sub.limit \in Nat /\ \A p \in Posts : post[p].created <= t
    BY <1>0, <2>2 DEF FeedData
  <2>4. ASSUME NEW p \in Posts PROVE post[p].created \in Nat /\ post[p].created <= t + 1
    <3>1. Counted(post[p], like[p], logged[p]) BY <1>0 DEF FeedData
    <3>2. post[p].created \in Nat BY <3>1 DEF Counted, FeedRow
    <3> QED BY <2>3, <3>2
  <2>5. FeedData' BY <1>0, <2>1, <2>2, <2>3, <2>4 DEF FeedData
  <2>6. ASSUME solo
        PROVE  /\ Cardinality(Today(post, t + 1)) <= Allowance(sub, t + 1)
               /\ \A q \in Requests : posting[q].op = "create" =>
                     Cardinality(Today(post, t + 1)) < Allowance(sub, t + 1)
    <3>1. PICK d, e : d = FE!Day(t) /\ e = FE!Day(t + 1) OBVIOUS
    <3>2. /\ d \in Nat /\ e \in Nat /\ d <= e /\ (d = e => t = 2 * d)
          /\ \A u \in Nat : u <= t => FE!Day(u) <= d
      BY <2>3, <3>1 DEF FE!Day
    <3>3. CASE d = e
      <4>1. Today(post, t + 1) = Today(post, t) BY <3>1, <3>3 DEF Today
      <4>2. PICK a, b, was, is :
              /\ a = Allowance(sub, t) /\ b = Allowance(sub, t + 1)
              /\ was = FE!DailyLimit(sub, t) /\ is = FE!DailyLimit(sub, t + 1)
        OBVIOUS
      <4>3. t = 2 * d BY <3>2, <3>3
      <4>4. was \in Nat /\ is \in Nat /\ a \in Nat /\ b \in Nat BY <2>3, <4>2, SomeLimit
      <4>5. FE!DailyLimit(sub, 2 * FE!Day(t)) = was BY <3>1, <4>2, <4>3
      <4>6. a = was BY <4>2, <4>4, <4>5 DEF Allowance
      <4>7. FE!DailyLimit(sub, 2 * FE!Day(t + 1)) = was BY <3>1, <3>3, <4>2, <4>3
      <4>8. b >= was BY <2>3, <4>2, <4>7, SomeLimit
      <4>9. PICK n : n = Cardinality(Today(post, t)) OBVIOUS
      <4>10. n \in Nat BY <4>9, TodayCounts
      <4>11. n <= a /\ \A q \in Requests : posting[q].op = "create" => n < a
        BY <1>0, <2>2, <2>6, <4>2, <4>9 DEF FeedQuota
      <4>12. n <= b /\ \A q \in Requests : posting[q].op = "create" => n < b
        BY <4>4, <4>6, <4>8, <4>10, <4>11
      <4> QED BY <4>1, <4>2, <4>9, <4>12
    <3>4. CASE d # e
      <4>1. \A p \in Posts : FE!Day(post[p].created) <= d BY <2>3, <2>4, <3>2
      <4>2. \A p \in Posts : FE!Day(post[p].created) \in Nat BY <2>4 DEF FE!Day
      <4>3. \A p \in Posts : FE!Day(post[p].created) # e BY <3>2, <3>4, <4>1, <4>2
      <4>4. Today(post, t + 1) = {} BY <3>1, <4>3 DEF Today
      <4>5. Cardinality({}) = 0 BY FS_EmptySet
      <4>6. Allowance(sub, t + 1) \in Nat \ {0} BY <2>3, SomeLimit
      <4> QED BY <4>4, <4>5, <4>6
    <3> QED BY <3>3, <3>4
  <2>7. FeedQuota' BY <2>1, <2>2, <2>6 DEF FeedQuota
  <2> QED BY <1>0, <2>1, <2>5, <2>7, FeedCallsSame DEF FeedInv
<1> QED BY <1>1, <1>2, <1>3, <1>4, Zenon DEF FE!Around, FE!DeletePost, FE!PurgeExpired

LEMMA PostStep == ASSUME FeedInv, FE!PostNext, UNCHANGED solo PROVE FeedInv'
<1>0. FeedData /\ FeedCalls /\ FeedQuota BY DEF FeedInv
<1>1. ASSUME NEW q \in Requests, NEW p \in Posts, FE!ReadQuota(q, p) PROVE FeedInv'
  <2>1. PICK points \in BOOLEAN : FE!Begin(q, [op |-> "create", id |-> p, product |-> points])
    BY <1>1 DEF FE!ReadQuota
  <2>2. PICK c : c = [op |-> "create", id |-> p, product |-> points] BY Zenon
  <2>3. FeedCall(c) BY <2>2 DEF FeedCall
  <2>4. Cardinality(Today(post, now)) < FE!DailyLimit(entitlement, now) /\ UNCHANGED FE!feedVars
    BY <1>0, <1>1, FeedToday, FeedCounts DEF FE!ReadQuota
  <2> QED BY <2>1, <2>2, <2>3, <2>4, FeedRead
<1>2. ASSUME NEW q \in Requests, FE!Is(q, "create"), FE!CreatePost(q) PROVE FeedInv'
  <2>1. PICK c, p : c = posting[q] /\ p = c.id OBVIOUS
  <2>2. c.op = "create" BY <1>2, <2>1 DEF FE!Is
  <2>3. c # FE!Idle /\ p \in Posts /\ c.product \in BOOLEAN
    BY <1>0, <2>1, <2>2 DEF FeedCalls, FeedCall, FE!Idle
  <2>4. FE!End(q) /\ UNCHANGED <<now, entitlement, product, like, logged>>
    BY <1>2 DEF FE!CreatePost
  <2>5. /\ FeedCalls' /\ \A r \in Requests : posting'[r] = posting[r] \/ posting'[r] = FE!Idle
        /\ solo => \A r \in Requests : posting'[r] = FE!Idle
    BY <1>0, <2>1, <2>3, <2>4, FeedEnds
  <2>6. FE!Idle.op # "create" BY DEF FE!Idle
  <2>7. CASE UNCHANGED post
    <3>1. FeedData' BY <1>0, <2>4, <2>7 DEF FeedData
    <3>2. Today(post', now) \subseteq Today(post, now) BY <2>7
    <3>3. FeedQuota' BY <2>4, <2>5, <2>6, <3>2, DayKept
    <3> QED BY <2>5, <3>1, <3>3 DEF FeedInv
  <2>8. CASE /\ ~FE!Exists(p) /\ (c.product => product)
             /\ post' = [post EXCEPT ![p] = [FE!NewPost(now) EXCEPT !.product = c.product]]
    <3>1. PICK t, points : t = now /\ points = c.product OBVIOUS
    <3>2. PICK new : new = [FE!NewPost(t) EXCEPT !.product = points] BY Zenon
    <3>3. t \in Nat /\ points \in BOOLEAN BY <1>0, <2>3, <3>1 DEF FeedData
    <3>4. new = [status |-> "published", created |-> t, product |-> points,
                 likes |-> 0, shares |-> 0, patronage |-> 0]
      BY <3>2, Zenon DEF FE!NewPost, FE!NoPost
    <3>5. new \in FeedRow /\ new.status = "published" /\ new.created = t
          /\ new.likes = 0 /\ new.shares = 0 /\ new.patronage = 0
      BY <3>3, <3>4 DEF FeedRow
    <3>6. new.product <=> points BY <3>3, <3>4
    <3>7. post' = [post EXCEPT ![p] = new] BY <2>8, <3>1, <3>2
    <3>8. post[p] = FE!NoPost /\ post[p].status = "none" BY <1>0, <2>3, <2>8, FeedExists DEF FE!Exists
    <3>9. Counted(FE!NoPost, like[p], logged[p]) BY <1>0, <2>3, <3>8 DEF FeedData
    <3>10. FE!NoPost.likes = 0 /\ FE!NoPost.shares = 0 /\ FE!NoPost.patronage = 0 BY DEF FE!NoPost
    <3>11. Counted(new, like[p], logged[p]) BY <3>5, <3>9, <3>10 DEF Counted
    <3>12. new.created <= now /\ (new.product => product) BY <2>8, <3>1, <3>3, <3>5, <3>6
    <3>13. FeedData' /\ post'[p] = new /\ \A r \in Posts : r # p => post'[r] = post[r]
      BY <1>0, <2>3, <2>4, <3>7, <3>11, <3>12, PostMoves, Zenon
    <3>14. PICK S, T : S = Today(post, now) /\ T = Today(post', now) OBVIOUS
    <3>15. T \subseteq S \cup {p} BY <3>13, <3>14 DEF Today
    <3>16. p \notin S BY <3>8, <3>14 DEF Today
    <3>17. IsFiniteSet(S) /\ Cardinality(S) \in Nat BY <3>14, TodayCounts
    <3>18. IsFiniteSet(S \cup {p}) /\ Cardinality(S \cup {p}) = Cardinality(S) + 1
      BY <3>16, <3>17, FS_AddElement
    <3>19. Cardinality(T) <= Cardinality(S) + 1 /\ Cardinality(T) \in Nat
      BY <3>15, <3>18, FS_Subset, FS_CardinalityType
    <3>20. ASSUME solo PROVE Cardinality(T) <= Allowance(entitlement, now)
      <4>1. PICK a : a = Allowance(entitlement, now) OBVIOUS
      <4>2. a \in Nat BY <1>0, <4>1, SomeLimit DEF FeedData
      <4>3. Cardinality(S) < a BY <1>0, <2>1, <2>2, <3>14, <3>20, <4>1 DEF FeedQuota
      <4> QED BY <3>17, <3>19, <4>1, <4>2, <4>3
    <3>21. FeedQuota' BY <2>4, <2>5, <2>6, <3>14, <3>20 DEF FeedQuota
    <3> QED BY <2>5, <3>13, <3>21 DEF FeedInv
  <2> QED BY <1>2, <2>1, <2>7, <2>8 DEF FE!CreatePost
<1>3. ASSUME FE!DeleteProduct PROVE FeedInv'
  <2>1. /\ product' = FALSE /\ post' = [p \in Posts |-> [post[p] EXCEPT !.product = FALSE]]
        /\ UNCHANGED <<now, entitlement, like, logged, posting>>
    BY <1>3 DEF FE!DeleteProduct
  <2>2. ASSUME NEW p \in Posts
        PROVE  /\ Counted(post'[p], like[p], logged[p]) /\ ~post'[p].product
               /\ post'[p].created = post[p].created /\ post'[p].status = post[p].status
    <3>1. PICK at, new : at = post[p] /\ new = [at EXCEPT !.product = FALSE] BY Zenon
    <3>2. post'[p] = new BY <2>1, <3>1
    <3>3. Counted(at, like[p], logged[p]) BY <1>0, <3>1 DEF FeedData
    <3>4. new \in FeedRow /\ new.status = at.status /\ new.created = at.created
          /\ new.likes = at.likes /\ new.shares = at.shares /\ new.patronage = at.patronage
      BY <3>1, <3>3, Zenon DEF Counted, FeedRow
    <3>5. ~new.product BY <3>1, <3>3 DEF Counted, FeedRow
    <3>6. at.status = "none" => new = FE!NoPost
      <4>1. SUFFICES ASSUME at = FE!NoPost PROVE new = FE!NoPost BY <3>3 DEF Counted
      <4>2. PICK off : off = FALSE BY Zenon
      <4>3. new = [at EXCEPT !.product = off] BY <3>1, <4>2, Zenon
      <4>4. at = [status |-> "none", created |-> 0, product |-> off,
                  likes |-> 0, shares |-> 0, patronage |-> 0]
        BY <4>1, <4>2, Zenon DEF FE!NoPost
      <4>5. new = at BY <4>3, <4>4
      <4> QED BY <4>1, <4>5
    <3>7. Counted(new, like[p], logged[p]) BY <3>3, <3>4, <3>6 DEF Counted
    <3> QED BY <3>1, <3>2, <3>4, <3>5, <3>7
  <2>3. DOMAIN post' = Posts BY <2>1
  <2>4. FeedData' BY <1>0, <2>1, <2>2, <2>3, Zenon DEF FeedData
  <2>5. Today(post', now) \subseteq Today(post, now) BY <2>2 DEF Today
  <2>6. FeedQuota' BY <2>1, <2>5, DayKept
  <2> QED BY <1>0, <2>1, <2>4, <2>6, FeedCallsSame DEF FeedInv
<1> QED BY <1>1, <1>2, <1>3, FeedAround DEF FE!PostNext

LEMMA EngageStep == ASSUME FeedInv, FE!EngageNext, UNCHANGED solo PROVE FeedInv'
<1>0. FeedData /\ FeedCalls /\ FeedQuota BY DEF FeedInv
<1>1. ASSUME NEW q \in Requests, NEW p \in Posts, NEW a \in Visitors, FE!ReadLike(q, p, a) PROVE FeedInv'
  <2>1. PICK op : op = IF a \in like[p] THEN "unlike" ELSE "like" OBVIOUS
  <2>2. PICK c : c = [op |-> op, id |-> p, actor |-> a] BY Zenon
  <2>3. FE!Begin(q, c) /\ UNCHANGED FE!feedVars BY <1>1, <2>1, <2>2 DEF FE!ReadLike
  <2>4. FeedCall(c) /\ c.op # "create" BY <2>1, <2>2 DEF FeedCall
  <2> QED BY <2>3, <2>4, FeedRead
<1>2. ASSUME NEW q \in Requests, NEW p \in Posts, NEW op \in {"share", "cta"}, FE!ReadPost(q, p, op)
      PROVE  FeedInv'
  <2>1. PICK c : c = [op |-> op, id |-> p] BY Zenon
  <2>2. FE!Begin(q, c) /\ UNCHANGED FE!feedVars BY <1>2, <2>1 DEF FE!ReadPost
  <2>3. FeedCall(c) /\ c.op # "create" BY <2>1 DEF FeedCall
  <2> QED BY <2>2, <2>3, FeedRead
<1>3. FE!Idle.op # "create" BY DEF FE!Idle
<1>4. ASSUME NEW q \in Requests, posting[q].op \in {"like", "unlike", "share", "cta"}, FE!End(q),
             UNCHANGED <<now, entitlement, product>>
      PROVE  /\ posting[q].id \in Posts /\ FeedCalls'
             /\ \A r \in Requests : posting'[r].op = "create" => posting[r].op = "create"
  <2>1. posting[q].id \in Posts BY <1>0, <1>4 DEF FeedCalls, FeedCall, FE!Idle
  <2>2. FeedCalls' /\ \A r \in Requests : posting'[r] = posting[r] \/ posting'[r] = FE!Idle
    BY <1>0, <1>4, FeedEnds
  <2> QED BY <1>3, <2>1, <2>2
<1>5. ASSUME NEW p \in Posts, NEW q \in Requests, FeedCalls', UNCHANGED <<now, entitlement, product>>,
             \A r \in Requests : posting'[r].op = "create" => posting[r].op = "create",
             UNCHANGED <<post, like, logged>>
      PROVE  FeedInv'
  <2>1. PICK at, liked, events : at = post[p] /\ liked = like[p] /\ events = logged[p] OBVIOUS
  <2>2. Counted(at, liked, events) /\ at \in FeedRow BY <1>0, <2>1 DEF FeedData, Counted
  <2>3. at.product => product BY <1>0, <2>1 DEF FeedData
  <2> QED BY <1>5, <2>1, <2>2, <2>3, PostTold
<1>6. ASSUME NEW q \in Requests, FE!Is(q, "like"), FE!Like(q) PROVE FeedInv'
  <2>1. PICK p, a : p = posting[q].id /\ a = posting[q].actor OBVIOUS
  <2>2. FE!End(q) /\ UNCHANGED <<now, entitlement, product, logged>> BY <1>6 DEF FE!Like
  <2>3. /\ p \in Posts /\ FeedCalls'
        /\ \A r \in Requests : posting'[r].op = "create" => posting[r].op = "create"
    BY <1>4, <1>6, <2>1, <2>2 DEF FE!Is
  <2>4. CASE UNCHANGED <<like, post>> BY <1>5, <2>2, <2>3, <2>4
  <2>5. CASE /\ FE!Exists(p) /\ a \notin like[p]
             /\ like' = [like EXCEPT ![p] = @ \cup {a}] /\ post' = [post EXCEPT ![p].likes = @ + 1]
    <3>1. PICK at, liked, n : at = post[p] /\ liked = like[p] \cup {a} /\ n = at.likes + 1 BY Zenon
    <3>2. PICK new : new = [at EXCEPT !.likes = n] BY Zenon
    <3>3. post' = [post EXCEPT ![p] = new] /\ like' = [like EXCEPT ![p] = liked]
      BY <1>0, <2>3, <2>5, <3>1, <3>2 DEF FeedData
    <3>4. Counted(at, like[p], logged[p]) /\ at.status # "none"
      BY <1>0, <2>3, <2>5, <3>1, FeedExists DEF FeedData
    <3>5. n \in Int BY <3>1, <3>4 DEF Counted, FeedRow
    <3>6. new \in FeedRow /\ new.status = at.status /\ new.created = at.created /\ new.product = at.product
          /\ new.likes = n /\ new.shares = at.shares /\ new.patronage = at.patronage
      BY <3>2, <3>4, <3>5 DEF Counted, FeedRow
    <3>7. IsFiniteSet(liked) /\ Cardinality(liked) = n
      BY <2>5, <3>1, <3>4, FS_AddElement DEF Counted
    <3>8. Counted(new, liked, logged[p]) BY <3>4, <3>6, <3>7 DEF Counted
    <3>9. new.product => product BY <1>0, <2>3, <3>1, <3>6, Zenon DEF FeedData
    <3> QED BY <2>2, <2>3, <3>1, <3>3, <3>4, <3>6, <3>8, <3>9, PostTold, Zenon
  <2> QED BY <1>6, <2>1, <2>4, <2>5 DEF FE!Like
<1>7. ASSUME NEW q \in Requests, FE!Is(q, "unlike"), FE!Unlike(q) PROVE FeedInv'
  <2>1. PICK p, a : p = posting[q].id /\ a = posting[q].actor OBVIOUS
  <2>2. FE!End(q) /\ UNCHANGED <<now, entitlement, product, logged>> BY <1>7 DEF FE!Unlike
  <2>3. /\ p \in Posts /\ FeedCalls'
        /\ \A r \in Requests : posting'[r].op = "create" => posting[r].op = "create"
    BY <1>4, <1>7, <2>1, <2>2 DEF FE!Is
  <2>4. CASE UNCHANGED <<like, post>> BY <1>5, <2>2, <2>3, <2>4
  <2>5. CASE /\ a \in like[p]
             /\ like' = [like EXCEPT ![p] = @ \ {a}] /\ post' = [post EXCEPT ![p].likes = @ - 1]
    <3>1. PICK at, liked, n : at = post[p] /\ liked = like[p] \ {a} /\ n = at.likes - 1 BY Zenon
    <3>2. PICK new : new = [at EXCEPT !.likes = n] BY Zenon
    <3>3. post' = [post EXCEPT ![p] = new] /\ like' = [like EXCEPT ![p] = liked]
      BY <1>0, <2>3, <2>5, <3>1, <3>2 DEF FeedData
    <3>4. Counted(at, like[p], logged[p]) BY <1>0, <2>3, <3>1 DEF FeedData
    <3>5. at.likes = Cardinality(like[p]) /\ IsFiniteSet(like[p]) /\ at.likes # 0
      BY <2>5, <3>4, FS_EmptySet DEF Counted
    <3>6. at.status # "none"
      <4>1. FE!NoPost.likes = 0 BY DEF FE!NoPost
      <4> QED BY <3>4, <3>5, <4>1 DEF Counted
    <3>7. n \in Int BY <3>1, <3>4 DEF Counted, FeedRow
    <3>8. new \in FeedRow /\ new.status = at.status /\ new.created = at.created /\ new.product = at.product
          /\ new.likes = n /\ new.shares = at.shares /\ new.patronage = at.patronage
      BY <3>2, <3>4, <3>7 DEF Counted, FeedRow
    <3>9. IsFiniteSet(liked) /\ Cardinality(liked) = n
      BY <2>5, <3>1, <3>5, FS_RemoveElement, Zenon
    <3>10. Counted(new, liked, logged[p]) BY <3>4, <3>6, <3>8, <3>9 DEF Counted
    <3>11. new.product => product BY <1>0, <2>3, <3>1, <3>8, Zenon DEF FeedData
    <3> QED BY <2>2, <2>3, <3>1, <3>3, <3>6, <3>8, <3>10, <3>11, PostTold, Zenon
  <2> QED BY <1>7, <2>1, <2>4, <2>5 DEF FE!Unlike
<1>8. ASSUME NEW q \in Requests, FE!Is(q, "share"), FE!MarkShare(q) PROVE FeedInv'
  <2>1. PICK p : p = posting[q].id OBVIOUS
  <2>2. FE!End(q) /\ UNCHANGED <<now, entitlement, product, like>> BY <1>8 DEF FE!MarkShare
  <2>3. /\ p \in Posts /\ FeedCalls'
        /\ \A r \in Requests : posting'[r].op = "create" => posting[r].op = "create"
    BY <1>4, <1>8, <2>1, <2>2 DEF FE!Is
  <2>4. CASE UNCHANGED <<post, logged>> BY <1>5, <2>2, <2>3, <2>4
  <2>5. CASE /\ FE!Exists(p) /\ post' = [post EXCEPT ![p].shares = @ + 1]
             /\ logged' = [logged EXCEPT ![p].share = @ + 1]
    <3>1. PICK at, events, n, m : /\ at = post[p] /\ events = logged[p]
                                  /\ n = at.shares + 1 /\ m = events.share + 1
      OBVIOUS
    <3>2. PICK new, told : new = [at EXCEPT !.shares = n] /\ told = [events EXCEPT !.share = m] BY Zenon
    <3>3. post' = [post EXCEPT ![p] = new] /\ logged' = [logged EXCEPT ![p] = told]
      BY <1>0, <2>3, <2>5, <3>1, <3>2 DEF FeedData
    <3>4. Counted(at, like[p], events) /\ at.status # "none"
      BY <1>0, <2>3, <2>5, <3>1, FeedExists DEF FeedData
    <3>5. events.share \in Nat /\ at.shares = events.share BY <3>4 DEF Counted
    <3>6. m \in Nat /\ n = m /\ n \in Int BY <3>1, <3>5
    <3>7. new \in FeedRow /\ new.status = at.status /\ new.created = at.created /\ new.product = at.product
          /\ new.likes = at.likes /\ new.shares = n /\ new.patronage = at.patronage
      BY <3>2, <3>4, <3>6 DEF Counted, FeedRow
    <3>8. told \in [share : Nat, cta : Nat] /\ told.share = m /\ told.cta = events.cta
      BY <3>2, <3>4, <3>6 DEF Counted
    <3>9. Counted(new, like[p], told) BY <3>4, <3>6, <3>7, <3>8 DEF Counted
    <3>10. new.product => product BY <1>0, <2>3, <3>1, <3>7, Zenon DEF FeedData
    <3> QED BY <2>2, <2>3, <3>1, <3>3, <3>4, <3>7, <3>9, <3>10, PostTold, Zenon
  <2> QED BY <1>8, <2>1, <2>4, <2>5 DEF FE!MarkShare
<1>9. ASSUME NEW q \in Requests, FE!Is(q, "cta"), FE!TrackCta(q) PROVE FeedInv'
  <2>1. PICK p : p = posting[q].id OBVIOUS
  <2>2. FE!End(q) /\ UNCHANGED <<now, entitlement, product, like>> BY <1>9 DEF FE!TrackCta
  <2>3. /\ p \in Posts /\ FeedCalls'
        /\ \A r \in Requests : posting'[r].op = "create" => posting[r].op = "create"
    BY <1>4, <1>9, <2>1, <2>2 DEF FE!Is
  <2>4. CASE UNCHANGED <<post, logged>> BY <1>5, <2>2, <2>3, <2>4
  <2>5. CASE /\ FE!Exists(p) /\ post' = [post EXCEPT ![p].patronage = @ + 1]
             /\ logged' = [logged EXCEPT ![p].cta = @ + 1]
    <3>1. PICK at, events, n, m : /\ at = post[p] /\ events = logged[p]
                                  /\ n = at.patronage + 1 /\ m = events.cta + 1
      OBVIOUS
    <3>2. PICK new, told : new = [at EXCEPT !.patronage = n] /\ told = [events EXCEPT !.cta = m] BY Zenon
    <3>3. post' = [post EXCEPT ![p] = new] /\ logged' = [logged EXCEPT ![p] = told]
      BY <1>0, <2>3, <2>5, <3>1, <3>2 DEF FeedData
    <3>4. Counted(at, like[p], events) /\ at.status # "none"
      BY <1>0, <2>3, <2>5, <3>1, FeedExists DEF FeedData
    <3>5. events.cta \in Nat /\ at.patronage = events.cta BY <3>4 DEF Counted
    <3>6. m \in Nat /\ n = m /\ n \in Int BY <3>1, <3>5
    <3>7. new \in FeedRow /\ new.status = at.status /\ new.created = at.created /\ new.product = at.product
          /\ new.likes = at.likes /\ new.shares = at.shares /\ new.patronage = n
      BY <3>2, <3>4, <3>6 DEF Counted, FeedRow
    <3>8. told \in [share : Nat, cta : Nat] /\ told.cta = m /\ told.share = events.share
      BY <3>2, <3>4, <3>6 DEF Counted
    <3>9. Counted(new, like[p], told) BY <3>4, <3>6, <3>7, <3>8 DEF Counted
    <3>10. new.product => product BY <1>0, <2>3, <3>1, <3>7, Zenon DEF FeedData
    <3> QED BY <2>2, <2>3, <3>1, <3>3, <3>4, <3>7, <3>9, <3>10, PostTold, Zenon
  <2> QED BY <1>9, <2>1, <2>4, <2>5 DEF FE!TrackCta
<1> QED BY <1>1, <1>2, <1>6, <1>7, <1>8, <1>9, FeedAround DEF FE!EngageNext

LEMMA FeedHolds == ASSUME FeedInv PROVE FE!CountersExact /\ FE!PostsWithinPlan
<1>1. FeedData BY DEF FeedInv
<1>2. FE!CountersExact BY <1>1, FeedCounts DEF FE!CountersExact, FeedData, Counted
<1>3. \A p \in Posts : post[p].product => product BY <1>1 DEF FeedData
<1>4. solo => FE!Cardinality(FE!PostsToday) <= Allowance(entitlement, now)
  BY <1>1, FeedToday, FeedCounts DEF FeedInv, FeedQuota
<1> QED BY <1>2, <1>3, <1>4 DEF FE!PostsWithinPlan, Allowance

LEMMA FeedStart == ASSUME FE!Init PROVE FeedInv
<1>1. /\ now = 0 /\ product = TRUE /\ like = [p \in Posts |-> {}]
      /\ logged = [p \in Posts |-> [share |-> 0, cta |-> 0]]
      /\ posting = [q \in Requests |-> FE!Idle]
  BY DEF FE!Init
<1>2. entitlement.limit \in Nat
  <2>1. entitlement \in {[status |-> s, endDate |-> e, limit |-> n] :
           s \in {"active", "none"}, e \in {0, 1}, n \in PlanLimits}
    BY DEF FE!Init
  <2> QED BY <2>1, ServicesAssumption
<1>3. PICK first \in SUBSET Posts :
        /\ FE!Cardinality(first) <= 1
        /\ post = [p \in Posts |-> IF p \in first THEN FE!NewPost(0) ELSE FE!NoPost]
  BY DEF FE!Init
<1>4. PICK none, new, off : none = FE!NoPost /\ new = FE!NewPost(0) /\ off = FALSE BY Zenon
<1>4a. none = [status |-> "none", created |-> 0, product |-> off,
               likes |-> 0, shares |-> 0, patronage |-> 0]
  BY <1>4, Zenon DEF FE!NoPost
<1>4b. new = [none EXCEPT !.status = "published", !.created = 0]
  BY <1>4 DEF FE!NewPost
<1>4c. new = [status |-> "published", created |-> 0, product |-> off,
              likes |-> 0, shares |-> 0, patronage |-> 0]
  BY <1>4a, <1>4b, Zenon
<1>4d. off \in BOOLEAN /\ ~off BY <1>4, Zenon
<1>5. PICK told : told = [share |-> 0, cta |-> 0] BY Zenon
<1>6. told \in [share : Nat, cta : Nat] /\ told.share = 0 /\ told.cta = 0 BY <1>5
<1>7. \A at \in {new, none} :
        /\ at \in FeedRow /\ at.likes = 0 /\ at.shares = 0 /\ at.patronage = 0 /\ at.created = 0
        /\ ~at.product
        /\ (at.status = "none" => at = FE!NoPost)
  <2>1. /\ new \in FeedRow /\ new.likes = 0 /\ new.shares = 0 /\ new.patronage = 0 /\ new.created = 0
        /\ new.status = "published"
    BY <1>4c, <1>4d DEF FeedRow
  <2>2. ~new.product BY <1>4c, <1>4d
  <2>3. /\ none \in FeedRow /\ none.likes = 0 /\ none.shares = 0 /\ none.patronage = 0
        /\ none.created = 0
    BY <1>4a, <1>4d DEF FeedRow
  <2>4. ~none.product BY <1>4a, <1>4d
  <2> QED BY <1>4, <2>1, <2>2, <2>3, <2>4
<1>8. IsFiniteSet({}) /\ Cardinality({}) = 0 BY FS_EmptySet
<1>9. \A at \in {new, none} : Counted(at, {}, told)
  BY <1>6, <1>7, <1>8 DEF Counted
<1>10. \A p \in Posts : post[p] \in {new, none} /\ like[p] = {} /\ logged[p] = told
  BY <1>1, <1>3, <1>4, <1>5
<1>11. FeedData BY <1>1, <1>2, <1>3, <1>7, <1>9, <1>10 DEF FeedData
<1>12. FeedCalls BY <1>1 DEF FeedCalls, FeedCall
<1>13. FeedQuota
  <2>1. PICK S, a : S = Today(post, now) /\ a = Allowance(entitlement, now) OBVIOUS
  <2>2. S \in SUBSET first
    <3>1. \A p \in Posts : post[p].status # "none" => p \in first
      BY <1>3, <1>4, <1>4a
    <3> QED BY <2>1, <3>1 DEF Today
  <2>3. IsFiniteSet(first) /\ Cardinality(first) <= 1 /\ Cardinality(first) \in Nat
    BY <1>3, ServicesAssumption, FS_Subset, FS_CardinalityType, FeedCounts
  <2>4. Cardinality(S) <= 1 /\ Cardinality(S) \in Nat
    BY <2>2, <2>3, FS_Subset, FS_CardinalityType
  <2>5. a \in Nat \ {0} BY <1>2, <2>1, SomeLimit
  <2>6. Cardinality(S) <= a BY <2>4, <2>5
  <2>7. \A q \in Requests : posting[q].op # "create" BY <1>1 DEF FE!Idle
  <2> QED BY <2>1, <2>6, <2>7 DEF FeedQuota
<1> QED BY <1>11, <1>12, <1>13 DEF FeedInv

-----------------------------------------------------------------------------
(* Turns: a step of one part leaves the others alone *)

LEMMA PlatformTurn == ASSUME [ServicesNext]_servicesVars
  PROVE  /\ UNCHANGED <<focus, solo>>
         /\ focus = "quotas" => PA!QuotaNext \/ UNCHANGED paVars
<1>1. CASE ServiceStep /\ UNCHANGED <<focus, solo>>
  BY <1>1 DEF ServiceStep, PAStep, OBStep, FEStep, MSStep, NOStep, IGStep, ACStep, SEStep, SRStep
<1>2. CASE PaymentsStep /\ UNCHANGED <<focus, solo>>
  BY <1>2 DEF PaymentsStep
<1>3. CASE UNCHANGED servicesVars
  BY <1>3 DEF servicesVars
<1> QED BY <1>1, <1>2, <1>3 DEF ServicesNext

LEMMA ReadersTurn == ASSUME [ServicesNext]_servicesVars
  PROVE  /\ focus = "posts" => FE!PostNext \/ UNCHANGED feVars
         /\ focus = "engagement" => FE!EngageNext \/ UNCHANGED feVars
         /\ focus = "messages" => MS!CommsNext \/ UNCHANGED msVars
<1>1. CASE ServiceStep /\ UNCHANGED <<focus, solo>>
  BY <1>1 DEF ServiceStep, PAStep, OBStep, FEStep, MSStep, NOStep, IGStep, ACStep, SEStep, SRStep
<1>2. CASE PaymentsStep /\ UNCHANGED <<focus, solo>>
  BY <1>2 DEF PaymentsStep
<1>3. CASE UNCHANGED servicesVars
  BY <1>3 DEF servicesVars
<1> QED BY <1>1, <1>2, <1>3 DEF ServicesNext

LEMMA SendingTurn == ASSUME [ServicesNext]_servicesVars
  PROVE  /\ focus = "campaigns" => NO!DispatchNext \/ NO!CampaignNext \/ UNCHANGED noVars
         /\ focus = "reading" => NO!DispatchNext \/ NO!ReadingNext \/ UNCHANGED noVars
<1>1. CASE ServiceStep /\ UNCHANGED <<focus, solo>>
  BY <1>1 DEF ServiceStep, PAStep, OBStep, FEStep, MSStep, NOStep, IGStep, ACStep, SEStep, SRStep
<1>2. CASE PaymentsStep /\ UNCHANGED <<focus, solo>>
  BY <1>2 DEF PaymentsStep
<1>3. CASE UNCHANGED servicesVars
  BY <1>3 DEF servicesVars
<1> QED BY <1>1, <1>2, <1>3 DEF ServicesNext

LEMMA LinkingTurn == ASSUME [ServicesNext]_servicesVars
  PROVE  /\ focus = "connectors" => IG!ConnectorNext \/ IG!Crash \/ UNCHANGED igVars
         /\ focus = "outbox" => IG!OutboxNext \/ IG!Crash \/ UNCHANGED igVars
         /\ focus = "portal" => IG!PortalNext \/ IG!Crash \/ UNCHANGED igVars
<1>1. CASE ServiceStep /\ UNCHANGED <<focus, solo>>
  BY <1>1 DEF ServiceStep, PAStep, OBStep, FEStep, MSStep, NOStep, IGStep, ACStep, SEStep, SRStep
<1>2. CASE PaymentsStep /\ UNCHANGED <<focus, solo>>
  BY <1>2 DEF PaymentsStep
<1>3. CASE UNCHANGED servicesVars
  BY <1>3 DEF servicesVars
<1> QED BY <1>1, <1>2, <1>3 DEF ServicesNext

LEMMA FindingTurn == ASSUME [ServicesNext]_servicesVars
  PROVE  /\ focus = "health" => SE!HealthNext \/ UNCHANGED seVars
         /\ focus = "searching" => SR!SearchNext \/ UNCHANGED srVars
         /\ focus = "assistant" => SR!AssistantNext \/ UNCHANGED srVars
<1>1. CASE ServiceStep /\ UNCHANGED <<focus, solo>>
  BY <1>1 DEF ServiceStep, PAStep, OBStep, FEStep, MSStep, NOStep, IGStep, ACStep, SEStep, SRStep
<1>2. CASE PaymentsStep /\ UNCHANGED <<focus, solo>>
  BY <1>2 DEF PaymentsStep
<1>3. CASE UNCHANGED servicesVars
  BY <1>3 DEF servicesVars
<1> QED BY <1>1, <1>2, <1>3 DEF ServicesNext

-----------------------------------------------------------------------------
(* What a part holds it keeps while nothing happens to it *)

LEMMA QuotaSame == ASSUME QuotaInv, UNCHANGED paVars, UNCHANGED solo PROVE QuotaInv'
  BY DEF QuotaInv, paVars

LEMMA HealthSame == ASSUME HealthInv, UNCHANGED seVars, UNCHANGED solo PROVE HealthInv'
<1> USE DEF seVars
<1>1. \A q \in Requests : guarding[q] # SE!Idle => HealthKnows(guarding[q])'
  BY DEF HealthInv, HealthKnows, IsLatest, Named, SE!Checked
<1> QED BY <1>1 DEF HealthInv

LEMMA FindingSame == ASSUME UNCHANGED srVars, UNCHANGED solo
  PROVE  (SearchInv => SearchInv') /\ (UsageInv => UsageInv')
<1> USE DEF srVars
<1>1. SearchInv => SearchInv' BY DEF SearchInv
<1>2. UsageInv => UsageInv' BY DEF UsageInv
<1> QED BY <1>1, <1>2

LEMMA TalkSame == ASSUME TalkInv, UNCHANGED msVars, UNCHANGED solo PROVE TalkInv'
<1> USE DEF msVars
<1>1. \A q \in Requests : TalkCall(talking[q])' BY DEF TalkInv, TalkCall
<1>2. \A q \in Requests : TalkKnows(talking[q])' BY DEF TalkInv, TalkKnows, MS!Exists
<1>3. \A m \in Messages : Whole(m)' BY DEF TalkInv, Whole, MS!Exists
<1>4. TalkRows' BY DEF TalkInv, TalkRows
<1> QED BY <1>1, <1>2, <1>3, <1>4 DEF TalkInv

LEMMA ResultSame == ASSUME ResultInv, UNCHANGED noVars, UNCHANGED solo PROVE ResultInv'
  BY DEF ResultInv, noVars, NO!Sends

LEMMA LinkingSame == ASSUME UNCHANGED igVars, UNCHANGED solo
  PROVE  /\ ConnectorInv => ConnectorInv'
         /\ OutboxInv => OutboxInv'
         /\ PortalInv => PortalInv'
<1> USE DEF igVars
<1>1. ConnectorInv => ConnectorInv' BY DEF ConnectorInv, NoOutbox
<1>2. OutboxInv => OutboxInv' BY DEF OutboxInv, Turns, Sober
<1>3. PortalInv => PortalInv' BY DEF PortalInv, NoOutbox
<1> QED BY <1>1, <1>2, <1>3

LEMMA FeedSame == ASSUME FeedInv, UNCHANGED feVars, UNCHANGED solo PROVE FeedInv'
<1>1. FeedData' /\ FeedCalls' BY DEF FeedInv, FeedData, FeedCalls, feVars
<1>2. FeedQuota' BY DEF FeedInv, FeedQuota, feVars
<1> QED BY <1>1, <1>2 DEF FeedInv

-----------------------------------------------------------------------------
(* What every part holds as it begins *)

LEMMA QuotaStart == ASSUME PA!Init PROVE QuotaInv
<1>1. /\ admitted = [t \in Metered |-> 0] /\ window = 0
      /\ asking = [q \in Requests |-> PA!Idle]
  BY DEF PA!Init
<1>2. quota \in [Metered -> QuotaRow] /\ \A t \in Metered : quota[t].current = 0
  BY ServicesAssumption DEF PA!Init, QuotaRow, PA!NoQuota
<1>3. Limit \in Nat /\ window \in 0..Windows BY <1>1, ServicesAssumption
<1> QED BY <1>1, <1>2, <1>3 DEF QuotaInv

LEMMA QuotaIsHeld == ASSUME QuotaInv PROVE PA!QuotaHolds
  BY DEF QuotaInv, PA!QuotaHolds

LEMMA HealthStart == ASSUME SE!Init PROVE HealthInv
<1>1. check = <<>> /\ health = <<>> /\ guarding = [q \in Requests |-> SE!Idle] BY DEF SE!Init
<1> QED BY <1>1 DEF HealthInv

LEMMA FindingStart == ASSUME SR!Init PROVE SearchInv /\ UsageInv
<1>1. SearchInv BY FS_EmptySet DEF SR!Init, SR!Idle, SearchInv
<1>2. UsageInv BY FS_EmptySet DEF SR!Init, SR!Idle, UsageInv, WaitingIn
<1> QED BY <1>1, <1>2

LEMMA TalkStart == ASSUME MS!Init PROVE TalkInv
<1>1. talking = [q \in Requests |-> MS!Idle] BY DEF MS!Init
<1>2. TalkRows BY ServicesAssumption DEF MS!Init, TalkRows, MS!NoMessage
<1>3. \A m \in Messages : Whole(m)
  <2>1. \A m \in Messages : \A a \in MS!Authors : reply[m][a] = 0 BY DEF MS!Init
  <2>2. \A m \in Messages : \A r \in MS!Readers : receipt[m][r] = 0 BY DEF MS!Init
  <2>3. Merchants \subseteq MS!Authors BY DEF MS!Authors
  <2> QED BY <2>1, <2>2, <2>3 DEF Whole
<1>4. \A q \in Requests : TalkCall(talking[q]) /\ TalkKnows(talking[q])
  BY <1>1 DEF TalkCall, TalkKnows, MS!Idle
<1> QED BY <1>1, <1>2, <1>3, <1>4 DEF TalkInv

LEMMA LinkingStart == ASSUME IG!Init PROVE ConnectorInv /\ OutboxInv /\ PortalInv
<1>1. /\ outbox = [w \in Webhooks |-> IG!NotQueued] /\ accepted = [w \in Webhooks |-> 0]
      /\ sync = <<>> /\ log = <<>> /\ linking = [q \in Requests |-> IG!Idle] /\ due = {}
  BY DEF IG!Init
<1>2. ConnectorInv
  <2>1. \A q \in Requests : JobCall(linking[q]) /\ JobKnows(linking[q], sync)
    BY <1>1 DEF JobCall, JobKnows, IG!Idle, SyncCalls
  <2>2. sync \in Seq({"running", "completed", "failed"}) /\ DOMAIN sync = {} BY <1>1
  <2> QED BY <1>1, <2>1, <2>2 DEF ConnectorInv, NoOutbox
<1>3. OutboxInv
  <2>1. \A q \in Requests : DrainKnows(linking[q], outbox, accepted, Sober)
    BY <1>1 DEF DrainKnows, IG!Idle
  <2>2. \A w \in Webhooks : OutboxRow(w, outbox[w], accepted[w], HeldBy(linking, w), Sober)
    BY <1>1 DEF OutboxRow, IG!NotQueued
  <2> QED BY <1>1, <2>1, <2>2 DEF OutboxInv, Turns
<1>4. PortalInv
  <2>1. IG!Idle \notin TriggerCalls BY DEF IG!Idle, TriggerCalls
  <2>2. \A q \in Requests : TriggerCall(linking[q]) /\ TriggerKnows(linking[q], log)
    BY <1>1, <2>1 DEF TriggerCall, TriggerKnows
  <2>3. DOMAIN log = {} /\ log \in Seq(LogRow) BY <1>1
  <2>4. \A q \in Requests : linking[q] \notin TriggerCalls BY <1>1, <2>1
  <2> QED BY <1>1, <2>2, <2>3, <2>4 DEF PortalInv, NoOutbox
<1> QED BY <1>2, <1>3, <1>4

-----------------------------------------------------------------------------
(* Tallies *)

\* The invariant of the part in focus.
TalliesInv ==
    /\ focus = "quotas" => QuotaInv
    /\ focus \in {"posts", "engagement"} => FeedInv
    /\ focus = "messages" => TalkInv
    /\ focus \in {"campaigns", "reading"} => ResultInv
    /\ focus = "connectors" => ConnectorInv
    /\ focus = "outbox" => OutboxInv
    /\ focus = "portal" => PortalInv
    /\ focus = "searching" => SearchInv
    /\ focus = "assistant" => UsageInv
    /\ focus = "health" => HealthInv

LEMMA TalliesHold == ASSUME TalliesInv PROVE TalliesExact
<1>1. ASSUME focus \in {"connectors", "outbox", "portal"}
      PROVE  IG!OutboxHonest /\ IG!RunningIsHeld
  BY <1>1, ConnectorHolds, OutboxHolds, PortalHolds DEF TalliesInv
<1> QED
  BY <1>1, QuotaIsHeld, FeedHolds, TalkWhole, ResultsHold, SearchViews, UsageHolds, HealthStatus
  DEF TalliesInv, TalliesExact

LEMMA TalliesStep == ASSUME TalliesInv, [ServicesNext]_servicesVars PROVE TalliesInv'
<1>0. UNCHANGED focus /\ UNCHANGED solo BY PlatformTurn
<1>1. focus = "quotas" => QuotaInv'
  BY <1>0, PlatformTurn, QuotaStep, QuotaSame DEF TalliesInv
<1>2. focus \in {"posts", "engagement"} => FeedInv'
  BY <1>0, ReadersTurn, PostStep, EngageStep, FeedSame DEF TalliesInv
<1>3. focus = "messages" => TalkInv'
  BY <1>0, ReadersTurn, TalkStep, TalkSame DEF TalliesInv
<1>4. focus \in {"campaigns", "reading"} => ResultInv'
  BY <1>0, SendingTurn, ResultDispatch, ResultCampaign, ResultReading, ResultSame DEF TalliesInv
<1>5. focus = "connectors" => ConnectorInv'
  BY <1>0, LinkingTurn, ConnectorStep, LinkingSame DEF TalliesInv
<1>6. focus = "outbox" => OutboxInv'
  BY <1>0, LinkingTurn, OutboxStep, LinkingSame DEF TalliesInv
<1>7. focus = "portal" => PortalInv'
  BY <1>0, LinkingTurn, PortalStep, LinkingSame DEF TalliesInv
<1>8. focus = "searching" => SearchInv'
  BY <1>0, FindingTurn, SearchStep, FindingSame DEF TalliesInv
<1>9. focus = "assistant" => UsageInv'
  BY <1>0, FindingTurn, UsageStep, FindingSame DEF TalliesInv
<1>10. focus = "health" => HealthInv'
  BY <1>0, FindingTurn, HealthStep, HealthSame DEF TalliesInv
<1> QED
  BY <1>0, <1>1, <1>2, <1>3, <1>4, <1>5, <1>6, <1>7, <1>8, <1>9, <1>10 DEF TalliesInv

\* Counters and histories say what the rows behind them say: a quota lets no
\* more through than its limit (api-quota.guard.ts), a post's likes, shares and
\* visits are those logged and no day has more posts than the plan allowed
\* (mobile-bff.service.ts, feed.service.ts), threads and receipts stay whole
\* (comms.service.ts), a send that ended has all its results
\* (notifications.service.ts), a webhook marked delivered was accepted and a
\* running sync is somebody's (integrations.service.ts), the index answers
\* with what was found (search.service.ts), the assistant's usage is what was
\* answered (ai.service.ts) and the status names each service once
\* (infrastructure.service.ts).  The quota, the posts of a day, the receipts,
\* the single acceptance and the latest status are claimed for requests
\* that do not overlap, as the definitions say.
THEOREM TalliesSound == ServicesSpec => []TalliesExact
<1>1. ServicesInit => TalliesInv
  BY QuotaStart, FeedStart, TalkStart, ResultStart, LinkingStart, FindingStart, HealthStart
  DEF ServicesInit, TalliesInv
<1>2. TalliesInv /\ [ServicesNext]_servicesVars => TalliesInv'
  BY TalliesStep
<1>3. TalliesInv => TalliesExact
  BY TalliesHold
<1> QED BY <1>1, <1>2, <1>3, PTL DEF ServicesSpec
=============================================================================
