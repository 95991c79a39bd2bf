------------------------------ MODULE Payments ------------------------------
(***************************************************************************)
(* Payment intents of one tenant between the payments service and an       *)
(* external provider: initialisation, verification, webhooks, refunds and  *)
(* settlements as concurrent requests. Each await, on the database or on   *)
(* the provider, is a step; nothing runs in a transaction.                 *)
(***************************************************************************)
EXTENDS Naturals, FiniteSets

CONSTANTS
    Requests,    \* request slots: customers, staff, webhook deliveries
    Intents,     \* rows of payment_intents
    Settlements, \* rows of settlements
    MaxRefunds,  \* bound: refunds a provider grants for one payment
    MaxEvents    \* bound: financial events of one kind for one row

ASSUME PaymentsAssumption ==
    /\ IsFiniteSet(Requests)
    /\ MaxRefunds \in Nat /\ MaxEvents \in Nat

VARIABLES
    provider,   \* external: the session, whether it was paid, refunds granted,
                \* and whether a webhook delivery named it
    intent,     \* PaymentIntent: status, externalId set
    charge,     \* status of the intent's PaymentTransaction of type charge
    refunds,    \* its completed PaymentTransactions of type refund
    ledger,     \* FinancialEvents: payment_received, refund_issued per intent
    settlement, \* Settlement: status, settlement_received events
    pc,         \* where each request is
    job         \* what it has read

rows == <<intent, charge, refunds, ledger>>
vars == <<provider, rows, settlement, pc, job>>

NoJob == [row |-> "none", ok |-> FALSE]

Init ==
    /\ provider = [i \in Intents |-> [session |-> FALSE, paid |-> FALSE,
                                     told |-> FALSE, refunds |-> 0]]
    /\ intent = [i \in Intents |-> [status |-> "absent", ext |-> FALSE]]
    /\ charge = [i \in Intents |-> "absent"]
    /\ refunds = [i \in Intents |-> 0]
    /\ ledger = [i \in Intents |-> [received |-> 0, issued |-> 0]]
    /\ settlement = [s \in Settlements |-> [status |-> "absent", events |-> 0]]
    /\ pc = [p \in Requests |-> "idle"]
    /\ job = [p \in Requests |-> NoJob]

Goto(p, loc, j) == pc' = [pc EXCEPT ![p] = loc] /\ job' = [job EXCEPT ![p] = j]
Done(p) == Goto(p, "idle", NoJob)
Begin(p, loc, r) == pc[p] = "idle" /\ Goto(p, loc, [NoJob EXCEPT !.row = r])

-----------------------------------------------------------------------------
(* The provider: a customer pays once the checkout link was handed out.    *)

Pay(i) ==
    /\ provider[i].session /\ charge[i] # "absent"
    /\ provider' = [provider EXCEPT ![i].paid = TRUE]
    /\ UNCHANGED <<rows, settlement, pc, job>>

\* Whether the provider reports the payment as successful: a refunded one is,
\* or is not, depending on the provider.
Reports(i) ==
    IF ~ provider[i].paid THEN {FALSE}
    ELSE IF provider[i].refunds = 0 THEN {TRUE} ELSE BOOLEAN

-----------------------------------------------------------------------------
(* initializePayment                                                       *)

InitializePayment(p, i) ==
    /\ intent[i].status = "absent"
    /\ intent' = [intent EXCEPT ![i].status = "created"]
    /\ Begin(p, "open", i)
    /\ UNCHANGED <<provider, charge, refunds, ledger, settlement>>

\* The adapter turns errors into a failure, the session existing or not.
OpenSession(p) ==
    /\ pc[p] = "open"
    /\ \/ /\ provider' = [provider EXCEPT ![job[p].row].session = TRUE]
          /\ Goto(p, "opened", job[p]) \/ Goto(p, "refused", job[p])
       \/ Goto(p, "refused", job[p]) /\ UNCHANGED provider
    /\ UNCHANGED <<rows, settlement>>

MarkPending(p) ==
    /\ pc[p] = "opened"
    /\ intent' = [intent EXCEPT ![job[p].row] = [status |-> "pending", ext |-> TRUE]]
    /\ Goto(p, "charge", job[p])
    /\ UNCHANGED <<provider, charge, refunds, ledger, settlement>>

CreateCharge(p) ==
    /\ pc[p] = "charge"
    /\ charge' = [charge EXCEPT ![job[p].row] = "pending"]
    /\ Done(p)
    /\ UNCHANGED <<provider, intent, refunds, ledger, settlement>>

MarkFailed(p) ==
    /\ pc[p] = "refused"
    /\ intent' = [intent EXCEPT ![job[p].row].status = "failed"]
    /\ Done(p)
    /\ UNCHANGED <<provider, charge, refunds, ledger, settlement>>

-----------------------------------------------------------------------------
(* verifyPayment                                                           *)

VerifyPayment(p, i) ==
    /\ intent[i].ext
    /\ Begin(p, "ask", i)
    /\ UNCHANGED <<provider, rows, settlement>>

AskProvider(p) ==
    /\ pc[p] = "ask"
    /\ \E ok \in Reports(job[p].row) : Goto(p, "verdict", [job[p] EXCEPT !.ok = ok])
    /\ UNCHANGED <<provider, rows, settlement>>

\* mutant: the provider's own word
ProviderWord(p) == IF job[p].ok THEN "successful" ELSE "failed"
Outcome(p) == IF job[p].ok THEN "completed" ELSE "failed"

\* Written by id, whatever the intent has become since the provider answered.
WriteVerdict(p) ==
    /\ pc[p] = "verdict"
    /\ intent' = [intent EXCEPT ![job[p].row].status = Outcome(p)]
    /\ Goto(p, "settle", job[p])
    /\ UNCHANGED <<provider, charge, refunds, ledger, settlement>>

\* The latest charge, when there is one.
SettleCharge(p) ==
    /\ pc[p] = "settle"
    /\ charge' = [charge EXCEPT ![job[p].row] = IF @ = "absent" THEN @ ELSE Outcome(p)]
    /\ Goto(p, "receive", job[p])
    /\ UNCHANGED <<provider, intent, refunds, ledger, settlement>>

AlwaysReceived(p) ==                     \* mutant: payment_received for every verdict
    /\ pc[p] = "receive"
    /\ ledger[job[p].row].received < MaxEvents
    /\ ledger' = [ledger EXCEPT ![job[p].row].received = @ + 1]
    /\ Done(p)
    /\ UNCHANGED <<provider, intent, charge, refunds, settlement>>

\* A payment_received event (or payment_failed, which nothing counts).
RecordReceipt(p) ==
    /\ pc[p] = "receive"
    /\ IF job[p].ok THEN /\ ledger[job[p].row].received < MaxEvents
                         /\ ledger' = [ledger EXCEPT ![job[p].row].received = @ + 1]
                    ELSE UNCHANGED ledger
    /\ Done(p)
    /\ UNCHANGED <<provider, intent, charge, refunds, settlement>>

-----------------------------------------------------------------------------
(* processWebhook: a delivery names a reference, early, late or twice. The *)
(* provider is not asked what became of it.                                *)

\* The event row is stored and the adapter parses the payload.
ReceiveWebhook(p, i) ==
    /\ Begin(p, "webhook", i)
    /\ provider' = [provider EXCEPT ![i].told = TRUE]
    /\ UNCHANGED <<rows, settlement>>

\* updateMany: every intent with this reference, in whatever state it is; other
\* words than "success" and "successful" (Stripe's among them) change nothing.
CompleteByWebhook(p) ==
    /\ pc[p] = "webhook"
    /\ \/ /\ intent[job[p].row].ext
          /\ intent' = [intent EXCEPT ![job[p].row].status = "completed"]
       \/ UNCHANGED intent
    /\ Done(p)
    /\ UNCHANGED <<provider, charge, refunds, ledger, settlement>>

-----------------------------------------------------------------------------
(* processRefund                                                           *)

ProcessRefund(p, i) ==
    /\ intent[i].status = "completed"
    /\ Begin(p, "refund", i)
    /\ UNCHANGED <<provider, rows, settlement>>

\* The provider grants it or not; the adapter reports errors as refusals, a
\* lost answer of a granted refund included.
AskRefund(p) ==
    /\ pc[p] = "refund"
    /\ LET i == job[p].row IN
       \/ /\ provider[i].refunds < MaxRefunds
          /\ provider' = [provider EXCEPT ![i].refunds = @ + 1]
          /\ \E ok \in BOOLEAN : Goto(p, "granted", [job[p] EXCEPT !.ok = ok])
       \/ /\ Goto(p, "granted", [job[p] EXCEPT !.ok = FALSE])
          /\ UNCHANGED provider
    /\ UNCHANGED <<rows, settlement>>

RecordAlways(p) ==                       \* mutant: failed refunds stored as completed
    /\ pc[p] = "granted"
    /\ refunds' = [refunds EXCEPT ![job[p].row] = @ + 1]
    /\ IF job[p].ok THEN Goto(p, "refunded", job[p]) ELSE Done(p)
    /\ UNCHANGED <<provider, intent, charge, ledger, settlement>>

RecordRefund(p) ==
    /\ pc[p] = "granted"
    /\ refunds' = [refunds EXCEPT ![job[p].row] = IF job[p].ok THEN @ + 1 ELSE @]
    /\ IF job[p].ok THEN Goto(p, "refunded", job[p]) ELSE Done(p)
    /\ UNCHANGED <<provider, intent, charge, ledger, settlement>>

MarkRefunded(p) ==
    /\ pc[p] = "refunded"
    /\ intent' = [intent EXCEPT ![job[p].row].status = "refunded"]
    /\ Goto(p, "issue", job[p])
    /\ UNCHANGED <<provider, charge, refunds, ledger, settlement>>

IssueRefund(p) ==
    /\ pc[p] = "issue"
    /\ ledger' = [ledger EXCEPT ![job[p].row].issued = @ + 1]
    /\ Done(p)
    /\ UNCHANGED <<provider, intent, charge, refunds, settlement>>

-----------------------------------------------------------------------------
(* Settlements: one row per reference, confirmed by hand.                  *)

RecordSettlement(s) ==
    /\ settlement[s].status = "absent"
    /\ settlement' = [settlement EXCEPT ![s].status = "pending"]
    /\ UNCHANGED <<provider, rows, pc, job>>

ConfirmSettlement(p, s) ==
    /\ settlement[s].status # "absent"
    /\ Begin(p, "confirm", s)
    /\ UNCHANGED <<provider, rows, settlement>>

EventFirst(p) ==                         \* mutant: the event before the status
    /\ pc[p] = "confirm"
    /\ settlement[job[p].row].events < MaxEvents
    /\ settlement' = [settlement EXCEPT ![job[p].row].events = @ + 1]
    /\ Goto(p, "confirmed", job[p])
    /\ UNCHANGED <<provider, rows>>

MarkSettled(p) ==
    /\ pc[p] = "confirm"
    /\ settlement' = [settlement EXCEPT ![job[p].row].status = "settled"]
    /\ Goto(p, "confirmed", job[p])
    /\ UNCHANGED <<provider, rows>>

RecordSettled(p) ==
    /\ pc[p] = "confirmed"
    /\ settlement[job[p].row].events < MaxEvents
    /\ settlement' = [settlement EXCEPT ![job[p].row].events = @ + 1]
    /\ Done(p)
    /\ UNCHANGED <<provider, rows>>

-----------------------------------------------------------------------------
\* A failed query, a lost answer or a restart between two steps.
Fail(p) ==
    /\ pc[p] # "idle"
    /\ Done(p)
    /\ UNCHANGED <<provider, rows, settlement>>

Step(p) ==
    \/ \E i \in Intents : \/ InitializePayment(p, i) \/ VerifyPayment(p, i)
                          \/ ReceiveWebhook(p, i) \/ ProcessRefund(p, i)
    \/ OpenSession(p) \/ MarkPending(p) \/ CreateCharge(p) \/ MarkFailed(p)
    \/ AskProvider(p) \/ WriteVerdict(p) \/ SettleCharge(p) \/ RecordReceipt(p)
    \/ CompleteByWebhook(p)
    \/ AskRefund(p) \/ RecordRefund(p) \/ MarkRefunded(p) \/ IssueRefund(p)
    \/ \E s \in Settlements : ConfirmSettlement(p, s)
    \/ MarkSettled(p) \/ RecordSettled(p)
    \/ Fail(p)

Next ==
    \/ \E p \in Requests : Step(p)
    \/ \E i \in Intents : Pay(i)
    \/ \E s \in Settlements : RecordSettlement(s)

Spec == Init /\ [][Next]_vars

-----------------------------------------------------------------------------
Loc == {"idle", "open", "opened", "refused", "charge", "ask", "verdict", "settle", "receive",
        "webhook", "refund", "granted", "refunded", "issue", "confirm", "confirmed"}
IntentStatus == {"absent", "created", "pending", "completed", "failed", "refunded"}
Outcomes == {"completed", "failed"}

\* Every column and every local of a request holds a value of its type, and a
\* request works on a row of the table its step writes.
TypeOK ==
    /\ provider \in [Intents -> [session : BOOLEAN, paid : BOOLEAN, told : BOOLEAN,
                               refunds : Nat]]
    /\ intent \in [Intents -> [status : IntentStatus, ext : BOOLEAN]]
    /\ charge \in [Intents -> {"absent", "pending"} \cup Outcomes]
    /\ refunds \in [Intents -> Nat]
    /\ ledger \in [Intents -> [received : Nat, issued : Nat]]
    /\ settlement \in [Settlements -> [status : {"absent", "pending", "settled"}, events : Nat]]
    /\ pc \in [Requests -> Loc]
    /\ job \in [Requests -> [row : Intents \cup Settlements \cup {"none"}, ok : BOOLEAN]]
    /\ \A p \in Requests : pc[p] # "idle" => job[p].row \in
           IF pc[p] \in {"confirm", "confirmed"} THEN Settlements ELSE Intents

\* In every order of verifications, webhooks, refunds and failures a charge is
\* completed and a payment booked as received only for an intent its customer
\* paid. The status of an intent, and with it a refund, may rest on a webhook
\* that named the intent instead: that handler does not ask the provider.
Vouched(i) == provider[i].paid \/ provider[i].told
ReceivedWasPaid ==
    \A i \in Intents :
        /\ charge[i] = "completed" \/ ledger[i].received > 0 => provider[i].paid
        /\ \/ intent[i].status \in {"completed", "refunded"}
           \/ refunds[i] > 0 \/ provider[i].refunds > 0
           => Vouched(i)

\* The books never show a refund the provider did not grant: refund events are
\* at most the completed refund transactions, those at most the granted refunds,
\* the requests between two of these records accounted for.
InStep(i, locs) == {p \in Requests : job[p].row = i /\ job[p].ok /\ pc[p] \in locs}
InFlight(i, locs) == Cardinality(InStep(i, locs))
RefundsBacked ==
    \A i \in Intents :
        /\ ledger[i].issued + InFlight(i, {"refunded", "issue"}) <= refunds[i]
        /\ refunds[i] + InFlight(i, {"granted"}) <= provider[i].refunds

\* A settlement is in the ledger only once it is marked settled.
SettledBeforeRecorded ==
    \A s \in Settlements : settlement[s].events > 0 => settlement[s].status = "settled"

-----------------------------------------------------------------------------
\* payments.service.ts:146 "Can only refund completed payments": a payment that
\* was refunded is not completed any more and is not refunded again.
RefundedOnce == \A i \in Intents : refunds[i] <= 1
=============================================================================
