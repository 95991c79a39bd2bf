-------------------------------- MODULE Forms --------------------------------
(* A merchant's form: its fields, the submissions that are checked against *)
(* them, and the approval workflow of a submission.  An edit replaces the  *)
(* fields by a delete and an insert, an approval is inserted, counted and  *)
(* written to the submission, each in a statement of its own.              *)
EXTENDS Integers, FiniteSets, Sequences

CONSTANTS
    Requests,      \* requests in flight at most
    Submissions,   \* ids of submissions
    Questions,     \* field rows a merchant may ask for
    Answers,       \* values a customer may give
    FormRivals,    \* which kinds of requests overlap, by behaviour
    MaxSteps,      \* bound: steps of a workflow
    MaxEdits,      \* bound: versions of the form
    MaxApprovals   \* bound: approvals of one submission

VARIABLES
    form,          \* Form row: version (0: not yet, -1: deleted) and steps
                   \* (-1: no workflow)
    field,         \* FormField rows
    asked,         \* the fields each version was completed with
    submission,    \* FormSubmission rows
    approval,      \* FormApproval rows: action, and the steps it went by
    rival,         \* the kinds of requests that may overlap one another
    call           \* what each request read and has still to write

formVars == <<form, field, asked, submission, approval>>

Idle == [op |-> "idle"]
Free(q, op) ==
    /\ call[q] = Idle
    /\ \A r \in Requests : call[r] # Idle => {op, call[r].op} \subseteq rival
Begin(q, c) == Free(q, c.op) /\ call' = [call EXCEPT ![q] = c]
End(q) == call' = [call EXCEPT ![q] = Idle]
At(q, op, pc) == call[q].op = op /\ call[q].pc = pc

-----------------------------------------------------------------------------
(* Validation *)

\* A question: required, and the rules of its validation column.  A rule that
\* is 0 is not looked at, and without rules not even an email is.
Question(required, email, ruled, low, high) ==
    [required |-> required, email |-> email, ruled |-> ruled,
     low |-> low, high |-> high]
\* An answer: missing, a text (its length, and whether it is an address) or a
\* number.
Answer(kind, size, address) ==
    [kind |-> kind, size |-> size, address |-> address]

\* validateAnswers for one field.
Refuses(f, a) ==
    \/ f.required /\ (a.kind = "missing" \/ (a.kind = "text" /\ a.size = 0))
    \/ /\ a.kind # "missing" /\ f.ruled
       /\ \/ f.low # 0 /\ a.size < f.low
          \/ f.high # 0 /\ a.size > f.high
          \/ f.email /\ a.kind = "text" /\ ~a.address

-----------------------------------------------------------------------------
(* The form and its fields *)

NoSubmission == [version |-> 0, answer |-> [f \in {} |-> 0],
                 status |-> "none", state |-> FALSE]

CreateForm ==
    /\ form.version = 0
    /\ \E fs \in SUBSET Questions :
         /\ field' = fs
         /\ asked' = [asked EXCEPT ![1] = fs]
    /\ form' = [version |-> 1, steps |-> -1]
    /\ UNCHANGED <<submission, approval, call>>

ReadForm(q) ==
    /\ form.version \in 1..MaxEdits - 1
    /\ \E fs \in SUBSET Questions :
          Begin(q, [op |-> "update", pc |-> "drop", fields |-> fs])
    /\ UNCHANGED formVars
DropFields(q) ==
    /\ field' = {}
    /\ call' = [call EXCEPT ![q].pc = "add"]
    /\ UNCHANGED <<form, asked, submission, approval>>
\* A form deleted meanwhile refuses the rows.
AddFields(q) ==
    /\ form.version > 0
    /\ field' = field \cup call[q].fields
    /\ call' = [call EXCEPT ![q].pc = "bump"]
    /\ UNCHANGED <<form, asked, submission, approval>>
\* A row of the edit is refused: the old fields are gone, no new one came.
AddFieldsFails(q) ==
    /\ form.version = -1 \/ "fail" \in rival
    /\ End(q) /\ UNCHANGED formVars
BumpVersion(q) ==
    /\ IF form.version = -1 THEN UNCHANGED <<form, asked>>
       ELSE /\ form.version < MaxEdits
            /\ form' = [form EXCEPT !.version = @ + 1]
            /\ asked' = [asked EXCEPT ![form.version + 1] = field]
    /\ End(q)
    /\ UNCHANGED <<field, submission, approval>>

\* Fields, workflow, submissions and approvals go with the form.
DeleteForm ==
    /\ form.version > 0
    /\ form' = [version |-> -1, steps |-> -1]
    /\ field' = {} /\ asked' = [v \in 1..MaxEdits |-> {}]
    /\ submission' = [s \in Submissions |-> NoSubmission]
    /\ approval' = [s \in Submissions |-> <<>>]
    /\ UNCHANGED call
SetWorkflow ==
    /\ form.version > 0
    /\ \E n \in 0..MaxSteps : form' = [form EXCEPT !.steps = n]
    /\ UNCHANGED <<field, asked, submission, approval, call>>

-----------------------------------------------------------------------------
(* Submission *)

\* The form is read with its fields and workflow in one query.
ReadForSubmit(q, s) ==
    /\ form.version > 0
    /\ submission[s] = NoSubmission
    /\ \E a \in [Questions -> Answers] :
         /\ \A f \in field : ~Refuses(f, a[f])
         /\ Begin(q, [op |-> "submit", pc |-> "insert", id |-> s,
                      row |-> [version |-> form.version, answer |-> a,
                               status |-> "submitted",
                               state |-> form.steps # -1]])
    /\ UNCHANGED formVars
InsertSubmission(q) ==
    LET s == call[q].id IN
    /\ IF form.version = -1 \/ submission[s] # NoSubmission
       THEN UNCHANGED submission
       ELSE submission' = [submission EXCEPT ![s] = call[q].row]
    /\ End(q)
    /\ UNCHANGED <<form, field, asked, approval>>

-----------------------------------------------------------------------------
(* Approval *)

Required(steps) == IF steps > 0 THEN steps ELSE 1
Approvals(rows) == Cardinality({i \in 1..Len(rows) : rows[i].action = "approved"})

\* One query reads the submission, its form and the workflow.
ReadSubmission(q, s) ==
    /\ submission[s] # NoSubmission
    /\ Len(approval[s]) < MaxApprovals
    /\ \E action \in {"approved", "rejected", "noted"} :
         Begin(q, [op |-> "approve", pc |-> "insert", id |-> s,
                   action |-> action, status |-> submission[s].status,
                   state |-> submission[s].state,
                   needed |-> Required(form.steps)])
    /\ UNCHANGED formVars
InsertApproval(q) ==
    LET s == call[q].id IN
    /\ IF submission[s] = NoSubmission
       THEN End(q) /\ UNCHANGED approval
       ELSE /\ Len(approval[s]) < MaxApprovals
            /\ approval' = [approval EXCEPT ![s] =
                  Append(@, [action |-> call[q].action,
                             needed |-> call[q].needed])]
            /\ call' = [call EXCEPT ![q].pc = "count"]
    /\ UNCHANGED <<form, field, asked, submission>>

\* The status an approval leads to, from the submission it read first and the
\* approvals it counts now.
NewStatus(c, rows) ==
    CASE c.action = "approved" ->
           (IF Approvals(rows) >= c.needed THEN "approved"
            ELSE "pending_approval")
      [] c.action = "rejected" -> "rejected"
      [] OTHER -> c.status
CountApprovals(q) ==
    LET status == NewStatus(call[q], approval[call[q].id]) IN
    /\ IF status = call[q].status THEN End(q)
       ELSE call' = [call EXCEPT ![q] = [@ EXCEPT !.pc = "write",
                                                  !.status = status]]
    /\ UNCHANGED formVars
WriteStatus(q) ==
    LET s == call[q].id IN
    /\ IF submission[s] = NoSubmission THEN UNCHANGED submission
       ELSE submission' = [submission EXCEPT
               ![s].status = call[q].status,
               ![s].state = call[q].status # "approved" /\ call[q].state]
    /\ End(q)
    /\ UNCHANGED <<form, field, asked, approval>>

-----------------------------------------------------------------------------
Init ==
    /\ form = [version |-> 0, steps |-> -1]
    /\ field = {}
    /\ asked = [v \in 1..MaxEdits |-> {}]
    /\ submission = [s \in Submissions |-> NoSubmission]
    /\ approval = [s \in Submissions |-> <<>>]
    /\ rival \in FormRivals
    /\ call = [q \in Requests |-> Idle]

FormNext ==
    /\ \/ CreateForm
       \/ DeleteForm
       \/ SetWorkflow
       \/ \E q \in Requests : ReadForm(q)
       \/ \E q \in Requests : At(q, "update", "drop") /\ DropFields(q)
       \/ \E q \in Requests : At(q, "update", "add") /\ AddFields(q)
       \/ \E q \in Requests : At(q, "update", "add") /\ AddFieldsFails(q)
       \/ \E q \in Requests : At(q, "update", "bump") /\ BumpVersion(q)
       \/ \E q \in Requests : \E s \in Submissions : ReadForSubmit(q, s)
       \/ \E q \in Requests : At(q, "submit", "insert") /\ InsertSubmission(q)
       \/ \E q \in Requests : \E s \in Submissions : ReadSubmission(q, s)
       \/ \E q \in Requests : At(q, "approve", "insert") /\ InsertApproval(q)
       \/ \E q \in Requests : At(q, "approve", "count") /\ CountApprovals(q)
       \/ \E q \in Requests : At(q, "approve", "write") /\ WriteStatus(q)
    /\ UNCHANGED rival
Spec == Init /\ [][FormNext]_<<formVars, rival, call>>

-----------------------------------------------------------------------------
StatusSet == {"none", "submitted", "pending_approval", "approved", "rejected"}
TypeOK ==
    /\ form.version \in -1..MaxEdits /\ form.steps \in -1..MaxSteps
    /\ field \subseteq Questions
    /\ \A s \in Submissions : /\ submission[s].status \in StatusSet
                              /\ Len(approval[s]) <= MaxApprovals
    /\ \A q \in Requests : call[q].op \in {"idle", "update", "submit", "approve"}

\* Every stored submission passes the checks of the form version it names,
\* unless an edit failed or a submission came between an edit's delete and
\* its insert, when the form has no fields and anything is accepted.
SubmissionsChecked ==
    ("fail" \notin rival /\ ~({"update", "submit"} \subseteq rival)) =>
    \A s \in Submissions : submission[s] # NoSubmission =>
        \A f \in asked[submission[s].version] :
            ~Refuses(f, submission[s].answer[f])

\* The last word on a submission stands: rejected after a rejection, approved
\* once the last approval completes the steps it went by.  With overlapping
\* approvals the one that counted first may write last, and what holds is
\* that every decision has an approval row that says so.
DecisionStands ==
    \A s \in Submissions :
        LET rows == approval[s]
            last == rows[Len(rows)]
            status == submission[s].status
            quiet == \A q \in Requests : call[q].op # "approve"
        IN  /\ status = "approved" =>
                  \E i \in 1..Len(rows) : /\ rows[i].action = "approved"
                                          /\ rows[i].needed <= Approvals(rows)
            /\ status = "rejected" =>
                  \E i \in 1..Len(rows) : rows[i].action = "rejected"
            /\ (quiet /\ "approve" \notin rival /\ rows # <<>>) =>
                  /\ last.action = "rejected" => status = "rejected"
                  /\ last.action = "approved" =>
                       status = IF Approvals(rows) >= last.needed
                                THEN "approved" ELSE "pending_approval"
=============================================================================
