------------------------------ MODULE Messaging ------------------------------
(* Messages of the platform to merchants and app users: broadcasts, direct *)
(* messages, the replies on them and the read receipts.  A reply or a      *)
(* receipt looks the message (or an earlier receipt) up and is inserted    *)
(* later, whatever was deleted or inserted in between.                     *)
EXTENDS Integers, FiniteSets

CONSTANTS
    Requests,     \* requests in flight at most
    Messages,     \* ids of messages
    Merchants,    \* tenants
    Actors,       \* app users and devices
    MaxReplies,   \* bound: replies on a message of one author
    MaxReads      \* bound: receipts of one reader

VARIABLES
    message,      \* Announcement rows
    reply,        \* AnnouncementReply rows: how many of each author
    receipt,      \* AnnouncementRead rows: how many of each reader
    solo,         \* requests do not overlap in this behaviour
    call          \* what each request read and has still to write

commsVars == <<message, reply, receipt>>

Idle == [op |-> "idle"]
Free(q) == call[q] = Idle /\ (solo => \A r \in Requests : call[r] = Idle)
Begin(q, c) == Free(q) /\ call' = [call EXCEPT ![q] = c]
End(q) == call' = [call EXCEPT ![q] = Idle]

Platform == "platform"
Authors == Merchants \cup {Platform}
Readers == Merchants \cup Actors

NoMessage == [kind |-> "none", to |-> "none", media |-> FALSE]
Exists(m) == message[m] # NoMessage

-----------------------------------------------------------------------------
(* Sending *)

\* assertMediaRule: broadcasts to merchants alone and direct messages to a
\* merchant are text.
MayCarryMedia(kind, to) ==
    IF kind = "broadcast" THEN to # "merchants" ELSE to \notin Merchants

\* createAnnouncement: an audience, or exactly one recipient.
CreateAnnouncement(m) ==
    /\ ~Exists(m)
    /\ \E kind \in {"broadcast", "direct"} : \E media \in BOOLEAN :
       \E to \in {"merchants", "mobile", "both"} \cup Readers :
         /\ (kind = "broadcast") = (to \in {"merchants", "mobile", "both"})
         /\ media => MayCarryMedia(kind, to)
         /\ message' = [message EXCEPT ![m] =
                           [kind |-> kind, to |-> to, media |-> media]]
    /\ UNCHANGED <<reply, receipt, call>>

\* Replies and receipts go with the message.
DeleteAnnouncement(m) ==
    /\ Exists(m)
    /\ message' = [message EXCEPT ![m] = NoMessage]
    /\ reply' = [reply EXCEPT ![m] = [a \in Authors |-> 0]]
    /\ receipt' = [receipt EXCEPT ![m] = [r \in Readers |-> 0]]
    \* a new message has a new id: what is on its way to this one fails
    /\ call' = [q \in Requests |->
                  IF call[q] # Idle /\ call[q].id = m
                  THEN [call[q] EXCEPT !.id = "deleted"] ELSE call[q]]

-----------------------------------------------------------------------------
(* Who a message is for *)

\* The filter of the merchant's inbox and thread, and of the app's inbox.
ForMerchant(row, t) ==
    \/ row.kind = "broadcast" /\ row.to \in {"merchants", "both"}
    \/ row.kind = "direct" /\ row.to = t
ForActor(row, a) ==
    \/ row.kind = "broadcast" /\ row.to \in {"mobile", "both"}
    \/ row.kind = "direct" /\ row.to = a
Inbox(r) ==
    {m \in Messages : Exists(m) /\ IF r \in Merchants THEN ForMerchant(message[m], r)
                                   ELSE ForActor(message[m], r)}
Unread(r) == {m \in Inbox(r) : receipt[m][r] = 0}
\* The authors of the replies a merchant sees on a thread.
Visible(m, t) == {a \in {Platform, t} : reply[m][a] > 0}

-----------------------------------------------------------------------------
(* Answering and reading *)

\* addPlatformReply answers any message, merchantReply those of its inbox.
ReadForReply(q, m, a) ==
    /\ Exists(m)
    /\ a # Platform => ForMerchant(message[m], a)
    /\ reply[m][a] < MaxReplies
    /\ Begin(q, [op |-> "reply", id |-> m, who |-> a])
    /\ UNCHANGED commsVars
InsertReply(q) ==
    LET c == call[q] IN
    /\ IF c.id = "deleted" THEN UNCHANGED reply
       ELSE /\ reply[c.id][c.who] < MaxReplies
            /\ reply' = [reply EXCEPT ![c.id][c.who] = @ + 1]
    /\ End(q) /\ UNCHANGED <<message, receipt>>

\* markMerchantRead and markInboxRead look for an earlier receipt only.
ReadReceipt(q, m, r) ==
    /\ receipt[m][r] = 0
    /\ Begin(q, [op |-> "read", id |-> m, who |-> r])
    /\ UNCHANGED commsVars
InsertReceipt(q) ==
    LET c == call[q] IN
    /\ IF c.id = "deleted" \/ ~Exists(c.id) THEN UNCHANGED receipt
       ELSE /\ receipt[c.id][c.who] < MaxReads
            /\ receipt' = [receipt EXCEPT ![c.id][c.who] = @ + 1]
    /\ End(q) /\ UNCHANGED <<message, reply>>

-----------------------------------------------------------------------------
Init ==
    /\ message = [m \in Messages |-> NoMessage]
    /\ reply = [m \in Messages |-> [a \in Authors |-> 0]]
    /\ receipt = [m \in Messages |-> [r \in Readers |-> 0]]
    /\ solo \in BOOLEAN
    /\ call = [q \in Requests |-> Idle]

CommsNext ==
    /\ \/ \E m \in Messages : CreateAnnouncement(m)
       \/ \E m \in Messages : DeleteAnnouncement(m)
       \/ \E q \in Requests : \E m \in Messages : \E a \in Authors :
             ReadForReply(q, m, a)
       \/ \E q \in Requests : call[q].op = "reply" /\ InsertReply(q)
       \/ \E q \in Requests : \E m \in Messages : \E r \in Readers :
             ReadReceipt(q, m, r)
       \/ \E q \in Requests : call[q].op = "read" /\ InsertReceipt(q)
    /\ UNCHANGED solo
Spec == Init /\ [][CommsNext]_<<commsVars, solo, call>>

-----------------------------------------------------------------------------
TypeOK ==
    /\ \A m \in Messages :
         /\ message[m].kind \in {"none", "broadcast", "direct"}
         /\ reply[m] \in [Authors -> 0..MaxReplies]
         /\ receipt[m] \in [Readers -> 0..MaxReads]
    /\ \A q \in Requests : call[q].op \in {"idle", "reply", "read"}

\* Only those a message is for have answered it, the message having been
\* looked up before the answer was stored; nothing is left of a deleted
\* message; and a reader that does not overlap itself has one receipt.
ThreadsWhole ==
    \A m \in Messages :
        /\ \A t \in Merchants : reply[m][t] > 0 => ForMerchant(message[m], t)
        /\ ~Exists(m) => /\ \A a \in Authors : reply[m][a] = 0
                         /\ \A r \in Readers : receipt[m][r] = 0
        /\ solo => \A r \in Readers : receipt[m][r] <= 1
=============================================================================
