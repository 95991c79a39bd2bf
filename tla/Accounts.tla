------------------------------ MODULE Accounts ------------------------------
(***************************************************************************)
(* One email address and its account: password and OAuth sign-in, refresh  *)
(* tokens, logout, password reset, the second factor of platform roles,    *)
(* deactivation and deletion, as concurrent requests over the users,       *)
(* refresh_tokens and password_history tables and redis. Each await is a   *)
(* step of a request. (Refresh tokens and reset links also expire; a       *)
(* request that does not come stands for one that comes too late.) An      *)
(* address whose account was deleted is not used again.                    *)
(***************************************************************************)
EXTENDS Naturals, FiniteSets

CONSTANTS
    Modes,         \* which operations overlap, and which run with nothing else
    Requests,      \* request slots: the user, administrators
    Passwords,     \* the passwords the user thinks of
    NoPassword,    \* an account, or a session, that came by OAuth
    Limit,         \* wrong codes a challenge takes (5 in the code)
    Window,        \* days of a deactivation (30 in the code)
    Horizon,       \* bound: the clock
    MaxTokens, MaxLinks, MaxChallenges, MaxCodes, \* bounds: rows and keys
    MaxWrong       \* bound: wrong codes answered for a challenge

Tokens == 1 .. MaxTokens
Links == 1 .. MaxLinks
Challenges == 1 .. MaxChallenges
Codes == 1 .. MaxCodes

Family == {"login", "session", "code", "life", "staff"}

ASSUME AccountsAssumption ==
    /\ Modes \subseteq [together : SUBSET Family, apart : SUBSET Family]
    /\ IsFiniteSet(Requests) /\ Requests # {}
    /\ NoPassword \notin Passwords
    /\ Limit \in Nat \ {0}
    /\ Window \in Nat \ {0}
    /\ {Horizon, MaxTokens, MaxLinks, MaxChallenges, MaxCodes, MaxWrong} \subseteq Nat

VARIABLES
    mode,      \* a member of Modes (fixed)
    now,       \* the clock, in days
    user,      \* User: status ("none" and "deleted" without a row), password,
               \* scheduledDeletionAt (0: null), whether it has a platform role;
               \* since: the day a deactivated one was deactivated
    history,   \* its PasswordHistory
    token,     \* RefreshToken; parent, login: the tokens it was rotated from
    link,      \* redis password_reset:<token>
    challenge, \* redis admin-login:<id> and admin-login-attempts:<id>; wrong and
               \* dropped: wrong answers, and requests that died closing it
    code,      \* redis otp:<email>, 0 without one; codes are sent in order
    sent,      \* the last code that was made
    broken,    \* a reset died between its password and its revocation
    pc,        \* where each request is
    job        \* what it has read

account == <<user, history>>
keys == <<link, challenge, code, sent>>
vars == <<mode, now, account, token, keys, broken, pc, job>>

NoJob == [to |-> "none", pw |-> NoPassword, tok |-> 0, ch |-> 0, code |-> 0, link |-> 0]
NoUser == [status |-> "none", pw |-> NoPassword, due |-> 0, admin |-> FALSE, since |-> 0]
NoToken == [state |-> "absent", parent |-> 0, login |-> 0, pw |-> NoPassword, ch |-> 0]
NoChallenge == [state |-> "absent", tries |-> 0, wrong |-> 0, dropped |-> 0]

Init ==
    /\ mode \in Modes
    /\ now = 0
    /\ user \in {NoUser} \cup [status : {"active"}, pw : Passwords, due : {0},
                               admin : BOOLEAN, since : {0}]
    /\ history = {user.pw} \ {NoPassword}
    /\ token = [t \in Tokens |-> NoToken]
    /\ link = [k \in Links |-> "absent"]
    /\ challenge = [c \in Challenges |-> NoChallenge]
    /\ code = 0 /\ sent = 0
    /\ broken = FALSE
    /\ pc = [p \in Requests |-> "idle"]
    /\ job = [p \in Requests |-> NoJob]

Exists == user.status \notin {"none", "deleted"}
Quiet == \A p \in Requests : pc[p] = "idle"
Ready(p, family) ==
    /\ pc[p] = "idle"
    /\ family \in mode.together \/ (family \in mode.apart /\ Quiet)
Alone == mode.together = {}
Goto(p, loc, j) == pc' = [pc EXCEPT ![p] = loc] /\ job' = [job EXCEPT ![p] = j]
Done(p) == Goto(p, "idle", NoJob)
Live == {t \in Tokens : token[t].state = "live"}
Issued == {t \in Tokens : token[t].state # "absent"}

\* The next id of a table whose rows were S.
Fresh(S, Ids) == {r \in Ids \ S : \A q \in Ids : q < r => q \in S}

-----------------------------------------------------------------------------
(* Sign-up and sign-in.                                                    *)

\* register (w a password) and googleLogin, appleLogin (NoPassword) of an
\* address nobody has.
SignUp(p, w) ==
    /\ Ready(p, "session")
    /\ user.status = "none"
    /\ Goto(p, "create", [NoJob EXCEPT !.pw = w])
    /\ UNCHANGED <<mode, now, account, token, keys, broken>>

\* The unique email refuses a second row.
CreateUser(p) ==
    /\ pc[p] = "create"
    /\ IF user.status # "none"
       THEN Done(p) /\ UNCHANGED user
       ELSE /\ user' = [NoUser EXCEPT !.status = "active", !.pw = job[p].pw]
            /\ Goto(p, IF job[p].pw = NoPassword THEN "issue" ELSE "remember", job[p])
    /\ UNCHANGED <<mode, now, history, token, keys, broken>>

\* recordHistory, of a sign-up (which may give an invited role first; tokens
\* next) or a reset (revocation next).
Remember(p) ==
    /\ pc[p] \in {"remember", "record"}
    /\ IF Exists
       THEN /\ history' = history \cup {job[p].pw}
            /\ \/ UNCHANGED user
               \/ pc[p] = "remember" /\ user' = [user EXCEPT !.admin = TRUE]
            /\ Goto(p, IF pc[p] = "record" THEN "revoke" ELSE "issue", job[p])
       ELSE Done(p) /\ UNCHANGED account
    /\ UNCHANGED <<mode, now, token, keys, broken>>

Login(p, w) ==
    /\ Ready(p, "login")
    /\ user.status = "active" /\ user.pw = w
    /\ Goto(p, "roles", [NoJob EXCEPT !.pw = w])
    /\ UNCHANGED <<mode, now, account, token, keys, broken>>

\* A platform role needs a code as well.
ReadRoles(p) ==
    /\ pc[p] = "roles"
    /\ Goto(p, IF user.admin THEN "challenge" ELSE "issue", job[p])
    /\ UNCHANGED <<mode, now, account, token, keys, broken>>

\* OAuth of a known address; the account's status is not looked at.
OAuthLogin(p) ==
    /\ Ready(p, "session")
    /\ Exists
    /\ Goto(p, "issue", NoJob)
    /\ UNCHANGED <<mode, now, account, token, keys, broken>>

\* generateTokens; a row of a user that is gone is refused.
Issue(p) ==
    /\ pc[p] = "issue"
    /\ \E t \in Fresh(Issued, Tokens) :
          token' = IF Exists
                   THEN [token EXCEPT ![t] =
                           [state |-> "live", parent |-> job[p].tok, pw |-> job[p].pw, ch |-> job[p].ch,
                            login |-> IF job[p].tok = 0 THEN t ELSE token[job[p].tok].login]]
                   ELSE token
    /\ Done(p)
    /\ UNCHANGED <<mode, now, account, keys, broken>>

-----------------------------------------------------------------------------
(* Sessions.                                                               *)

Refresh(p, t) ==
    /\ Ready(p, "session")
    /\ t \in Live /\ user.status = "active"
    /\ Goto(p, "rotate", [NoJob EXCEPT !.tok = t, !.pw = token[t].pw, !.ch = token[t].ch])
    /\ UNCHANGED <<mode, now, account, token, keys, broken>>

KeepParent(p) ==                         \* mutant: the token it came with stays
    /\ pc[p] = "rotate"
    /\ Goto(p, "issue", job[p])
    /\ UNCHANGED <<mode, now, account, token, keys, broken>>

\* The token is revoked by id; its row may be gone with the account.
Rotate(p) ==
    /\ pc[p] = "rotate"
    /\ IF token[job[p].tok].state = "gone"
       THEN Done(p) /\ UNCHANGED token
       ELSE /\ token' = [token EXCEPT ![job[p].tok].state = "revoked"]
            /\ Goto(p, "issue", job[p])
    /\ UNCHANGED <<mode, now, account, keys, broken>>

RevokeAll == [t \in Tokens |-> IF t \in Live THEN [token[t] EXCEPT !.state = "revoked"]
                               ELSE token[t]]

\* Endpoints behind JwtAuthGuard, which reads the user: it must be active.
SignedIn(p, op) ==
    /\ Ready(p, IF op = "logout" THEN "session" ELSE "life")
    /\ user.status = "active"
    /\ Goto(p, op, NoJob)
    /\ UNCHANGED <<mode, now, account, token, keys, broken>>

Logout(p) ==
    /\ pc[p] = "logout"
    /\ token' = RevokeAll
    /\ broken' = FALSE
    /\ Done(p)
    /\ UNCHANGED <<mode, now, account, keys>>

-----------------------------------------------------------------------------
(* Password reset.                                                         *)

RequestReset(p) ==
    /\ Ready(p, "session")
    /\ Exists
    /\ Goto(p, "link", NoJob)
    /\ UNCHANGED <<mode, now, account, token, keys, broken>>

StoreLink(p) ==
    /\ pc[p] = "link"
    /\ \E k \in Fresh({l \in Links : link[l] # "absent"}, Links) :
          link' = [link EXCEPT ![k] = "live"]
    /\ Done(p)
    /\ UNCHANGED <<mode, now, account, token, challenge, code, sent, broken>>

ResetPassword(p, k, w) ==
    /\ Ready(p, "session")
    /\ link[k] = "live"
    /\ Goto(p, "history", [NoJob EXCEPT !.link = k, !.pw = w])
    /\ UNCHANGED <<mode, now, account, token, keys, broken>>

\* checkHistory: the last five passwords are refused (all of them here).
CheckHistory(p) ==
    /\ pc[p] = "history"
    /\ IF job[p].pw \in history THEN Done(p) ELSE Goto(p, "password", job[p])
    /\ UNCHANGED <<mode, now, account, token, keys, broken>>

WritePassword(p) ==
    /\ pc[p] = "password"
    /\ IF Exists
       THEN /\ user' = [user EXCEPT !.pw = job[p].pw]
            /\ Goto(p, "record", job[p])
       ELSE Done(p) /\ UNCHANGED user
    /\ UNCHANGED <<mode, now, history, token, keys, broken>>

RevokeNothing(p) ==                      \* mutant: the sessions are left alone
    /\ pc[p] = "revoke"
    /\ Goto(p, "used", job[p])
    /\ UNCHANGED <<mode, now, account, token, keys, broken>>

RevokeSessions(p) ==
    /\ pc[p] = "revoke"
    /\ token' = RevokeAll
    /\ broken' = FALSE
    /\ Goto(p, "used", job[p])
    /\ UNCHANGED <<mode, now, account, keys>>

\* The link is good until the very last step.
UseLink(p) ==
    /\ pc[p] = "used"
    /\ link' = [link EXCEPT ![job[p].link] = "gone"]
    /\ Done(p)
    /\ UNCHANGED <<mode, now, account, token, challenge, code, sent, broken>>

-----------------------------------------------------------------------------
(* The second factor: a challenge and a code, both in redis for 300 s.     *)

OpenChallenge(p) ==
    /\ pc[p] = "challenge"
    /\ \E c \in Fresh({d \in Challenges : challenge[d].state # "absent"}, Challenges) :
          challenge' = [challenge EXCEPT ![c].state = "open"]
    /\ Done(p)
    /\ UNCHANGED <<mode, now, account, token, link, code, sent, broken>>

\* sendOtp, for an open challenge or (c = 0) for any address.
SendOtp(p, c) ==
    /\ Ready(p, "code")
    /\ c # 0 => challenge[c].state = "open"
    /\ Goto(p, "send", NoJob)
    /\ UNCHANGED <<mode, now, account, token, keys, broken>>

StoreCode(p) ==
    /\ pc[p] = "send"
    /\ sent < MaxCodes
    /\ sent' = sent + 1 /\ code' = sent + 1
    /\ Done(p) \/ Goto(p, "unsend", NoJob)
    /\ UNCHANGED <<mode, now, account, token, link, challenge, broken>>

\* The mail was not delivered: the key is dropped, whichever code it holds.
DropCode(p) ==
    /\ pc[p] \in {"unsend", "verified"}
    /\ code' = 0
    /\ Done(p)
    /\ UNCHANGED <<mode, now, account, token, link, challenge, sent, broken>>

\* verifyOtp: the same code verifies the address and is then dropped.
VerifyOtp(p, g) ==
    /\ Ready(p, "code")
    /\ g = code
    /\ Goto(p, "verified", NoJob)
    /\ UNCHANGED <<mode, now, account, token, keys, broken>>

\* verifyAdminLoginOtp with a code that was sent once, or (0) never.
VerifyAdminLogin(p, c, g) ==
    /\ Ready(p, "code")
    /\ challenge[c].state = "open"
    /\ Goto(p, "compare", [NoJob EXCEPT !.ch = c, !.code = g])
    /\ UNCHANGED <<mode, now, account, token, keys, broken>>

CompareCode(p) ==
    /\ pc[p] = "compare"
    /\ IF code # 0 /\ job[p].code = code
       THEN Goto(p, "user", [NoJob EXCEPT !.ch = job[p].ch, !.to = "issue"])
       ELSE Goto(p, "wrong", [NoJob EXCEPT !.ch = job[p].ch])
    /\ UNCHANGED <<mode, now, account, token, keys, broken>>

WrongUncounted(p) ==                     \* mutant: the attempt is not counted
    /\ pc[p] = "wrong"
    /\ challenge[job[p].ch].wrong < MaxWrong
    /\ challenge' = [challenge EXCEPT ![job[p].ch].wrong = @ + 1]
    /\ Done(p)
    /\ UNCHANGED <<mode, now, account, token, link, code, sent, broken>>

\* increment; the last attempt closes the challenge.
WrongCode(p) ==
    /\ pc[p] = "wrong"
    /\ LET c == job[p].ch IN
       /\ challenge[c].wrong < MaxWrong
       /\ challenge' = [challenge EXCEPT ![c].tries = @ + 1, ![c].wrong = @ + 1]
       /\ IF challenge[c].tries + 1 >= Limit THEN Goto(p, "delCode", job[p]) ELSE Done(p)
    /\ UNCHANGED <<mode, now, account, token, link, code, sent, broken>>

\* The account must be active still ...
CheckUser(p) ==
    /\ pc[p] = "user"
    /\ IF user.status = "active" THEN Goto(p, "access", job[p]) ELSE Done(p)
    /\ UNCHANGED <<mode, now, account, token, keys, broken>>

\* ... and have its role.
CheckAccess(p) ==
    /\ pc[p] = "access"
    /\ IF user.admin THEN Goto(p, "delCode", job[p]) ELSE Done(p)
    /\ UNCHANGED <<mode, now, account, token, keys, broken>>

\* The three deletions, in the order they are sent to redis.
DeleteCode(p) ==
    /\ pc[p] = "delCode"
    /\ code' = 0
    /\ Goto(p, "delChallenge", job[p])
    /\ UNCHANGED <<mode, now, account, token, link, challenge, sent, broken>>

KeepChallenge(p) ==                      \* mutant: only the code is dropped
    /\ pc[p] = "delChallenge"
    /\ Goto(p, "delTries", job[p])
    /\ UNCHANGED <<mode, now, account, token, keys, broken>>

CloseChallenge(p) ==
    /\ pc[p] = "delChallenge"
    /\ challenge' = [challenge EXCEPT ![job[p].ch].state = "closed"]
    /\ Goto(p, "delTries", job[p])
    /\ UNCHANGED <<mode, now, account, token, link, code, sent, broken>>

DeleteTries(p) ==
    /\ pc[p] = "delTries"
    /\ challenge' = [challenge EXCEPT ![job[p].ch].tries = 0]
    /\ IF job[p].to = "issue" THEN Goto(p, "issue", [NoJob EXCEPT !.ch = job[p].ch])
       ELSE Done(p)
    /\ UNCHANGED <<mode, now, account, token, link, code, sent, broken>>

ExpireCode ==
    /\ code' = 0
    /\ UNCHANGED <<mode, now, account, token, link, challenge, sent, broken, pc, job>>

\* The attempts' key is younger than its challenge and expires after it.
ExpireChallenge(c) ==
    /\ \/ challenge[c].state = "open"
          /\ challenge' = [challenge EXCEPT ![c].state = "closed"]
       \/ challenge[c].state = "closed"
          /\ challenge' = [challenge EXCEPT ![c].tries = 0]
    /\ UNCHANGED <<mode, now, account, token, link, code, sent, broken, pc, job>>

-----------------------------------------------------------------------------
(* The life of the account.                                                *)

\* deactivate reads the user; one that is scheduled already is left alone.
Deactivate(p) ==
    /\ pc[p] = "deactivate"
    /\ IF Exists /\ user.due = 0 THEN Goto(p, "schedule", job[p]) ELSE Done(p)
    /\ UNCHANGED <<mode, now, account, token, keys, broken>>

ScheduleUndated(p) ==                    \* mutant: without a day of deletion
    /\ pc[p] = "schedule"
    /\ user' = IF Exists THEN [user EXCEPT !.status = "deactivated"] ELSE user
    /\ Done(p)
    /\ UNCHANGED <<mode, now, history, token, keys, broken>>

Schedule(p) ==
    /\ pc[p] = "schedule"
    /\ user' = IF Exists
               THEN [user EXCEPT !.status = "deactivated", !.due = now + Window, !.since = now]
               ELSE user
    /\ Done(p)
    /\ UNCHANGED <<mode, now, history, token, keys, broken>>

\* reactivate; its test of the thirty days always succeeds.
Reactivate(p) ==
    /\ pc[p] = "reactivate"
    /\ IF user.status = "deactivated" /\ user.due # 0
       THEN Goto(p, "restore", job[p])
       ELSE Done(p)
    /\ UNCHANGED <<mode, now, account, token, keys, broken>>

Restore(p) ==
    /\ pc[p] = "restore"
    /\ user' = IF Exists THEN [user EXCEPT !.status = "active", !.due = 0, !.since = 0] ELSE user
    /\ Done(p)
    /\ UNCHANGED <<mode, now, history, token, keys, broken>>

\* The row goes, and with it its tokens, its roles and its password history.
Delete ==
    /\ user' = [NoUser EXCEPT !.status = "deleted"]
    /\ history' = {}
    /\ token' = [t \in Tokens |-> IF t \in Issued THEN [token[t] EXCEPT !.state = "gone"]
                                  ELSE token[t]]

PermanentDelete(p) ==
    /\ pc[p] = "erase"
    /\ IF Exists THEN Delete ELSE UNCHANGED <<account, token>>
    /\ Done(p)
    /\ UNCHANGED <<mode, now, keys, broken>>

\* An administrator's approveUser, rejectUser: the deletion date stays.
SetStatus(p, s) ==
    /\ Ready(p, "staff")
    /\ Exists
    /\ user' = [user EXCEPT !.status = s, !.since = 0]
    /\ UNCHANGED <<mode, now, history, token, keys, broken, pc, job>>

\* assignUserRoles and removeUser, of the platform.
SetRole(p, b) ==
    /\ Ready(p, "staff")
    /\ Exists
    /\ user' = [user EXCEPT !.admin = b]
    /\ UNCHANGED <<mode, now, history, token, keys, broken, pc, job>>

CleanUpScheduled(p) ==                   \* mutant: the status is not looked at
    /\ Ready(p, "life")
    /\ Exists /\ user.due # 0 /\ user.due + Window <= now
    /\ Delete
    /\ UNCHANGED <<mode, now, keys, broken, pc, job>>

\* cleanupDeactivatedAccounts, thirty days after the scheduled day.
CleanUp(p) ==
    /\ Ready(p, "life")
    /\ user.status = "deactivated" /\ user.due # 0 /\ user.due + Window <= now
    /\ Delete
    /\ UNCHANGED <<mode, now, keys, broken, pc, job>>

\* (Only the life of the account depends on the day.)
Tick ==
    /\ "life" \in mode.together \cup mode.apart
    /\ now < Horizon
    /\ now' = now + 1
    /\ UNCHANGED <<mode, account, token, keys, broken, pc, job>>

\* A failed query, a full table or a restart between two steps.
Fail(p) ==
    /\ pc[p] # "idle"
    /\ Done(p)
    /\ broken' = (broken \/ pc[p] \in {"record", "revoke"})
    /\ challenge' = IF pc[p] \in {"delCode", "delChallenge"} /\ job[p].to = "none"
                    THEN [challenge EXCEPT ![job[p].ch].dropped = @ + 1]
                    ELSE challenge
    /\ UNCHANGED <<mode, now, account, token, link, code, sent>>

-----------------------------------------------------------------------------
SignIn(p) ==
    \/ \E w \in Passwords \cup {NoPassword} : SignUp(p, w)
    \/ \E w \in Passwords : Login(p, w)
    \/ CreateUser(p) \/ Remember(p) \/ ReadRoles(p) \/ OAuthLogin(p) \/ Issue(p)

Session(p) ==
    \/ \E t \in Tokens : Refresh(p, t)
    \/ Rotate(p) \/ Logout(p)
    \/ \E op \in {"logout", "deactivate", "reactivate", "erase"} : SignedIn(p, op)
    \/ RequestReset(p) \/ StoreLink(p)
    \/ \E k \in Links : \E w \in Passwords : ResetPassword(p, k, w)
    \/ CheckHistory(p) \/ WritePassword(p) \/ RevokeSessions(p) \/ UseLink(p)

SecondFactor(p) ==
    \/ OpenChallenge(p)
    \/ \E c \in Challenges \cup {0} : SendOtp(p, c)
    \/ StoreCode(p) \/ DropCode(p)
    \/ \E g \in Codes : VerifyOtp(p, g)
    \/ \E c \in Challenges : \E g \in 0 .. sent : VerifyAdminLogin(p, c, g)
    \/ CompareCode(p) \/ WrongCode(p) \/ CheckUser(p) \/ CheckAccess(p)
    \/ DeleteCode(p) \/ CloseChallenge(p) \/ DeleteTries(p)

Life(p) ==
    \/ Deactivate(p) \/ Schedule(p) \/ Reactivate(p) \/ Restore(p) \/ PermanentDelete(p)
    \/ \E s \in {"active", "suspended"} : SetStatus(p, s)
    \/ \E b \in BOOLEAN : SetRole(p, b)
    \/ CleanUp(p)

Next ==
    \/ \E p \in Requests : SignIn(p) \/ Session(p) \/ SecondFactor(p) \/ Life(p) \/ Fail(p)
    \/ ExpireCode \/ Tick
    \/ \E c \in Challenges : ExpireChallenge(c)

Spec == Init /\ [][Next]_vars

-----------------------------------------------------------------------------
Loc == {"idle", "create", "remember", "roles", "issue", "rotate", "logout", "link", "history",
        "password", "record", "revoke", "used", "challenge", "send", "unsend", "verified",
        "compare", "wrong", "user", "access", "delCode", "delChallenge", "delTries",
        "deactivate", "schedule", "reactivate", "restore", "erase"}
UserType == [status : {"none", "active", "suspended", "deactivated", "deleted"},
             pw : Passwords \cup {NoPassword}, due : Nat, admin : BOOLEAN, since : Nat]
TokenType == [state : {"absent", "live", "revoked", "gone"}, parent : Tokens \cup {0},
              login : Tokens \cup {0}, pw : Passwords \cup {NoPassword},
              ch : Challenges \cup {0}]
ChallengeType == [state : {"absent", "open", "closed"}, tries : Nat, wrong : Nat, dropped : Nat]
JobType == [to : {"none", "issue"}, pw : Passwords \cup {NoPassword}, tok : Tokens \cup {0},
            ch : Challenges \cup {0}, code : Codes \cup {0}, link : Links \cup {0}]

\* Every column and every local of a request holds a value of its type, and a
\* deactivated account is one that is scheduled for deletion.
TypeOK ==
    /\ mode \in Modes /\ now \in 0 .. Horizon
    /\ user \in UserType /\ history \subseteq Passwords
    /\ user.status = "deactivated" => user.due # 0
    /\ token \in [Tokens -> TokenType]
    /\ link \in [Links -> {"absent", "live", "gone"}]
    /\ challenge \in [Challenges -> ChallengeType]
    /\ sent \in 0 .. MaxCodes /\ code \in 0 .. sent
    /\ broken \in BOOLEAN
    /\ pc \in [Requests -> Loc]
    /\ job \in [Requests -> JobType]

\* IMPLEMENTATION.md:12 "Refresh token rotation invalidates previous tokens":
\* in every interleaving, and whatever dies, no token is good next to one that
\* was rotated from it.
RotationInvalidates ==
    \A t \in Issued : token[t].parent # 0 => token[token[t].parent].state # "live"

\* Requests one at a time keep one good token of each sign-in.
OneTokenPerLogin ==
    Alone => \A t, u \in Live : token[t].login = token[u].login => t = u

\* Between requests one at a time every session that began with a password began
\* with the one in force, unless a reset died before it revoked the others.
\* (IMPLEMENTATION.md:82; a challenge opened before the reset survives it.)
PasswordInForce ==
    Alone /\ Quiet /\ ~ broken =>
        \A t \in Live : token[t].pw \in {NoPassword, user.pw}

\* A challenge is answered wrongly fewer than Limit times, and once more by each
\* request that was at work on it at the end or died closing it.
GuessesLimited ==
    \A c \in Challenges :
        challenge[c].wrong < Limit + Cardinality(Requests) + challenge[c].dropped

\* A challenge is good for one sign-in; for requests that overlap, for one each.
Sessions(c) == {t \in Issued : token[t].ch = c /\ token[t].parent = 0}
OneSessionPerChallenge ==
    \A c \in Challenges :
        Cardinality(Sessions(c)) <= IF Alone THEN 1 ELSE Cardinality(Requests)

\* An account is deleted by its user, or when it was deactivated the whole
\* window long: no clean-up deletes one that came back.
KeptThroughWindow ==
    [][ Exists /\ ~ Exists' =>
            \/ \E p \in Requests : pc[p] = "erase" /\ pc'[p] # "erase"
            \/ user.status = "deactivated" /\ user.since + Window <= now ]_vars
=============================================================================
