--------------------------- MODULE Accounts_proofs ---------------------------
(***************************************************************************)
(* Proofs about Accounts, for every number of requests, passwords and rows *)
(* and every choice of which operations overlap.                           *)
(***************************************************************************)
EXTENDS Accounts, FiniteSetTheorems, TLAPS

\* What a location asks of the record of a request that stands there.
Fits(loc, j) ==
    /\ loc \in Loc /\ j \in JobType
    /\ loc \notin {"rotate", "issue"} => j.tok = 0
    /\ loc = "rotate" => j.tok # 0
    /\ loc \in {"remember", "history", "password", "record"} => j.pw \in Passwords

JobsFit ==
    /\ pc \in [Requests -> Loc]
    /\ job \in [Requests -> JobType]
    /\ \A p \in Requests : Fits(pc[p], job[p])

RowsTyped ==
    /\ mode \in Modes /\ now \in 0 .. Horizon
    /\ user \in UserType /\ history \subseteq Passwords
    /\ user.status = "deactivated" => user.due # 0
    /\ token \in [Tokens -> TokenType]
    /\ link \in [Links -> {"absent", "live", "gone"}]
    /\ challenge \in [Challenges -> ChallengeType]
    /\ sent \in 0 .. MaxCodes /\ code \in 0 .. sent
    /\ broken \in BOOLEAN

\* A request that moves with a fitting record leaves all records fitting.
LEMMA GotoFits ==
    ASSUME JobsFit, NEW p \in Requests, NEW loc, NEW j, Fits(loc, j), Goto(p, loc, j)
    PROVE  JobsFit'
<1>1. pc' \in [Requests -> Loc] /\ job' \in [Requests -> JobType]
  BY DEF JobsFit, Fits, Goto
<1>2. ASSUME NEW q \in Requests
      PROVE  Fits(pc'[q], job'[q])
  <2>1. CASE q = p
    BY <2>1 DEF JobsFit, Goto
  <2>2. CASE q # p
    BY <2>2 DEF JobsFit, Goto
  <2> QED BY <2>1, <2>2
<1> QED BY <1>1, <1>2 DEF JobsFit, Fits

LEMMA NoJobFits == \A loc \in Loc \ {"rotate", "remember", "history", "password", "record"} :
                      Fits(loc, NoJob)
BY DEF Fits, NoJob, JobType, Loc

-----------------------------------------------------------------------------
(* Steps that read or write a row and move one request, and others.        *)

Starts(p) ==
    \/ \E w \in Passwords \cup {NoPassword} : SignUp(p, w)
    \/ \E w \in Passwords : Login(p, w)
    \/ OAuthLogin(p) \/ RequestReset(p)
    \/ \E op \in {"logout", "deactivate", "reactivate", "erase"} : SignedIn(p, op)
    \/ \E k \in Links : \E w \in Passwords : ResetPassword(p, k, w)
    \/ \E c \in Challenges \cup {0} : SendOtp(p, c)
    \/ \E g \in Codes : VerifyOtp(p, g)
    \/ \E c \in Challenges : \E g \in 0 .. sent : VerifyAdminLogin(p, c, g)

Reads(p) ==
    \/ ReadRoles(p) \/ CheckHistory(p) \/ CompareCode(p) \/ CheckUser(p) \/ CheckAccess(p)
    \/ Deactivate(p) \/ Reactivate(p)

WritesUser(p) ==
    CreateUser(p) \/ Remember(p) \/ WritePassword(p) \/ Schedule(p) \/ Restore(p)

WritesKey(p) ==
    \/ StoreLink(p) \/ UseLink(p) \/ OpenChallenge(p) \/ StoreCode(p) \/ DropCode(p)
    \/ WrongCode(p) \/ DeleteCode(p) \/ CloseChallenge(p) \/ DeleteTries(p)

Staff(p) ==
    \/ \E s \in {"active", "suspended"} : SetStatus(p, s)
    \/ \E b \in BOOLEAN : SetRole(p, b)

WritesToken(p) ==
    \/ Issue(p) \/ Rotate(p) \/ Logout(p) \/ RevokeSessions(p) \/ PermanentDelete(p) \/ CleanUp(p)

Clocks == ExpireCode \/ Tick \/ \E c \in Challenges : ExpireChallenge(c)

LEMMA NextSplits ==
    Next => \/ \E p \in Requests :
                  \/ Starts(p) \/ (\E t \in Tokens : Refresh(p, t)) \/ Reads(p) \/ WritesUser(p)
                  \/ WritesKey(p) \/ Staff(p) \/ WritesToken(p) \/ Fail(p)
            \/ Clocks
<1> SUFFICES ASSUME Next
             PROVE  \/ \E p \in Requests :
                          \/ Starts(p) \/ (\E t \in Tokens : Refresh(p, t)) \/ Reads(p) \/ WritesUser(p)
                          \/ WritesKey(p) \/ Staff(p) \/ WritesToken(p) \/ Fail(p)
                    \/ Clocks
  OBVIOUS
<1>1. ASSUME NEW p \in Requests, SignIn(p)
      PROVE  Starts(p) \/ Reads(p) \/ WritesUser(p) \/ WritesToken(p)
  BY <1>1, Zenon DEF SignIn, Starts, Reads, WritesUser, WritesToken
<1>2. ASSUME NEW p \in Requests, Session(p)
      PROVE  \/ Starts(p) \/ (\E t \in Tokens : Refresh(p, t)) \/ Reads(p) \/ WritesUser(p)
             \/ WritesKey(p) \/ WritesToken(p)
  BY <1>2, Zenon DEF Session, Starts, Reads, WritesUser, WritesKey, WritesToken
<1>3. ASSUME NEW p \in Requests, SecondFactor(p)
      PROVE  Starts(p) \/ Reads(p) \/ WritesKey(p)
  BY <1>3, Zenon DEF SecondFactor, Starts, Reads, WritesKey
<1>4. ASSUME NEW p \in Requests, Life(p)
      PROVE  Reads(p) \/ WritesUser(p) \/ Staff(p) \/ WritesToken(p)
  BY <1>4, Zenon DEF Life, Reads, WritesUser, Staff, WritesToken
<1> QED BY <1>1, <1>2, <1>3, <1>4, Zenon DEF Next, Clocks

-----------------------------------------------------------------------------
(* Where each group of steps leads.                                        *)

LEMMA StartsFit ==
    ASSUME RowsTyped, NEW p \in Requests, Starts(p)
    PROVE  \E loc \in Loc \ {"rotate", "remember", "password", "record"} :
           \E j \in JobType : Goto(p, loc, j) /\ Fits(loc, j) /\ j.tok = 0
<1> DEFINE Begins(loc, j) == Goto(p, loc, j) /\ Fits(loc, j) /\ j.tok = 0
           Led == \E loc \in Loc \ {"rotate", "remember", "password", "record"} :
                  \E j \in JobType : Begins(loc, j)
<1> USE DEF Fits, JobType, NoJob, Loc
<1>1. ASSUME NEW w \in Passwords \cup {NoPassword}, SignUp(p, w)
      PROVE  Led
  <2>1. Begins("create", [NoJob EXCEPT !.pw = w])
    BY <1>1 DEF SignUp
  <2> QED BY <2>1
<1>2. ASSUME NEW w \in Passwords, Login(p, w)
      PROVE  Led
  <2>1. Begins("roles", [NoJob EXCEPT !.pw = w])
    BY <1>2 DEF Login
  <2> QED BY <2>1
<1>3. ASSUME OAuthLogin(p) \/ RequestReset(p) \/ \E c \in Challenges \cup {0} : SendOtp(p, c)
      PROVE  Led
  BY <1>3 DEF OAuthLogin, RequestReset, SendOtp
<1>4. ASSUME \E op \in {"logout", "deactivate", "reactivate", "erase"} : SignedIn(p, op)
      PROVE  Led
  BY <1>4 DEF SignedIn
<1>5. ASSUME NEW k \in Links, NEW w \in Passwords, ResetPassword(p, k, w)
      PROVE  Led
  <2>1. Begins("history", [NoJob EXCEPT !.link = k, !.pw = w])
    BY <1>5 DEF ResetPassword
  <2> QED BY <2>1
<1>6. ASSUME \E g \in Codes : VerifyOtp(p, g)
      PROVE  Led
  BY <1>6 DEF VerifyOtp
<1>7. ASSUME NEW c \in Challenges, NEW g \in 0 .. sent, VerifyAdminLogin(p, c, g)
      PROVE  Led
  <2>1. g \in Codes \cup {0}
    BY AccountsAssumption DEF RowsTyped, Codes
  <2>2. Begins("compare", [NoJob EXCEPT !.ch = c, !.code = g])
    BY <1>7, <2>1 DEF VerifyAdminLogin
  <2> QED BY <2>2
<1>8. Led
  <2> HIDE DEF Led
  <2> QED BY <1>1, <1>2, <1>3, <1>4, <1>5, <1>6, <1>7, Zenon DEF Starts
<1> QED BY <1>8

LEMMA ReadsFit ==
    ASSUME JobsFit, NEW p \in Requests, Reads(p)
    PROVE  \E loc \in Loc \ {"rotate", "remember", "record"} :
           \E j \in JobType : Goto(p, loc, j) /\ Fits(loc, j) /\ j.tok = 0
<1> USE DEF Fits, JobsFit, JobType, NoJob, Loc
<1>1. CASE ReadRoles(p)
  BY <1>1 DEF ReadRoles
<1>2. CASE CheckHistory(p)
  BY <1>2 DEF CheckHistory, Done
<1>3. CASE CompareCode(p)
  <2> DEFINE good == [NoJob EXCEPT !.ch = job[p].ch, !.to = "issue"]
             bad == [NoJob EXCEPT !.ch = job[p].ch]
  <2>1. Fits("user", good) /\ Fits("wrong", bad) /\ good.tok = 0 /\ bad.tok = 0
    OBVIOUS
  <2>2. Goto(p, "user", good) \/ Goto(p, "wrong", bad)
    BY <1>3 DEF CompareCode
  <2> QED BY <2>1, <2>2
<1>4. CASE CheckUser(p) \/ CheckAccess(p)
  BY <1>4 DEF CheckUser, CheckAccess, Done
<1>5. CASE Deactivate(p) \/ Reactivate(p)
  BY <1>5 DEF Deactivate, Reactivate, Done
<1> QED BY <1>1, <1>2, <1>3, <1>4, <1>5 DEF Reads

LEMMA WritesUserFit ==
    ASSUME JobsFit, NEW p \in Requests, WritesUser(p)
    PROVE  \E loc \in Loc \ {"rotate"} :
           \E j \in JobType : Goto(p, loc, j) /\ Fits(loc, j) /\ j.tok = 0
<1> USE DEF Fits, JobsFit, JobType, NoJob, Loc
<1>1. CASE CreateUser(p)
  BY <1>1 DEF CreateUser, Done
<1>2. CASE Remember(p)
  BY <1>2 DEF Remember, Done
<1>3. CASE WritePassword(p)
  BY <1>3 DEF WritePassword, Done
<1>4. CASE Schedule(p) \/ Restore(p)
  BY <1>4 DEF Schedule, Restore, Done
<1> QED BY <1>1, <1>2, <1>3, <1>4 DEF WritesUser

LEMMA WritesKeyFit ==
    ASSUME JobsFit, NEW p \in Requests, WritesKey(p)
    PROVE  \E loc \in Loc \ {"rotate", "remember", "history", "password", "record"} :
           \E j \in JobType : Goto(p, loc, j) /\ Fits(loc, j) /\ j.tok = 0
<1>1. CASE StoreLink(p) \/ UseLink(p) \/ OpenChallenge(p) \/ DropCode(p)
  <2>1. Goto(p, "idle", NoJob)
    BY <1>1 DEF StoreLink, UseLink, OpenChallenge, DropCode, Done
  <2>2. NoJob \in JobType /\ Fits("idle", NoJob) /\ NoJob.tok = 0
    BY NoJobFits DEF Loc, Fits, NoJob
  <2>3. "idle" \in Loc \ {"rotate", "remember", "history", "password", "record"}
    BY DEF Loc
  <2> QED BY <2>1, <2>2, <2>3, Zenon
<1>2. CASE WrongCode(p)
  <2>1. pc[p] = "wrong" /\ (Goto(p, "delCode", job[p]) \/ Goto(p, "idle", NoJob))
    BY <1>2 DEF WrongCode, Done
  <2>2. /\ NoJob \in JobType /\ Fits("idle", NoJob) /\ NoJob.tok = 0
        /\ job[p] \in JobType /\ Fits("delCode", job[p]) /\ job[p].tok = 0
    BY <2>1, NoJobFits DEF Loc, Fits, NoJob, JobsFit
  <2>3. {"idle", "delCode"} \subseteq Loc \ {"rotate", "remember", "history", "password", "record"}
    BY DEF Loc
  <2> QED BY <2>1, <2>2, <2>3
<1> USE DEF Fits, JobsFit, JobType, NoJob, Loc
<1>3. CASE StoreCode(p)
  BY <1>3 DEF StoreCode, Done
<1>4. CASE DeleteCode(p) \/ CloseChallenge(p)
  BY <1>4 DEF DeleteCode, CloseChallenge
<1>5. CASE DeleteTries(p)
  BY <1>5 DEF DeleteTries, Done
<1> QED BY <1>1, <1>2, <1>3, <1>4, <1>5 DEF WritesKey

LEMMA IssueFits ==
    ASSUME JobsFit, NEW p \in Requests, WritesToken(p)
    PROVE  JobsFit'
<1>1. CASE Issue(p) \/ Logout(p) \/ PermanentDelete(p)
  BY <1>1, NoJobFits, GotoFits DEF Issue, Logout, PermanentDelete, Done, Loc
<1>2. CASE Rotate(p)
  <2>1. Fits("issue", job[p])
    BY <1>2 DEF Rotate, JobsFit, Fits, Loc
  <2> QED BY <1>2, <2>1, NoJobFits, GotoFits DEF Rotate, Done, Loc
<1>3. CASE RevokeSessions(p)
  <2>1. Fits("used", job[p])
    BY <1>3 DEF RevokeSessions, JobsFit, Fits, Loc
  <2> QED BY <1>3, <2>1, GotoFits DEF RevokeSessions
<1>4. CASE CleanUp(p)
  BY <1>4 DEF CleanUp, JobsFit, Fits
<1> QED BY <1>1, <1>2, <1>3, <1>4 DEF WritesToken

LEMMA RefreshFits ==
    ASSUME RowsTyped, NEW p \in Requests, NEW t \in Tokens, Refresh(p, t)
    PROVE  /\ Goto(p, "rotate", [NoJob EXCEPT !.tok = t, !.pw = token[t].pw, !.ch = token[t].ch])
           /\ Fits("rotate", [NoJob EXCEPT !.tok = t, !.pw = token[t].pw, !.ch = token[t].ch])
<1>1. token[t] \in TokenType /\ t # 0
  BY DEF RowsTyped, Tokens
<1>2. [NoJob EXCEPT !.tok = t, !.pw = token[t].pw, !.ch = token[t].ch] \in JobType
  BY <1>1 DEF NoJob, JobType, TokenType
<1> QED BY <1>1, <1>2 DEF Refresh, Fits, Loc, NoJob

-----------------------------------------------------------------------------
(* Type correctness.                                                       *)

LEMMA UserFields ==
    ASSUME NEW u \in UserType, NEW s \in {"active", "suspended", "deactivated"},
           NEW w \in Passwords \cup {NoPassword}, NEW b \in BOOLEAN, NEW d \in Nat, NEW n \in Nat
    PROVE  /\ [u EXCEPT !.status = s] \in UserType /\ [u EXCEPT !.pw = w] \in UserType
           /\ [u EXCEPT !.admin = b] \in UserType
           /\ [u EXCEPT !.status = s, !.pw = w] \in UserType
           /\ [u EXCEPT !.status = s, !.since = n] \in UserType
           /\ [u EXCEPT !.status = s, !.due = d, !.since = n] \in UserType
<1>1. ASSUME NEW v \in UserType
      PROVE  /\ [v EXCEPT !.status = s] \in UserType /\ [v EXCEPT !.pw = w] \in UserType
             /\ [v EXCEPT !.admin = b] \in UserType /\ [v EXCEPT !.due = d] \in UserType
             /\ [v EXCEPT !.since = n] \in UserType
  BY DEF UserType
<1> QED BY <1>1

LEMMA ChallengeFields ==
    ASSUME NEW f \in [Challenges -> ChallengeType], NEW c,
           NEW s \in {"open", "closed"}
    PROVE  /\ [f EXCEPT ![c].state = s] \in [Challenges -> ChallengeType]
           /\ [f EXCEPT ![c].tries = 0] \in [Challenges -> ChallengeType]
           /\ [f EXCEPT ![c].tries = @ + 1] \in [Challenges -> ChallengeType]
           /\ [f EXCEPT ![c].wrong = @ + 1] \in [Challenges -> ChallengeType]
           /\ [f EXCEPT ![c].dropped = @ + 1] \in [Challenges -> ChallengeType]
<1>1. CASE c \in Challenges
  <2>1. f[c] \in ChallengeType
    BY <1>1
  <2>2. f[c].tries + 1 \in Nat /\ f[c].wrong + 1 \in Nat /\ f[c].dropped + 1 \in Nat
    BY <2>1 DEF ChallengeType
  <2>3. /\ [f[c] EXCEPT !.state = s] \in ChallengeType
        /\ [f[c] EXCEPT !.tries = 0] \in ChallengeType
        /\ [f[c] EXCEPT !.tries = f[c].tries + 1] \in ChallengeType
        /\ [f[c] EXCEPT !.wrong = f[c].wrong + 1] \in ChallengeType
        /\ [f[c] EXCEPT !.dropped = f[c].dropped + 1] \in ChallengeType
    BY <2>1, <2>2 DEF ChallengeType
  <2> QED BY <2>3
<1>2. CASE c \notin Challenges
  BY <1>2
<1> QED BY <1>1, <1>2

LEMMA TypeSplits == TypeOK /\ (\A p \in Requests : Fits(pc[p], job[p])) <=> RowsTyped /\ JobsFit
BY DEF TypeOK, RowsTyped, JobsFit

LEMMA JobsStep == RowsTyped /\ JobsFit /\ [Next]_vars => JobsFit'
<1> SUFFICES ASSUME RowsTyped, JobsFit, [Next]_vars
             PROVE  JobsFit'
  OBVIOUS
<1>1. ASSUME NEW p \in Requests, Starts(p) \/ Reads(p) \/ WritesUser(p) \/ WritesKey(p)
      PROVE  JobsFit'
  BY <1>1, StartsFit, ReadsFit, WritesUserFit, WritesKeyFit, GotoFits
<1>2. ASSUME NEW p \in Requests, NEW t \in Tokens, Refresh(p, t)
      PROVE  JobsFit'
  BY <1>2, RefreshFits, GotoFits
<1>3. ASSUME NEW p \in Requests, WritesToken(p)
      PROVE  JobsFit'
  BY <1>3, IssueFits
<1>4. ASSUME NEW p \in Requests, Fail(p)
      PROVE  JobsFit'
  BY <1>4, NoJobFits, GotoFits DEF Fail, Done, Loc
<1>5. ASSUME NEW p \in Requests, Staff(p)
      PROVE  JobsFit'
  BY <1>5 DEF Staff, SetStatus, SetRole, JobsFit, Fits
<1>6. CASE Clocks
  BY <1>6 DEF Clocks, ExpireCode, Tick, ExpireChallenge, JobsFit, Fits
<1>7. CASE UNCHANGED vars
  BY <1>7 DEF vars, JobsFit, Fits
<1> QED BY <1>1, <1>2, <1>3, <1>4, <1>5, <1>6, <1>7, NextSplits

LEMMA RowsStep == RowsTyped /\ JobsFit /\ [Next]_vars => RowsTyped'
<1> SUFFICES ASSUME RowsTyped, JobsFit, [Next]_vars
             PROVE  RowsTyped'
  OBVIOUS
<1> USE AccountsAssumption
<1>1. ASSUME NEW p \in Requests, Starts(p) \/ (\E t \in Tokens : Refresh(p, t)) \/ Reads(p)
      PROVE  RowsTyped'
  <2>1. UNCHANGED <<mode, now, account, token, keys, broken>>
    <3>1. CASE Starts(p)
      BY <3>1 DEF Starts, SignUp, Login, OAuthLogin, RequestReset, SignedIn, ResetPassword, SendOtp,
           VerifyOtp, VerifyAdminLogin
    <3>2. CASE \E t \in Tokens : Refresh(p, t)
      BY <3>2 DEF Refresh
    <3>3. CASE Reads(p)
      BY <3>3 DEF Reads, ReadRoles, CheckHistory, CompareCode, CheckUser, CheckAccess, Deactivate, Reactivate
    <3> QED BY <1>1, <3>1, <3>2, <3>3
  <2> QED BY <2>1 DEF RowsTyped, account, keys
<1>2. ASSUME NEW p \in Requests, WritesUser(p)
      PROVE  RowsTyped'
  <2>1. UNCHANGED <<mode, now, token, keys, broken>>
    BY <1>2 DEF WritesUser, CreateUser, Remember, WritePassword, Schedule, Restore
  <2>2. user' \in UserType /\ (user'.status = "deactivated" => user'.due # 0)
    <3> USE DEF RowsTyped
    <3>0. /\ job[p].pw \in Passwords \cup {NoPassword}
          /\ now \in Nat /\ now + Window \in Nat /\ now + Window # 0
      BY DEF JobsFit, JobType
    <3>1. CASE CreateUser(p)
      <4>1. NoUser \in UserType
        BY DEF NoUser, UserType
      <4>2. CASE user' = [NoUser EXCEPT !.status = "active", !.pw = job[p].pw]
        <5>1. user' \in UserType
          BY <3>0, <4>1, <4>2, UserFields
        <5> QED BY <4>2, <5>1 DEF NoUser
      <4> QED BY <3>1, <4>2 DEF CreateUser
    <3>2. CASE Remember(p)
      <4>1. CASE user' = [user EXCEPT !.admin = TRUE]
        <5>1. user' \in UserType
          BY <4>1, UserFields
        <5> QED BY <4>1, <5>1 DEF UserType
      <4> QED BY <3>2, <4>1 DEF Remember, account
    <3>3. CASE WritePassword(p)
      <4>1. CASE user' = [user EXCEPT !.pw = job[p].pw]
        <5>1. user' \in UserType
          BY <3>0, <4>1, UserFields
        <5> QED BY <4>1, <5>1 DEF UserType
      <4> QED BY <3>3, <4>1 DEF WritePassword
    <3>4. CASE Schedule(p)
      <4>1. CASE user' = [user EXCEPT !.status = "deactivated", !.due = now + Window, !.since = now]
        <5>1. user' \in UserType
          BY <3>0, <4>1, UserFields
        <5>2. user'.due = now + Window
          BY <4>1 DEF UserType
        <5> QED BY <3>0, <5>1, <5>2
      <4> QED BY <3>4, <4>1 DEF Schedule
    <3>5. CASE Restore(p)
      <4>1. CASE user' = [user EXCEPT !.status = "active", !.due = 0, !.since = 0]
        <5>1. user' \in UserType
          BY <4>1, UserFields
        <5> QED BY <4>1, <5>1 DEF UserType
      <4> QED BY <3>5, <4>1 DEF Restore
    <3> QED BY <1>2, <3>1, <3>2, <3>3, <3>4, <3>5 DEF WritesUser
  <2>3. history' \subseteq Passwords
    <3>1. CASE UNCHANGED history
      BY <3>1 DEF RowsTyped
    <3>2. CASE Remember(p)
      BY <3>2 DEF Remember, RowsTyped, JobsFit, Fits, account
    <3> QED BY <1>2, <3>1, <3>2 DEF WritesUser, CreateUser, WritePassword, Schedule, Restore
  <2> QED BY <2>1, <2>2, <2>3 DEF RowsTyped, keys
<1>3. ASSUME NEW p \in Requests, WritesKey(p) \/ Fail(p)
      PROVE  RowsTyped'
  <2>1. UNCHANGED <<mode, now, account, token>>
    BY <1>3 DEF WritesKey, Fail, StoreLink, UseLink, OpenChallenge, StoreCode, DropCode, WrongCode, DeleteCode,
         CloseChallenge, DeleteTries
  <2>2. link' \in [Links -> {"absent", "live", "gone"}]
    BY <1>3 DEF RowsTyped, WritesKey, Fail, StoreLink, UseLink, OpenChallenge, StoreCode, DropCode, WrongCode,
         DeleteCode, CloseChallenge, DeleteTries
  <2>3. challenge' \in [Challenges -> ChallengeType]
    <3>0. challenge \in [Challenges -> ChallengeType]
      BY DEF RowsTyped
    <3>1. CASE UNCHANGED challenge
      BY <3>0, <3>1
    <3>2. CASE OpenChallenge(p)
      <4>1. PICK c : challenge' = [challenge EXCEPT ![c].state = "open"]
        BY <3>2 DEF OpenChallenge
      <4>2. [challenge EXCEPT ![c].state = "open"] \in [Challenges -> ChallengeType]
        BY <3>0, ChallengeFields
      <4> QED BY <4>1, <4>2
    <3>3. CASE WrongCode(p)
      <4> DEFINE f == [challenge EXCEPT ![job[p].ch].tries = @ + 1]
      <4>1. f \in [Challenges -> ChallengeType]
        BY <3>0, ChallengeFields
      <4>2. [f EXCEPT ![job[p].ch].wrong = @ + 1] \in [Challenges -> ChallengeType]
        BY <4>1, ChallengeFields
      <4> QED BY <3>3, <4>2 DEF WrongCode
    <3>4. CASE CloseChallenge(p)
      BY <3>0, <3>4, ChallengeFields DEF CloseChallenge
    <3>5. CASE DeleteTries(p)
      BY <3>0, <3>5, ChallengeFields DEF DeleteTries
    <3>6. CASE Fail(p)
      <4>1. \/ UNCHANGED challenge
            \/ challenge' = [challenge EXCEPT ![job[p].ch].dropped = @ + 1]
        BY <3>6 DEF Fail
      <4>2. [challenge EXCEPT ![job[p].ch].dropped = @ + 1] \in [Challenges -> ChallengeType]
        BY <3>0, ChallengeFields
      <4> QED BY <3>0, <4>1, <4>2
    <3> QED BY <1>3, <3>1, <3>2, <3>3, <3>4, <3>5, <3>6
             DEF WritesKey, StoreLink, UseLink, StoreCode, DropCode, DeleteCode
  <2>4. sent' \in 0 .. MaxCodes /\ code' \in 0 .. sent'
    BY <1>3 DEF RowsTyped, WritesKey, Fail, StoreLink, UseLink, OpenChallenge, StoreCode, DropCode, WrongCode,
         DeleteCode, CloseChallenge, DeleteTries
  <2>5. broken' \in BOOLEAN
    <3>1. CASE UNCHANGED broken
      BY <3>1 DEF RowsTyped
    <3>2. CASE Fail(p)
      BY <3>2 DEF Fail
    <3> QED BY <1>3, <3>1, <3>2 DEF WritesKey, StoreLink, UseLink, OpenChallenge, StoreCode, DropCode, WrongCode,
             DeleteCode, CloseChallenge, DeleteTries
  <2> QED BY <2>1, <2>2, <2>3, <2>4, <2>5 DEF RowsTyped, account
<1>4. ASSUME NEW p \in Requests, WritesToken(p)
      PROVE  RowsTyped'
  <2>1. /\ UNCHANGED <<mode, now, keys>>
        /\ UNCHANGED broken \/ broken' = FALSE
    BY <1>4 DEF WritesToken, Issue, Rotate, Logout, RevokeSessions, PermanentDelete, CleanUp
  <2>2. UNCHANGED account \/ Delete
    BY <1>4 DEF WritesToken, Issue, Rotate, Logout, RevokeSessions, PermanentDelete, CleanUp
  <2>3. /\ user' \in UserType /\ history' \subseteq Passwords
        /\ user'.status = "deactivated" => user'.due # 0
    <3>1. CASE UNCHANGED account
      BY <3>1 DEF account, RowsTyped
    <3>2. CASE Delete
      BY <3>2 DEF Delete, NoUser, UserType
    <3> QED BY <2>2, <3>1, <3>2
  <2>4. token' \in [Tokens -> TokenType]
    <3> USE DEF RowsTyped, TokenType
    <3>1. CASE UNCHANGED token
      BY <3>1
    <3>2. CASE Issue(p)
      BY <3>2 DEF Issue, Fresh, JobsFit, JobType
    <3>3. CASE Rotate(p)
      BY <3>3 DEF Rotate
    <3>4. CASE token' = RevokeAll
      BY <3>4 DEF RevokeAll
    <3>5. CASE Delete
      BY <3>5 DEF Delete
    <3> QED BY <1>4, <3>1, <3>2, <3>3, <3>4, <3>5
             DEF WritesToken, Logout, RevokeSessions, PermanentDelete, CleanUp
  <2> QED BY <2>1, <2>3, <2>4 DEF RowsTyped, keys
<1>5. ASSUME NEW p \in Requests, Staff(p)
      PROVE  RowsTyped'
  <2>1. UNCHANGED <<mode, now, history, token, keys, broken>>
    BY <1>5 DEF Staff, SetStatus, SetRole
  <2>2. user' \in UserType /\ (user'.status = "deactivated" => user'.due # 0)
    <3>1. user \in UserType /\ (user.status = "deactivated" => user.due # 0)
      BY DEF RowsTyped
    <3>2. CASE \E s \in {"active", "suspended"} : SetStatus(p, s)
      <4>1. PICK s \in {"active", "suspended"} : user' = [user EXCEPT !.status = s, !.since = 0]
        BY <3>2 DEF SetStatus
      <4>2. user' \in UserType
        BY <3>1, <4>1, UserFields
      <4> QED BY <3>1, <4>1, <4>2 DEF UserType
    <3>3. CASE \E b \in BOOLEAN : SetRole(p, b)
      <4>1. PICK b \in BOOLEAN : user' = [user EXCEPT !.admin = b]
        BY <3>3 DEF SetRole
      <4>2. user' \in UserType
        BY <3>1, <4>1, UserFields
      <4> QED BY <3>1, <4>1, <4>2 DEF UserType
    <3> QED BY <1>5, <3>2, <3>3 DEF Staff
  <2> QED BY <2>1, <2>2 DEF RowsTyped, keys
<1>6. CASE Clocks
  <2>1. UNCHANGED <<mode, account, token, link, sent, broken>>
    BY <1>6 DEF Clocks, ExpireCode, Tick, ExpireChallenge, keys
  <2>2. now' \in 0 .. Horizon /\ code' \in 0 .. sent'
    BY <1>6 DEF Clocks, ExpireCode, Tick, ExpireChallenge, RowsTyped, keys
  <2>3. challenge' \in [Challenges -> ChallengeType]
    <3>1. challenge \in [Challenges -> ChallengeType]
      BY DEF RowsTyped
    <3>2. CASE \E c \in Challenges : ExpireChallenge(c)
      <4>1. PICK c : \/ challenge' = [challenge EXCEPT ![c].state = "closed"]
                     \/ challenge' = [challenge EXCEPT ![c].tries = 0]
        BY <3>2 DEF ExpireChallenge
      <4>2. /\ [challenge EXCEPT ![c].state = "closed"] \in [Challenges -> ChallengeType]
            /\ [challenge EXCEPT ![c].tries = 0] \in [Challenges -> ChallengeType]
        BY <3>1, ChallengeFields
      <4> QED BY <4>1, <4>2
    <3> QED BY <1>6, <3>1, <3>2 DEF Clocks, ExpireCode, Tick, keys
  <2> QED BY <2>1, <2>2, <2>3 DEF RowsTyped, account
<1>7. CASE UNCHANGED vars
  BY <1>7 DEF vars, RowsTyped, account, keys
<1> QED BY <1>1, <1>2, <1>3, <1>4, <1>5, <1>6, <1>7, NextSplits

LEMMA InitTyped == Init => RowsTyped /\ JobsFit
<1> SUFFICES ASSUME Init PROVE RowsTyped /\ JobsFit
  OBVIOUS
<1> USE AccountsAssumption DEF Init
<1>1. user \in UserType /\ user.status # "deactivated" /\ history \subseteq Passwords
  <2>1. CASE user = NoUser
    BY <2>1 DEF NoUser, UserType
  <2>2. CASE user \in [status : {"active"}, pw : Passwords, due : {0}, admin : BOOLEAN, since : {0}]
    BY <2>2 DEF UserType
  <2> QED BY <2>1, <2>2
<1>2. token \in [Tokens -> TokenType] /\ challenge \in [Challenges -> ChallengeType]
  BY DEF NoToken, TokenType, NoChallenge, ChallengeType
<1>3. NoJob \in JobType
  BY DEF NoJob, JobType
<1>4. JobsFit
  BY <1>3, NoJobFits DEF JobsFit, Loc
<1>5. Horizon \in Nat /\ MaxCodes \in Nat
  BY AccountsAssumption
<1>6. now \in 0 .. Horizon /\ sent \in 0 .. MaxCodes /\ code \in 0 .. sent
  BY <1>5
<1>7. link \in [Links -> {"absent", "live", "gone"}] /\ mode \in Modes /\ broken \in BOOLEAN
  OBVIOUS
<1> QED BY <1>1, <1>2, <1>4, <1>6, <1>7 DEF RowsTyped

\* Every column and every local of a request keeps its type, for any modes.
THEOREM TypeCorrect == Spec => []TypeOK
<1>1. Init => RowsTyped /\ JobsFit
  BY InitTyped
<1>2. (RowsTyped /\ JobsFit) /\ [Next]_vars => (RowsTyped /\ JobsFit)'
  BY JobsStep, RowsStep
<1>3. RowsTyped /\ JobsFit => TypeOK
  BY TypeSplits
<1> QED BY <1>1, <1>2, <1>3, PTL DEF Spec

-----------------------------------------------------------------------------
(* Rotation. A token that was rotated is revoked, or its row is gone, from  *)
(* before its successor is stored.                                          *)

Replaced(t) == token[t].state \in {"revoked", "gone"}

RotationInv ==
    /\ \A p \in Requests : pc[p] = "rotate" => token[job[p].tok].state # "absent"
    /\ \A p \in Requests : pc[p] = "issue" /\ job[p].tok # 0 => Replaced(job[p].tok)
    /\ \A t \in Issued : token[t].parent # 0 => Replaced(token[t].parent)

\* Tokens only lose: no row appears, and none becomes good.
Fade ==
    \A t \in Tokens :
        /\ token'[t].parent = token[t].parent /\ token'[t].login = token[t].login
        /\ token'[t].pw = token[t].pw
        /\ token'[t].state = "absent" <=> token[t].state = "absent"
        /\ Replaced(t) => token'[t].state \in {"revoked", "gone"}
        /\ token'[t].state = "live" => token[t].state = "live"

LEMMA RevokeAllFades == ASSUME RowsTyped, token' = RevokeAll PROVE Fade
BY DEF RevokeAll, Fade, Replaced, Live, RowsTyped, TokenType

LEMMA DeleteFades == ASSUME RowsTyped, Delete PROVE Fade
BY DEF Delete, Fade, Replaced, Issued, RowsTyped, TokenType

\* What a step does to the tokens and to the request that takes it.
OtherMove ==
    \/ UNCHANGED <<pc, job>>
    \/ \E p \in Requests : \E loc \in Loc \ {"rotate"} : \E j \in JobType :
           Goto(p, loc, j) /\ j.tok = 0

LEMMA OtherSteps ==
    ASSUME RowsTyped, JobsFit, [Next]_vars
    PROVE  \/ UNCHANGED token /\ OtherMove
           \/ \E p \in Requests : WritesToken(p) \/ \E t \in Tokens : Refresh(p, t)
<1>1. ASSUME NEW p \in Requests, Starts(p) \/ Reads(p) \/ WritesUser(p) \/ WritesKey(p)
      PROVE  UNCHANGED token /\ OtherMove
  <2>1. OtherMove
    BY <1>1, StartsFit, ReadsFit, WritesUserFit, WritesKeyFit DEF OtherMove
  <2>2. UNCHANGED token
    <3>1. CASE Starts(p)
      BY <3>1 DEF Starts, SignUp, Login, OAuthLogin, RequestReset, SignedIn, ResetPassword, SendOtp,
           VerifyOtp, VerifyAdminLogin
    <3>2. CASE Reads(p)
      BY <3>2 DEF Reads, ReadRoles, CheckHistory, CompareCode, CheckUser, CheckAccess, Deactivate, Reactivate
    <3>3. CASE WritesUser(p)
      BY <3>3 DEF WritesUser, CreateUser, Remember, WritePassword, Schedule, Restore
    <3>4. CASE WritesKey(p)
      BY <3>4 DEF WritesKey, StoreLink, UseLink, OpenChallenge, StoreCode, DropCode, WrongCode, DeleteCode,
           CloseChallenge, DeleteTries
    <3> QED BY <1>1, <3>1, <3>2, <3>3, <3>4
  <2> QED BY <2>1, <2>2
<1>2. ASSUME NEW p \in Requests, Fail(p)
      PROVE  UNCHANGED token /\ OtherMove
  BY <1>2, NoJobFits DEF Fail, Done, OtherMove, Loc, Fits, NoJob
<1>3. ASSUME NEW p \in Requests, Staff(p)
      PROVE  UNCHANGED token /\ OtherMove
  BY <1>3 DEF Staff, SetStatus, SetRole, OtherMove
<1>4. CASE Clocks
  BY <1>4 DEF Clocks, ExpireCode, Tick, ExpireChallenge, OtherMove
<1>5. CASE UNCHANGED vars
  BY <1>5 DEF vars, OtherMove
<1> QED BY <1>1, <1>2, <1>3, <1>4, <1>5, NextSplits

LEMMA RotationStep == RowsTyped /\ JobsFit /\ RotationInv /\ [Next]_vars => RotationInv'
<1> SUFFICES ASSUME RowsTyped, JobsFit, RotationInv, [Next]_vars
             PROVE  RotationInv'
  OBVIOUS
<1>1. CASE UNCHANGED token /\ OtherMove
  <2>1. ASSUME NEW p \in Requests
        PROVE  (pc'[p] = pc[p] /\ job'[p] = job[p]) \/ (pc'[p] # "rotate" /\ job'[p].tok = 0)
    BY <1>1 DEF OtherMove, Goto, JobsFit
  <2> QED BY <1>1, <2>1 DEF RotationInv, Replaced, Issued
<1>2. ASSUME NEW p \in Requests, NEW t \in Tokens, Refresh(p, t)
      PROVE  RotationInv'
  <2>1. UNCHANGED token /\ token[t].state # "absent"
    BY <1>2 DEF Refresh, Live
  <2>2. ASSUME NEW q \in Requests
        PROVE  (pc'[q] = pc[q] /\ job'[q] = job[q]) \/ (pc'[q] = "rotate" /\ job'[q].tok = t)
    <3> DEFINE r == [NoJob EXCEPT !.tok = t, !.pw = token[t].pw, !.ch = token[t].ch]
    <3>1. r.tok = t
      BY DEF NoJob
    <3>2. Goto(p, "rotate", r)
      BY <1>2, RefreshFits
    <3> HIDE DEF r
    <3>3. CASE q = p
      BY <3>1, <3>2, <3>3 DEF Goto, JobsFit
    <3>4. CASE q # p
      BY <3>2, <3>4 DEF Goto, JobsFit
    <3> QED BY <3>3, <3>4
  <2> QED BY <2>1, <2>2 DEF RotationInv, Replaced, Issued
<1>3. ASSUME NEW p \in Requests, WritesToken(p)
      PROVE  RotationInv'
  <2>0. /\ \A q \in Requests \ {p} : pc'[q] = pc[q] /\ job'[q] = job[q]
        /\ \A q \in Requests : job[q].tok \in Tokens \cup {0}
        /\ \A q \in Requests : pc[q] = "rotate" => job[q].tok \in Tokens
    BY <1>3 DEF WritesToken, Issue, Rotate, Logout, RevokeSessions, PermanentDelete, CleanUp, Done, Goto,
         JobsFit, Fits, JobType
  <2>1. ASSUME Fade, pc'[p] \notin {"issue", "rotate"} \/ (pc'[p] = pc[p] /\ job'[p] = job[p])
        PROVE  RotationInv'
    BY <2>0, <2>1 DEF RotationInv, Fade, Replaced, Issued, RowsTyped, TokenType
  <2>2. CASE Logout(p) \/ RevokeSessions(p)
    <3>1. token' = RevokeAll /\ pc'[p] \in {"idle", "used"}
      BY <2>2 DEF Logout, RevokeSessions, Done, Goto, JobsFit
    <3> QED BY <2>1, <3>1, RevokeAllFades
  <2>3. CASE PermanentDelete(p)
    <3>1. Delete \/ UNCHANGED token
      BY <2>3 DEF PermanentDelete
    <3>2. Fade
      BY <3>1, DeleteFades DEF Fade, Replaced
    <3> QED BY <2>1, <2>3, <3>2 DEF PermanentDelete, Done, Goto, JobsFit
  <2>4. CASE CleanUp(p)
    BY <2>1, <2>4, DeleteFades DEF CleanUp
  <2>5. CASE Rotate(p)
    <3> DEFINE t == job[p].tok
    <3>1. t \in Tokens /\ token[t] \in TokenType /\ token[t].state # "absent" /\ pc[p] = "rotate"
      BY <2>0, <2>5 DEF Rotate, RowsTyped, RotationInv
    <3>2. CASE UNCHANGED token /\ Done(p)
      BY <2>1, <3>2 DEF Fade, Replaced, Done, Goto, JobsFit
    <3>3. CASE token' = [token EXCEPT ![t].state = "revoked"] /\ Goto(p, "issue", job[p])
      <4>1. Fade /\ token'[t].state = "revoked"
        BY <3>1, <3>3 DEF Fade, Replaced, RowsTyped, TokenType
      <4>2. pc'[p] = "issue" /\ job'[p] = job[p]
        BY <3>3 DEF Goto, JobsFit
      <4> QED BY <2>0, <3>1, <4>1, <4>2 DEF RotationInv, Fade, Replaced, Issued, RowsTyped, TokenType
    <3> QED BY <2>5, <3>2, <3>3 DEF Rotate
  <2>6. CASE Issue(p)
    <3>1. CASE UNCHANGED token
      BY <2>1, <2>6, <3>1 DEF Issue, Fade, Replaced, Done, Goto, JobsFit
    <3>2. ASSUME NEW t \in Tokens, token[t].state = "absent",
                 NEW r \in TokenType, r.parent = job[p].tok, r.state = "live",
                 token' = [token EXCEPT ![t] = r]
          PROVE  RotationInv'
      <4>1. pc'[p] = "idle" /\ pc[p] = "issue"
        BY <2>6 DEF Issue, Done, Goto, JobsFit
      <4>2. token'[t] = r /\ \A u \in Tokens \ {t} : token'[u] = token[u]
        BY <3>2 DEF RowsTyped
      <4>3. \A u \in Tokens : Replaced(u) => token'[u].state \in {"revoked", "gone"}
        BY <3>2, <4>2 DEF Replaced
      <4>4. \A q \in Requests : pc'[q] = "rotate" => token'[job'[q].tok].state # "absent"
        BY <2>0, <3>2, <4>1, <4>2 DEF RotationInv
      <4>5. \A q \in Requests : pc'[q] = "issue" /\ job'[q].tok # 0 =>
                                  token'[job'[q].tok].state \in {"revoked", "gone"}
        BY <2>0, <4>1, <4>3 DEF RotationInv
      <4>6. \A u \in Tokens : token'[u].state # "absent" /\ token'[u].parent # 0 =>
                                  token'[token'[u].parent].state \in {"revoked", "gone"}
        BY <2>0, <3>2, <4>1, <4>2, <4>3 DEF RotationInv, Issued, RowsTyped, TokenType
      <4> QED BY <4>4, <4>5, <4>6 DEF RotationInv, Replaced, Issued
    <3> DEFINE R(t) == [state |-> "live", parent |-> job[p].tok, pw |-> job[p].pw, ch |-> job[p].ch,
                        login |-> IF job[p].tok = 0 THEN t ELSE token[job[p].tok].login]
    <3>3. ASSUME NEW t \in Tokens PROVE R(t) \in TokenType
      BY <2>0, <2>6 DEF Issue, JobsFit, JobType, TokenType, RowsTyped
    <3> QED BY <2>6, <3>1, <3>2, <3>3 DEF Issue, Fresh, Issued
  <2> QED BY <1>3, <2>2, <2>3, <2>4, <2>5, <2>6 DEF WritesToken
<1> QED BY <1>1, <1>2, <1>3, OtherSteps

LEMMA InitRotation == Init => RotationInv
BY DEF Init, RotationInv, Issued, NoToken, NoJob

\* No token is good beside one that was rotated from it: whatever overlaps.
THEOREM RotationIsFinal == Spec => []RotationInvalidates
<1>1. Init => RowsTyped /\ JobsFit /\ RotationInv
  BY InitTyped, InitRotation
<1>2. (RowsTyped /\ JobsFit /\ RotationInv) /\ [Next]_vars => (RowsTyped /\ JobsFit /\ RotationInv)'
  BY JobsStep, RowsStep, RotationStep
<1>3. RowsTyped /\ JobsFit /\ RotationInv => RotationInvalidates
  BY DEF RotationInv, RotationInvalidates, Replaced
<1> QED BY <1>1, <1>2, <1>3, PTL DEF Spec

-----------------------------------------------------------------------------
(* Deletion. The scheduled day is a window after the deactivation.          *)

Dated == user.status = "deactivated" => user.due = user.since + Window

\* How a step may change the account.
LEMMA UserSteps ==
    ASSUME RowsTyped, JobsFit, [Next]_vars
    PROVE  \/ UNCHANGED user
           \/ \E p \in Requests : WritesUser(p) \/ Staff(p)
           \/ Delete /\ \E p \in Requests : PermanentDelete(p) \/ CleanUp(p)
<1>1. ASSUME NEW p \in Requests,
             Starts(p) \/ (\E t \in Tokens : Refresh(p, t)) \/ Reads(p) \/ WritesKey(p) \/ Fail(p)
      PROVE  UNCHANGED user
  <2>1. CASE Starts(p)
    BY <2>1 DEF Starts, SignUp, Login, OAuthLogin, RequestReset, SignedIn, ResetPassword, SendOtp,
         VerifyOtp, VerifyAdminLogin, account
  <2>2. CASE \E t \in Tokens : Refresh(p, t)
    BY <2>2 DEF Refresh, account
  <2>3. CASE Reads(p)
    BY <2>3 DEF Reads, ReadRoles, CheckHistory, CompareCode, CheckUser, CheckAccess, Deactivate, Reactivate,
         account
  <2>4. CASE WritesKey(p)
    BY <2>4 DEF WritesKey, StoreLink, UseLink, OpenChallenge, StoreCode, DropCode, WrongCode, DeleteCode,
         CloseChallenge, DeleteTries, account
  <2>5. CASE Fail(p)
    BY <2>5 DEF Fail, account
  <2> QED BY <1>1, <2>1, <2>2, <2>3, <2>4, <2>5
<1>2. ASSUME NEW p \in Requests, WritesToken(p)
      PROVE  UNCHANGED user \/ (Delete /\ (PermanentDelete(p) \/ CleanUp(p)))
  BY <1>2 DEF WritesToken, Issue, Rotate, Logout, RevokeSessions, PermanentDelete, CleanUp, account
<1>3. CASE Clocks
  BY <1>3 DEF Clocks, ExpireCode, Tick, ExpireChallenge, account
<1>4. CASE UNCHANGED vars
  BY <1>4 DEF vars, account
<1> QED BY <1>1, <1>2, <1>3, <1>4, NextSplits

LEMMA DatedStep == RowsTyped /\ JobsFit /\ Dated /\ [Next]_vars => Dated'
<1> SUFFICES ASSUME RowsTyped, JobsFit, Dated, [Next]_vars
             PROVE  Dated'
  OBVIOUS
<1> USE DEF RowsTyped, UserType
<1>1. CASE UNCHANGED user
  BY <1>1 DEF Dated
<1>2. ASSUME NEW p \in Requests, WritesUser(p)
      PROVE  Dated'
  <2>1. CASE CreateUser(p)
    BY <2>1 DEF CreateUser, NoUser, Dated
  <2>2. CASE Remember(p)
    BY <2>2 DEF Remember, Dated, account
  <2>3. CASE WritePassword(p)
    BY <2>3 DEF WritePassword, Dated
  <2>4. CASE Schedule(p)
    BY <2>4 DEF Schedule, Dated
  <2>5. CASE Restore(p)
    BY <2>5 DEF Restore, Dated
  <2> QED BY <1>2, <2>1, <2>2, <2>3, <2>4, <2>5 DEF WritesUser
<1>3. ASSUME NEW p \in Requests, Staff(p)
      PROVE  Dated'
  BY <1>3 DEF Staff, SetStatus, SetRole, Dated
<1>4. CASE Delete
  BY <1>4 DEF Delete, NoUser, Dated
<1> QED BY <1>1, <1>2, <1>3, <1>4, UserSteps

\* Only a deletion by the user or a clean-up past the window ends an account.
LEMMA DeletionStep ==
    ASSUME RowsTyped, JobsFit, Dated, [Next]_vars, Exists, ~ Exists'
    PROVE  \/ \E p \in Requests : pc[p] = "erase" /\ pc'[p] # "erase"
           \/ user.status = "deactivated" /\ user.since + Window <= now
<1> USE DEF RowsTyped, UserType, Exists
<1>1. CASE UNCHANGED user
  BY <1>1
<1>2. ASSUME NEW p \in Requests, WritesUser(p)
      PROVE  FALSE
  BY <1>2 DEF WritesUser, CreateUser, Remember, WritePassword, Schedule, Restore, account
<1>3. ASSUME NEW p \in Requests, Staff(p)
      PROVE  FALSE
  BY <1>3 DEF Staff, SetStatus, SetRole
<1>4. ASSUME NEW p \in Requests, PermanentDelete(p)
      PROVE  pc[p] = "erase" /\ pc'[p] # "erase"
  BY <1>4 DEF PermanentDelete, Done, Goto, JobsFit
<1>5. ASSUME NEW p \in Requests, CleanUp(p)
      PROVE  user.status = "deactivated" /\ user.since + Window <= now
  <2>1. /\ user.status = "deactivated" /\ user.due = user.since + Window
        /\ user.due + Window <= now
    BY <1>5 DEF CleanUp, Dated
  <2>2. user.since \in Nat /\ Window \in Nat /\ user.due \in Nat /\ now \in Nat
    BY AccountsAssumption
  <2> QED BY <2>1, <2>2
<1> QED BY <1>1, <1>2, <1>3, <1>4, <1>5, UserSteps

LEMMA InitDated == Init => Dated
<1> SUFFICES ASSUME Init PROVE user.status # "deactivated"
  BY DEF Dated
<1>1. CASE user = NoUser
  BY <1>1 DEF NoUser
<1>2. CASE user \in [status : {"active"}, pw : Passwords, due : {0}, admin : BOOLEAN, since : {0}]
  BY <1>2
<1> QED BY <1>1, <1>2 DEF Init

\* No clean-up deletes an account before its window ended: whatever overlaps.
THEOREM NeverDeletedEarly == Spec => KeptThroughWindow
<1>1. Init => RowsTyped /\ JobsFit /\ Dated
  BY InitTyped, InitDated
<1>2. (RowsTyped /\ JobsFit /\ Dated) /\ [Next]_vars => (RowsTyped /\ JobsFit /\ Dated)'
  BY JobsStep, RowsStep, DatedStep
<1>3. (RowsTyped /\ JobsFit /\ Dated) /\ [Next]_vars =>
          [ Exists /\ ~ Exists' =>
                \/ \E p \in Requests : pc[p] = "erase" /\ pc'[p] # "erase"
                \/ user.status = "deactivated" /\ user.since + Window <= now ]_vars
  BY DeletionStep
<1> QED BY <1>1, <1>2, <1>3, PTL DEF Spec, KeptThroughWindow

-----------------------------------------------------------------------------
(* Requests one at a time.                                                 *)

AnyStep(p) ==
    \/ Starts(p) \/ (\E t \in Tokens : Refresh(p, t)) \/ Reads(p) \/ WritesUser(p)
    \/ WritesKey(p) \/ Staff(p) \/ WritesToken(p) \/ Fail(p)

\* A step moves one request, and one that begins finds the others idle.
Moves(p) ==
    /\ mode' = mode
    /\ \A q \in Requests \ {p} : pc'[q] = pc[q] /\ job'[q] = job[q]
    /\ Alone /\ pc[p] = "idle" => Quiet

LEMMA StepsMove ==
    ASSUME JobsFit, NEW p \in Requests, AnyStep(p)
    PROVE  Moves(p)
<1> USE DEF Moves, Ready, Alone, Goto, Done, JobsFit
<1>1. CASE Starts(p)
  BY <1>1 DEF Starts, SignUp, Login, OAuthLogin, RequestReset, SignedIn, ResetPassword, SendOtp,
       VerifyOtp, VerifyAdminLogin
<1>2. CASE \E t \in Tokens : Refresh(p, t)
  BY <1>2 DEF Refresh
<1>3. CASE Reads(p)
  BY <1>3 DEF Reads, ReadRoles, CheckHistory, CompareCode, CheckUser, CheckAccess, Deactivate, Reactivate
<1>4. CASE WritesUser(p)
  BY <1>4 DEF WritesUser, CreateUser, Remember, WritePassword, Schedule, Restore
<1>5. CASE WritesKey(p)
  BY <1>5 DEF WritesKey, StoreLink, UseLink, OpenChallenge, StoreCode, DropCode, WrongCode, DeleteCode,
       CloseChallenge, DeleteTries
<1>6. CASE Staff(p)
  BY <1>6 DEF Staff, SetStatus, SetRole
<1>7. CASE WritesToken(p)
  BY <1>7 DEF WritesToken, Issue, Rotate, Logout, RevokeSessions, PermanentDelete, CleanUp
<1>8. CASE Fail(p)
  BY <1>8 DEF Fail
<1> QED BY <1>1, <1>2, <1>3, <1>4, <1>5, <1>6, <1>7, <1>8 DEF AnyStep

\* The clocks move no request and read no table but redis.
LEMMA ClocksStill ==
    ASSUME Clocks \/ UNCHANGED vars
    PROVE  UNCHANGED <<mode, account, token, broken, pc, job>>
BY DEF Clocks, ExpireCode, Tick, ExpireChallenge, vars

Solo ==
    Alone => \A p \in Requests : \A q \in Requests : pc[p] # "idle" /\ pc[q] # "idle" => p = q

LEMMA SoloStep == JobsFit /\ Solo /\ [Next]_vars => Solo'
<1> SUFFICES ASSUME JobsFit, Solo, [Next]_vars
             PROVE  Solo'
  OBVIOUS
<1>1. ASSUME NEW p \in Requests, AnyStep(p)
      PROVE  Solo'
  BY <1>1, StepsMove DEF Moves, Solo, Alone, Quiet
<1>2. CASE Clocks \/ UNCHANGED vars
  BY <1>2, ClocksStill DEF Solo, Alone
<1> QED BY <1>1, <1>2, NextSplits DEF AnyStep

-----------------------------------------------------------------------------
(* One good token of each sign-in.                                         *)

LoginInv ==
    /\ \A t \in Issued : token[t].login \in Issued
    /\ Alone => \A p \in Requests : pc[p] = "rotate" => token[job[p].tok].state = "live"
    /\ Alone => \A p \in Requests :
                   pc[p] = "issue" /\ job[p].tok # 0 =>
                       \A u \in Live : token[u].login # token[job[p].tok].login
    /\ OneTokenPerLogin

LEMMA LoginStep ==
    RowsTyped /\ JobsFit /\ RotationInv /\ Solo /\ LoginInv /\ [Next]_vars => LoginInv'
<1> SUFFICES ASSUME RowsTyped, JobsFit, RotationInv, Solo, LoginInv, [Next]_vars
             PROVE  LoginInv'
  OBVIOUS
<1>0. mode' = mode /\ (Alone' <=> Alone)
  <2>1. mode' = mode
    BY StepsMove, ClocksStill, NextSplits DEF AnyStep, Moves
  <2> QED BY <2>1 DEF Alone
<1>1. CASE UNCHANGED token /\ OtherMove
  <2>1. ASSUME NEW p \in Requests
        PROVE  (pc'[p] = pc[p] /\ job'[p] = job[p]) \/ (pc'[p] # "rotate" /\ job'[p].tok = 0)
    BY <1>1 DEF OtherMove, Goto, JobsFit
  <2> QED BY <1>0, <1>1, <2>1 DEF LoginInv, OneTokenPerLogin, Issued, Live
<1>2. ASSUME NEW p \in Requests, NEW t \in Tokens, Refresh(p, t)
      PROVE  LoginInv'
  <2>1. UNCHANGED token /\ token[t].state = "live"
    BY <1>2 DEF Refresh, Live
  <2>2. ASSUME NEW q \in Requests
        PROVE  (pc'[q] = pc[q] /\ job'[q] = job[q]) \/ (pc'[q] = "rotate" /\ job'[q].tok = t)
    <3> DEFINE r == [NoJob EXCEPT !.tok = t, !.pw = token[t].pw, !.ch = token[t].ch]
    <3>1. r.tok = t
      BY DEF NoJob
    <3>2. Goto(p, "rotate", r)
      BY <1>2, RefreshFits
    <3> HIDE DEF r
    <3>3. CASE q = p
      BY <3>1, <3>2, <3>3 DEF Goto, JobsFit
    <3>4. CASE q # p
      BY <3>2, <3>4 DEF Goto, JobsFit
    <3> QED BY <3>3, <3>4
  <2> QED BY <1>0, <2>1, <2>2 DEF LoginInv, OneTokenPerLogin, Issued, Live
<1>3. ASSUME NEW p \in Requests, WritesToken(p)
      PROVE  LoginInv'
  <2>0. /\ \A q \in Requests \ {p} : pc'[q] = pc[q] /\ job'[q] = job[q]
        /\ \A q \in Requests : job[q].tok \in Tokens \cup {0}
        /\ Alone => \A q \in Requests \ {p} : pc'[q] = "idle"
        /\ \A t \in Tokens : token[t].login \in Tokens \cup {0}
    BY <1>3, StepsMove DEF AnyStep, Moves, Quiet, Solo, JobsFit, JobType, RowsTyped, TokenType
  <2>1. ASSUME Fade, pc'[p] \notin {"issue", "rotate"}
        PROVE  LoginInv'
    <3>1. \A t \in Issued' : token'[t].login \in Issued'
      BY <2>0, <2>1 DEF LoginInv, Fade, Issued
    <3>2. OneTokenPerLogin'
      BY <1>0, <2>1 DEF LoginInv, OneTokenPerLogin, Fade, Live
    <3>3. Alone => \A q \in Requests : pc'[q] \notin {"issue", "rotate"}
      BY <2>0, <2>1
    <3> QED BY <1>0, <3>1, <3>2, <3>3 DEF LoginInv
  <2>2. CASE Logout(p) \/ RevokeSessions(p)
    <3>1. token' = RevokeAll /\ pc'[p] \in {"idle", "used"}
      BY <2>2 DEF Logout, RevokeSessions, Done, Goto, JobsFit
    <3> QED BY <2>1, <3>1, RevokeAllFades
  <2>3. CASE PermanentDelete(p)
    <3>1. Delete \/ UNCHANGED token
      BY <2>3 DEF PermanentDelete
    <3>2. Fade
      BY <3>1, DeleteFades DEF Fade, Replaced
    <3> QED BY <2>1, <2>3, <3>2 DEF PermanentDelete, Done, Goto, JobsFit
  <2>4. CASE CleanUp(p)
    BY <2>1, <2>4, DeleteFades DEF CleanUp, Ready
  <2>5. CASE Rotate(p)
    <3> DEFINE t == job[p].tok
    <3>1. t \in Tokens /\ token[t] \in TokenType /\ token[t].state # "absent" /\ pc[p] = "rotate"
      BY <2>0, <2>5 DEF Rotate, RowsTyped, RotationInv, JobsFit, Fits
    <3>2. CASE UNCHANGED token /\ Done(p)
      BY <2>1, <3>2 DEF Fade, Replaced, Done, Goto, JobsFit
    <3>3. CASE token' = [token EXCEPT ![t].state = "revoked"] /\ Goto(p, "issue", job[p])
      <4>1. Fade /\ token'[t].state = "revoked"
        BY <3>1, <3>3 DEF Fade, Replaced, RowsTyped, TokenType
      <4>2. pc'[p] = "issue" /\ job'[p] = job[p]
        BY <3>3 DEF Goto, JobsFit
      <4>3. \A u \in Issued' : token'[u].login \in Issued'
        BY <2>0, <4>1 DEF LoginInv, Fade, Issued
      <4>4. OneTokenPerLogin'
        BY <1>0, <4>1 DEF LoginInv, OneTokenPerLogin, Fade, Live
      <4>5. Alone => \A u \in Live' : token'[u].login # token'[t].login
        <5>1. Alone => token[t].state = "live"
          BY <3>1 DEF LoginInv
        <5> QED BY <3>1, <4>1, <5>1 DEF LoginInv, OneTokenPerLogin, Fade, Live
      <4>6. Alone => \A q \in Requests : pc'[q] # "rotate"
        BY <2>0, <4>2
      <4> QED BY <1>0, <2>0, <4>2, <4>3, <4>4, <4>5, <4>6 DEF LoginInv
    <3> QED BY <2>5, <3>2, <3>3 DEF Rotate
  <2>6. CASE Issue(p)
    <3>0. pc'[p] = "idle" /\ pc[p] = "issue"
      BY <2>6 DEF Issue, Done, Goto, JobsFit
    <3>1. CASE UNCHANGED token
      BY <2>1, <3>0, <3>1 DEF Fade, Replaced
    <3>2. ASSUME NEW t \in Tokens, token[t].state = "absent",
                 NEW r \in TokenType, r.state = "live",
                 r.login = IF job[p].tok = 0 THEN t ELSE token[job[p].tok].login,
                 token' = [token EXCEPT ![t] = r]
          PROVE  LoginInv'
      <4>2. token'[t] = r /\ \A u \in Tokens \ {t} : token'[u] = token[u]
        BY <3>2 DEF RowsTyped
      <4>3. r.login = t \/ (job[p].tok \in Issued /\ r.login = token[job[p].tok].login)
        BY <2>0, <3>0, <3>2 DEF RotationInv, Replaced, Issued
      <4>4. \A u \in Issued' : token'[u].login \in Issued'
        BY <3>2, <4>2, <4>3 DEF LoginInv, Issued
      <4>5. ASSUME Alone, NEW u \in Live
            PROVE  token[u].login # r.login
        BY <2>0, <3>0, <3>2, <4>5 DEF LoginInv, Live, Issued
      <4>6. OneTokenPerLogin'
        BY <1>0, <3>2, <4>2, <4>5 DEF LoginInv, OneTokenPerLogin, Live
      <4>7. Alone => \A q \in Requests : pc'[q] \notin {"issue", "rotate"}
        BY <2>0, <3>0
      <4> QED BY <1>0, <4>4, <4>6, <4>7 DEF LoginInv
    <3> DEFINE R(t) == [state |-> "live", parent |-> job[p].tok, pw |-> job[p].pw, ch |-> job[p].ch,
                        login |-> IF job[p].tok = 0 THEN t ELSE token[job[p].tok].login]
    <3>3. ASSUME NEW t \in Tokens PROVE R(t) \in TokenType
      BY <2>0, <2>6 DEF Issue, JobsFit, JobType, TokenType, RowsTyped
    <3> QED BY <2>6, <3>1, <3>2, <3>3 DEF Issue, Fresh, Issued
  <2> QED BY <1>3, <2>2, <2>3, <2>4, <2>5, <2>6 DEF WritesToken
<1> QED BY <1>1, <1>2, <1>3, OtherSteps

\* Requests one at a time keep one good token of each sign-in.
THEOREM OneTokenEach == Spec => []OneTokenPerLogin
<1> DEFINE IInv == RowsTyped /\ JobsFit /\ RotationInv /\ Solo /\ LoginInv
<1>1. Init => IInv
  <2>1. Init => Solo /\ LoginInv
    BY DEF Init, Solo, LoginInv, OneTokenPerLogin, Issued, Live, NoToken
  <2> QED BY <2>1, InitTyped, InitRotation
<1>2. IInv /\ [Next]_vars => IInv'
  BY JobsStep, RowsStep, RotationStep, SoloStep, LoginStep
<1>3. IInv => OneTokenPerLogin
  BY DEF LoginInv
<1> QED BY <1>1, <1>2, <1>3, PTL DEF Spec

-----------------------------------------------------------------------------
(* The password in force.                                                  *)

Bearing == {"roles", "remember", "issue", "rotate"}
Settled == \A p \in Requests : pc[p] \notin {"record", "revoke"}
InForce(w) == w \in {NoPassword, user.pw}

ForceInv ==
    /\ ~ Exists => Live = {}
    /\ Alone /\ ~ broken /\ Settled => \A t \in Live : InForce(token[t].pw)
    /\ Alone /\ ~ broken => \A p \in Requests : pc[p] \in Bearing => InForce(job[p].pw)

LEMMA ForceStep ==
    RowsTyped /\ JobsFit /\ Solo /\ ForceInv /\ [Next]_vars => ForceInv'
<1> SUFFICES ASSUME RowsTyped, JobsFit, Solo, ForceInv, [Next]_vars
             PROVE  ForceInv'
  OBVIOUS
<1>0. ASSUME NEW p \in Requests, AnyStep(p)
      PROVE  /\ Alone' <=> Alone
             /\ Alone => \A q \in Requests \ {p} : pc'[q] = "idle" /\ pc[q] = "idle"
             /\ Alone /\ pc[p] = "idle" => Settled
             /\ (Alone /\ pc[p] \notin {"record", "revoke"}) => Settled
  BY <1>0, StepsMove DEF Moves, Alone, Quiet, Solo, Settled
\* It is enough to look at the request that moves.
<1>1. ASSUME NEW p \in Requests, AnyStep(p),
             ~ Exists' => Live' = {},
             Alone /\ ~ broken' /\ pc'[p] \notin {"record", "revoke"} => \A t \in Live' : InForce(token[t].pw)',
             Alone /\ ~ broken' /\ pc'[p] \in Bearing => InForce(job[p].pw)'
      PROVE  ForceInv'
  BY <1>0, <1>1 DEF ForceInv, Settled, Bearing
<1>2. ASSUME NEW p \in Requests, Starts(p) \/ Reads(p) \/ WritesKey(p)
      PROVE  ForceInv'
  <2>1. UNCHANGED <<user, token, broken>> /\ pc[p] \notin {"record", "revoke"}
    <3>1. CASE Starts(p)
      BY <3>1 DEF Starts, SignUp, Login, OAuthLogin, RequestReset, SignedIn, ResetPassword, SendOtp,
           VerifyOtp, VerifyAdminLogin, account, Ready
    <3>2. CASE Reads(p)
      BY <3>2 DEF Reads, ReadRoles, CheckHistory, CompareCode, CheckUser, CheckAccess, Deactivate, Reactivate,
           account
    <3>3. CASE WritesKey(p)
      BY <3>3 DEF WritesKey, StoreLink, UseLink, OpenChallenge, StoreCode, DropCode, WrongCode, DeleteCode,
           CloseChallenge, DeleteTries, account
    <3> QED BY <1>2, <3>1, <3>2, <3>3
  <2>2. pc'[p] \in Bearing => \/ job'[p].pw \in {NoPassword, user.pw}
                              \/ pc[p] = "roles" /\ job'[p] = job[p]
    <3> USE DEF Goto, Done, JobsFit, Bearing, NoJob
    <3>1. CASE Starts(p)
      <4>1. ASSUME NEW w \in Passwords, Login(p, w)
            PROVE  job'[p].pw = user.pw
        <5>1. w = user.pw /\ job'[p] = [NoJob EXCEPT !.pw = w]
          BY <4>1 DEF Login
        <5> QED BY <5>1
      <4>2. ASSUME OAuthLogin(p)
            PROVE  job'[p].pw = NoPassword
        BY <4>2 DEF OAuthLogin
      <4>3. ASSUME \/ \E w \in Passwords \cup {NoPassword} : SignUp(p, w)
                   \/ RequestReset(p)
                   \/ \E op \in {"logout", "deactivate", "reactivate", "erase"} : SignedIn(p, op)
                   \/ \E k \in Links : \E w \in Passwords : ResetPassword(p, k, w)
                   \/ \E c \in Challenges \cup {0} : SendOtp(p, c)
                   \/ \E g \in Codes : VerifyOtp(p, g)
                   \/ \E c \in Challenges : \E g \in 0 .. sent : VerifyAdminLogin(p, c, g)
            PROVE  pc'[p] \notin Bearing
        BY <4>3 DEF SignUp, RequestReset, SignedIn, ResetPassword, SendOtp, VerifyOtp, VerifyAdminLogin
      <4> HIDE DEF Goto, Done, JobsFit, Bearing, NoJob
      <4> QED BY <3>1, <4>1, <4>2, <4>3 DEF Starts
    <3>2. CASE ReadRoles(p)
      BY <3>2 DEF ReadRoles
    <3>3. CASE CheckHistory(p) \/ CompareCode(p) \/ CheckUser(p) \/ CheckAccess(p)
               \/ Deactivate(p) \/ Reactivate(p)
      BY <3>3 DEF CheckHistory, CompareCode, CheckUser, CheckAccess, Deactivate, Reactivate
    <3>4. CASE DeleteTries(p)
      <4> DEFINE r == [NoJob EXCEPT !.ch = job[p].ch]
      <4>1. r.pw = NoPassword
        OBVIOUS
      <4> HIDE DEF r
      <4>2. job'[p] = r \/ pc'[p] = "idle"
        BY <3>4 DEF DeleteTries, r
      <4> QED BY <4>1, <4>2
    <3>5. CASE \/ StoreLink(p) \/ UseLink(p) \/ OpenChallenge(p) \/ StoreCode(p) \/ DropCode(p)
               \/ WrongCode(p) \/ DeleteCode(p) \/ CloseChallenge(p)
      BY <3>5 DEF StoreLink, UseLink, OpenChallenge, StoreCode, DropCode, WrongCode, DeleteCode, CloseChallenge
    <3> QED BY <1>2, <3>1, <3>2, <3>3, <3>4, <3>5 DEF Reads, WritesKey
  <2>3. AnyStep(p)
    BY <1>2 DEF AnyStep
  <2> QED BY <1>0, <1>1, <2>1, <2>2, <2>3 DEF ForceInv, InForce, Exists, Live, Bearing
<1>3. ASSUME NEW p \in Requests, NEW t \in Tokens, Refresh(p, t)
      PROVE  ForceInv'
  <2>1. UNCHANGED <<user, token, broken>> /\ pc[p] = "idle" /\ t \in Live /\ AnyStep(p)
    BY <1>3 DEF Refresh, account, Ready, AnyStep
  <2>2. job'[p].pw = token[t].pw
    BY <1>3 DEF Refresh, Goto, JobsFit, NoJob
  <2> QED BY <1>0, <1>1, <2>1, <2>2 DEF ForceInv, InForce, Exists, Live
<1>4. ASSUME NEW p \in Requests, WritesUser(p)
      PROVE  ForceInv'
  <2>0. UNCHANGED <<token, broken>> /\ AnyStep(p)
    BY <1>4 DEF WritesUser, CreateUser, Remember, WritePassword, Schedule, Restore, AnyStep
  <2>1. CASE CreateUser(p)
    <3>1. CASE UNCHANGED user /\ Done(p)
      BY <1>0, <1>1, <2>0, <2>1, <3>1
         DEF CreateUser, Done, Goto, JobsFit, ForceInv, InForce, Exists, Live, Bearing
    <3>2. CASE user.status = "none" /\ user' = [NoUser EXCEPT !.status = "active", !.pw = job[p].pw]
      <4>1. Live' = {} /\ user'.pw = job[p].pw /\ job'[p] = job[p]
        BY <2>0, <2>1, <3>2 DEF CreateUser, Goto, JobsFit, NoUser, ForceInv, Exists, Live
      <4> QED BY <1>1, <2>0, <4>1 DEF InForce
    <3> QED BY <2>1, <3>1, <3>2 DEF CreateUser
  <2>2. CASE Remember(p)
    <3>1. user'.pw = user.pw /\ (Exists' <=> Exists)
      BY <2>2 DEF Remember, account, RowsTyped, UserType, Exists
    <3>2. CASE Exists
      <4>1. job'[p] = job[p] /\ (pc[p] = "record" => pc'[p] = "revoke") /\ pc[p] \in {"remember", "record"}
        BY <2>2, <3>2 DEF Remember, Goto, JobsFit
      <4> QED BY <1>0, <1>1, <2>0, <3>1, <3>2, <4>1 DEF ForceInv, InForce, Live, Bearing
    <3>3. CASE ~ Exists
      <4>1. Live' = {} /\ pc'[p] = "idle"
        BY <2>0, <2>2, <3>3 DEF Remember, Done, Goto, JobsFit, ForceInv, Live
      <4> QED BY <1>1, <2>0, <4>1 DEF Bearing
    <3> QED BY <3>2, <3>3
  <2>3. CASE WritePassword(p)
    <3>1. CASE Exists
      <4>1. pc'[p] = "record" /\ Exists'
        BY <2>3, <3>1 DEF WritePassword, Goto, JobsFit, RowsTyped, UserType, Exists
      <4> QED BY <1>1, <2>0, <4>1 DEF Bearing
    <3>2. CASE ~ Exists
      <4>1. Live' = {} /\ pc'[p] = "idle"
        BY <2>0, <2>3, <3>2 DEF WritePassword, Done, Goto, JobsFit, ForceInv, Live
      <4> QED BY <1>1, <2>0, <4>1 DEF Bearing
    <3> QED BY <3>1, <3>2
  <2>4. CASE Schedule(p) \/ Restore(p)
    <3>1. /\ user'.pw = user.pw /\ (Exists' <=> Exists) /\ pc'[p] = "idle"
          /\ pc[p] \in {"schedule", "restore"}
      <4>1. user \in UserType /\ pc \in [Requests -> Loc]
        BY DEF RowsTyped, JobsFit
      <4>2. pc'[p] = "idle" /\ pc[p] \in {"schedule", "restore"}
        BY <2>4, <4>1 DEF Schedule, Restore, Done, Goto
      <4>3. CASE Schedule(p)
        <5>1. \/ user' = user
              \/ \E d, n : user' = [user EXCEPT !.status = "deactivated", !.due = d, !.since = n]
          BY <4>3 DEF Schedule
        <5>2. Exists \/ user' = user
          BY <4>3 DEF Schedule
        <5>3. /\ user'.pw = user.pw
              /\ user' = user \/ user'.status \in {"active", "deactivated"}
          <6>1. ASSUME NEW s, NEW d, NEW n,
                       user' = [user EXCEPT !.status = s, !.due = d, !.since = n]
                PROVE  user'.pw = user.pw /\ user'.status = s
            BY <4>1, <6>1 DEF UserType
          <6> QED BY <5>1, <6>1
        <5> QED BY <4>2, <5>2, <5>3 DEF Exists
      <4>4. CASE Restore(p)
        <5>1. user' = user \/ user' = [user EXCEPT !.status = "active", !.due = 0, !.since = 0]
          BY <4>4 DEF Restore
        <5>2. Exists \/ user' = user
          BY <4>4 DEF Restore
        <5>3. /\ user'.pw = user.pw
              /\ user' = user \/ user'.status \in {"active", "deactivated"}
          <6>1. ASSUME NEW s, NEW d, NEW n,
                       user' = [user EXCEPT !.status = s, !.due = d, !.since = n]
                PROVE  user'.pw = user.pw /\ user'.status = s
            BY <4>1, <6>1 DEF UserType
          <6> QED BY <5>1, <6>1
        <5> QED BY <4>2, <5>2, <5>3 DEF Exists
      <4> QED BY <2>4, <4>2, <4>3, <4>4
    <3> QED BY <1>0, <1>1, <2>0, <3>1 DEF ForceInv, InForce, Live, Bearing
  <2> QED BY <1>4, <2>1, <2>2, <2>3, <2>4 DEF WritesUser
<1>5. ASSUME NEW p \in Requests, Staff(p)
      PROVE  ForceInv'
  <2>1. UNCHANGED <<token, broken, pc, job, mode>>
    BY <1>5 DEF Staff, SetStatus, SetRole
  <2>2. user'.pw = user.pw /\ (Exists' <=> Exists)
    BY <1>5 DEF Staff, SetStatus, SetRole, RowsTyped, UserType, Exists
  <2> QED BY <2>1, <2>2 DEF ForceInv, InForce, Live, Settled, Alone
<1>6. ASSUME NEW p \in Requests, WritesToken(p)
      PROVE  ForceInv'
  <2>0. AnyStep(p)
    BY <1>6 DEF AnyStep
  <2>1. CASE Issue(p)
    <3>1. /\ UNCHANGED <<user, broken>> /\ pc[p] = "issue" /\ pc'[p] = "idle"
          /\ Exists \/ UNCHANGED token
      BY <2>1 DEF Issue, Done, Goto, JobsFit, account
    <3>2. ASSUME NEW u \in Live'
          PROVE  (u \in Live /\ token'[u].pw = token[u].pw) \/ token'[u].pw = job[p].pw
      BY <2>1, <3>2 DEF Issue, Fresh, Live, RowsTyped
    <3> QED BY <1>0, <1>1, <2>0, <3>1, <3>2 DEF ForceInv, InForce, Exists, Live, Bearing
  <2>2. CASE Rotate(p)
    <3>1. /\ UNCHANGED <<user, broken>> /\ pc[p] = "rotate"
          /\ pc'[p] = "idle" \/ (pc'[p] = "issue" /\ job'[p] = job[p])
      BY <2>2 DEF Rotate, Done, Goto, JobsFit, account
    <3>2. ASSUME NEW u \in Live'
          PROVE  u \in Live /\ token'[u].pw = token[u].pw
      BY <2>2, <3>2 DEF Rotate, Live, RowsTyped, TokenType
    <3> QED BY <1>0, <1>1, <2>0, <3>1, <3>2 DEF ForceInv, InForce, Exists, Bearing
  <2>3. CASE Logout(p) \/ RevokeSessions(p)
    <3>1. token' = RevokeAll /\ pc'[p] \in {"idle", "used"}
      BY <2>3 DEF Logout, RevokeSessions, Done, Goto, JobsFit
    <3>2. Live' = {}
      BY <3>1 DEF RevokeAll, Live, RowsTyped, TokenType
    <3> QED BY <1>1, <2>0, <3>1, <3>2 DEF Bearing
  <2>4. CASE (PermanentDelete(p) \/ CleanUp(p)) /\ Delete
    <3>1. Live' = {}
      BY <2>4 DEF Delete, Live, Issued, RowsTyped, TokenType
    <3>2. pc'[p] = "idle"
      BY <2>4 DEF PermanentDelete, CleanUp, Ready, Done, Goto, JobsFit
    <3> QED BY <1>1, <2>0, <3>1, <3>2 DEF Bearing
  <2>5. CASE PermanentDelete(p) /\ UNCHANGED <<account, token>>
    <3>1. UNCHANGED <<user, token, broken>> /\ pc[p] = "erase" /\ pc'[p] = "idle"
      BY <2>5 DEF PermanentDelete, Done, Goto, JobsFit, account
    <3> QED BY <1>0, <1>1, <2>0, <3>1 DEF ForceInv, InForce, Exists, Live, Bearing
  <2> QED BY <1>6, <2>1, <2>2, <2>3, <2>4, <2>5 DEF WritesToken, PermanentDelete, CleanUp
<1>7. ASSUME NEW p \in Requests, Fail(p)
      PROVE  ForceInv'
  <2>1. /\ UNCHANGED <<user, token>> /\ pc'[p] = "idle" /\ AnyStep(p)
        /\ broken' = (broken \/ pc[p] \in {"record", "revoke"})
    BY <1>7 DEF Fail, Done, Goto, JobsFit, account, AnyStep
  <2>2. ~ broken' => ~ broken /\ pc[p] \notin {"record", "revoke"}
    BY <2>1 DEF RowsTyped
  <2> QED BY <1>0, <1>1, <2>1, <2>2 DEF ForceInv, InForce, Exists, Live, Bearing
<1>8. CASE Clocks \/ UNCHANGED vars
  BY <1>8, ClocksStill DEF ForceInv, InForce, Exists, Live, Settled, Alone, account
<1> QED BY <1>2, <1>3, <1>4, <1>5, <1>6, <1>7, <1>8, NextSplits

\* Between requests one at a time, the sessions that began with a password began
\* with the one in force, unless a reset died before it revoked the others.
THEOREM ResetEndsSessions == Spec => []PasswordInForce
<1> DEFINE IInv == RowsTyped /\ JobsFit /\ Solo /\ ForceInv
<1>1. Init => IInv
  <2>1. Init => Solo /\ ForceInv
    BY DEF Init, Solo, ForceInv, Bearing, Live, NoToken
  <2> QED BY <2>1, InitTyped
<1>2. IInv /\ [Next]_vars => IInv'
  BY JobsStep, RowsStep, SoloStep, ForceStep
<1>3. IInv => PasswordInForce
  BY DEF ForceInv, PasswordInForce, Quiet, Settled, InForce
<1> QED BY <1>1, <1>2, <1>3, PTL DEF Spec

-----------------------------------------------------------------------------
(* Challenges: wrong answers and sessions, with the requests at work on     *)
(* them, are bounded once a challenge is closed.                            *)

Work == {"compare", "wrong", "user", "access", "delCode", "delChallenge", "delTries"}

\* The requests at work on a challenge or about to issue its session, those
\* about to answer, and those its last wrong answer has close it.
At(c) == {q \in Requests : job[q].ch = c /\ job[q].tok = 0}
Trying(c) == {q \in Requests : /\ job[q].ch = c /\ job[q].tok = 0
                               /\ pc[q] \in {"compare", "wrong"}}
Closing(c) == {q \in Requests : /\ job[q].ch = c /\ job[q].tok = 0
                                /\ pc[q] \in {"delCode", "delChallenge"} /\ job[q].to = "none"}

Known(at, j, rows) ==
    /\ j.ch # 0 => at \in Work \cup {"rotate", "issue"}
    /\ at \in Work => j.ch \in Challenges
    /\ at \in {"compare", "wrong"} => j.to = "none"
    /\ at = "delTries" => rows[j.ch].state = "closed"
    /\ at = "issue" /\ j.ch # 0 /\ j.tok = 0 => rows[j.ch].state = "closed"

Most == IF Alone THEN 1 ELSE Cardinality(Requests)

Bounded(c) ==
    /\ challenge[c].state # "closed" =>
          /\ Cardinality(Sessions(c)) = 0
          /\ challenge[c].wrong <= challenge[c].tries
          /\ challenge[c].wrong < Limit + Cardinality(Closing(c)) + challenge[c].dropped
    /\ challenge[c].state = "closed" =>
          /\ challenge[c].wrong + Cardinality(Trying(c))
                < Limit + Cardinality(Requests) + challenge[c].dropped
          /\ Cardinality(Sessions(c)) + Cardinality(At(c)) <= Most

ChallengeInv ==
    /\ \A q \in Requests : Known(pc[q], job[q], challenge)
    /\ \A c \in Challenges : Bounded(c)

One(b) == IF b THEN 1 ELSE 0

\* A set of requests that one request may enter or leave.
LEMMA CountMove ==
    ASSUME NEW S, NEW T, S \subseteq Requests, T \subseteq Requests, NEW p \in Requests,
           \A q \in Requests \ {p} : q \in T <=> q \in S
    PROVE  /\ Cardinality(S) \in Nat /\ Cardinality(T) \in Nat
           /\ Cardinality(T) + One(p \in S) = Cardinality(S) + One(p \in T)
<1>1. /\ IsFiniteSet(S) /\ Cardinality(S) \in Nat
      /\ IsFiniteSet(T) /\ Cardinality(T) \in Nat
  BY AccountsAssumption, FS_Subset, FS_CardinalityType
<1>2. CASE p \in S <=> p \in T
  <2>1. S = T
    BY <1>2
  <2> QED BY <1>1, <2>1
<1>3. CASE p \notin S /\ p \in T
  <2>1. T = S \cup {p}
    BY <1>3
  <2>2. Cardinality(T) = Cardinality(S) + 1
    BY <1>1, <1>3, <2>1, FS_AddElement
  <2> QED BY <1>1, <1>3, <2>2 DEF One
<1>4. CASE p \in S /\ p \notin T
  <2>1. S = T \cup {p}
    BY <1>4
  <2>2. Cardinality(S) = Cardinality(T) + 1
    BY <1>1, <1>4, <2>1, FS_AddElement
  <2> QED BY <1>1, <1>4, <2>2 DEF One
<1> QED BY <1>2, <1>3, <1>4

LEMMA Sizes ==
    ASSUME NEW c
    PROVE  /\ Cardinality(At(c)) \in Nat /\ Cardinality(At(c)) <= Cardinality(Requests)
           /\ Cardinality(Trying(c)) \in Nat /\ Cardinality(Closing(c)) \in Nat
           /\ Cardinality(Trying(c)) + Cardinality(Closing(c)) <= Cardinality(Requests)
           /\ Cardinality(Requests) \in Nat
           /\ IsFiniteSet(Sessions(c)) /\ Cardinality(Sessions(c)) \in Nat
<1>1. At(c) \subseteq Requests /\ Trying(c) \subseteq Requests /\ Closing(c) \subseteq Requests
  BY DEF At, Trying, Closing
<1>2. IsFiniteSet(Trying(c)) /\ IsFiniteSet(Closing(c))
  BY <1>1, AccountsAssumption, FS_Subset
<1>3. Trying(c) \cap Closing(c) = {}
  BY DEF Trying, Closing
<1>4. /\ IsFiniteSet(Trying(c) \cup Closing(c))
      /\ Cardinality(Trying(c) \cup Closing(c))
            = Cardinality(Trying(c)) + Cardinality(Closing(c)) - Cardinality(Trying(c) \cap Closing(c))
  BY <1>2, FS_Union
<1>5. Cardinality(Trying(c) \cup Closing(c)) <= Cardinality(Requests)
  BY <1>1, AccountsAssumption, FS_Subset
<1>6. Cardinality(Trying(c) \cap Closing(c)) = 0
  BY <1>3, FS_EmptySet
<1>7. /\ Cardinality(At(c)) \in Nat /\ Cardinality(At(c)) <= Cardinality(Requests)
      /\ Cardinality(Trying(c)) \in Nat /\ Cardinality(Closing(c)) \in Nat
      /\ Cardinality(Requests) \in Nat
  BY <1>1, AccountsAssumption, FS_Subset, FS_CardinalityType
<1>8. IsFiniteSet(Sessions(c)) /\ Cardinality(Sessions(c)) \in Nat
  <2>1. Sessions(c) \subseteq 1 .. MaxTokens /\ MaxTokens \in Int
    BY AccountsAssumption DEF Sessions, Issued, Tokens
  <2>2. IsFiniteSet(1 .. MaxTokens)
    BY <2>1, FS_Interval
  <2> QED BY <2>1, <2>2, FS_Subset, FS_CardinalityType
<1> QED BY <1>4, <1>5, <1>6, <1>7, <1>8

\* How the counts change when one request moves.
LEMMA Counts ==
    ASSUME NEW p \in Requests, Moves(p), NEW c
    PROVE  /\ Cardinality(At(c))' \in Nat /\ Cardinality(Trying(c))' \in Nat
           /\ Cardinality(Closing(c))' \in Nat
           /\ Cardinality(At(c))' + One(p \in At(c)) = Cardinality(At(c)) + One((p \in At(c))')
           /\ Cardinality(Trying(c))' + One(p \in Trying(c))
                 = Cardinality(Trying(c)) + One((p \in Trying(c))')
           /\ Cardinality(Closing(c))' + One(p \in Closing(c))
                 = Cardinality(Closing(c)) + One((p \in Closing(c))')
<1> DEFINE A == {q \in Requests : job'[q].ch = c /\ job'[q].tok = 0}
           T == {q \in Requests : /\ job'[q].ch = c /\ job'[q].tok = 0
                                  /\ pc'[q] \in {"compare", "wrong"}}
           K == {q \in Requests : /\ job'[q].ch = c /\ job'[q].tok = 0
                                  /\ pc'[q] \in {"delCode", "delChallenge"} /\ job'[q].to = "none"}
<1>1. At(c)' = A /\ Trying(c)' = T /\ Closing(c)' = K
  BY DEF At, Trying, Closing
<1>2. /\ \A q \in Requests \ {p} : q \in A <=> q \in At(c)
      /\ \A q \in Requests \ {p} : q \in T <=> q \in Trying(c)
      /\ \A q \in Requests \ {p} : q \in K <=> q \in Closing(c)
  BY DEF Moves, At, Trying, Closing
<1>3. /\ At(c) \subseteq Requests /\ Trying(c) \subseteq Requests /\ Closing(c) \subseteq Requests
      /\ A \subseteq Requests /\ T \subseteq Requests /\ K \subseteq Requests
  BY DEF At, Trying, Closing
<1> HIDE DEF A, T, K
<1>4. /\ Cardinality(A) \in Nat
      /\ Cardinality(A) + One(p \in At(c)) = Cardinality(At(c)) + One(p \in A)
  BY <1>2, <1>3, CountMove
<1>5. /\ Cardinality(T) \in Nat
      /\ Cardinality(T) + One(p \in Trying(c)) = Cardinality(Trying(c)) + One(p \in T)
  BY <1>2, <1>3, CountMove
<1>6. /\ Cardinality(K) \in Nat
      /\ Cardinality(K) + One(p \in Closing(c)) = Cardinality(Closing(c)) + One(p \in K)
  BY <1>2, <1>3, CountMove
<1> QED BY <1>1, <1>4, <1>5, <1>6

\* Tokens keep where they came from, and a closed challenge stays closed.
SameOrigin ==
    \A t \in Tokens : /\ token'[t].ch = token[t].ch /\ token'[t].parent = token[t].parent
                      /\ token'[t].state = "absent" <=> token[t].state = "absent"
ForGood == \A c \in Challenges : challenge[c].state = "closed" => challenge'[c].state = "closed"

LEMMA SameSessions == SameOrigin => \A c : Sessions(c)' = Sessions(c)
BY DEF SameOrigin, Sessions, Issued

LEMMA NoneAtFirst ==
    ASSUME Init, NEW c \in Challenges
    PROVE  Bounded(c)
<1>1. At(c) = {} /\ Trying(c) = {} /\ Closing(c) = {} /\ Sessions(c) = {}
  BY DEF Init, At, Trying, Closing, Sessions, Issued, NoJob, NoToken, Challenges
<1> QED BY <1>1, FS_EmptySet, AccountsAssumption DEF Bounded, Init, NoChallenge

LEMMA InitChallenge == Init => ChallengeInv
<1>1. Init => \A q \in Requests : Known(pc[q], job[q], challenge)
  BY DEF Init, Known, NoJob, Work
<1> QED BY <1>1, NoneAtFirst DEF ChallengeInv

\* A request that begins or ends elsewhere, and rows that do not lose their place.
Elsewhere(p) ==
    /\ UNCHANGED challenge /\ SameOrigin /\ Moves(p)
    /\ \/ pc'[p] = pc[p] /\ job'[p] = job[p]
       \/ /\ pc[p] \notin Work
          /\ Known(pc'[p], job'[p], challenge)
          /\ job'[p].ch = 0 \/ job'[p].tok # 0

LEMMA ElsewhereKeeps ==
    ASSUME RowsTyped, ChallengeInv, NEW p \in Requests, Elsewhere(p)
    PROVE  ChallengeInv'
<1>1. ASSUME NEW q \in Requests PROVE Known(pc'[q], job'[q], challenge')
  BY DEF Elsewhere, Moves, ChallengeInv
<1>2. ASSUME NEW c \in Challenges PROVE Bounded(c)'
  <2>1. c # 0
    BY DEF Challenges
  <2>2. Cardinality(Sessions(c))' = Cardinality(Sessions(c)) /\ UNCHANGED challenge
    BY SameSessions DEF Elsewhere
  <2>3. Most' = Most /\ Moves(p)
    BY DEF Most, Alone, Elsewhere, Moves
  <2>4. p \notin Closing(c) \/ (p \in Closing(c))'
    BY DEF Elsewhere, Closing, Work
  <2>5. (p \in At(c))' => p \in At(c)
    BY <2>1 DEF Elsewhere, At
  <2>6. (p \in Trying(c))' => p \in Trying(c)
    BY <2>1 DEF Elsewhere, Trying
  <2>7. Bounded(c) /\ Most \in Nat
    BY Sizes DEF ChallengeInv, Most
  <2>8. /\ Cardinality(At(c))' <= Cardinality(At(c))
        /\ Cardinality(Trying(c))' <= Cardinality(Trying(c))
        /\ Cardinality(Closing(c))' >= Cardinality(Closing(c))
    BY <2>3, <2>4, <2>5, <2>6, Counts, Sizes DEF One
  <2>9. /\ challenge[c].wrong \in Nat /\ challenge[c].tries \in Nat /\ challenge[c].dropped \in Nat
        /\ Limit \in Nat
    BY AccountsAssumption DEF RowsTyped, ChallengeType
  <2> QED BY <2>2, <2>3, <2>7, <2>8, <2>9, Sizes, Counts DEF Bounded
<1> QED BY <1>1, <1>2 DEF ChallengeInv

\* Of a request away from every challenge.
LEMMA AwayFrom ==
    ASSUME RowsTyped, JobsFit, ChallengeInv, NEW p \in Requests
    PROVE  /\ pc[p] \notin Work \cup {"rotate", "issue"} => job[p].ch = 0
           /\ Known("idle", NoJob, challenge) /\ NoJob.ch = 0 /\ NoJob.tok = 0
           /\ Moves(p) => \A q \in Requests \ {p} : Known(pc'[q], job'[q], challenge)
BY DEF ChallengeInv, Known, NoJob, Work, Moves

LEMMA StartsElsewhere ==
    ASSUME RowsTyped, JobsFit, ChallengeInv, NEW p \in Requests, Starts(p)
    PROVE  Elsewhere(p) \/ \E c \in Challenges : \E g \in 0 .. sent : VerifyAdminLogin(p, c, g)
<1> DEFINE Begins(at, j) == Goto(p, at, j) /\ at \notin Work \cup {"rotate", "issue"} /\ j.ch = 0 /\ j.tok = 0
<1>0. Moves(p)
  BY StepsMove DEF AnyStep
<1>1. ASSUME NEW at, NEW j, Begins(at, j), pc[p] = "idle", UNCHANGED <<token, challenge>>
      PROVE  Elsewhere(p)
  BY <1>0, <1>1 DEF Elsewhere, SameOrigin, Goto, JobsFit, Known, Work
<1>2. ASSUME NEW w \in Passwords \cup {NoPassword}, SignUp(p, w)
      PROVE  Elsewhere(p)
  <2>1. Begins("create", [NoJob EXCEPT !.pw = w])
    BY <1>2 DEF SignUp, NoJob, Work
  <2> QED BY <1>1, <1>2, <2>1 DEF SignUp, Ready, keys
<1>3. ASSUME NEW w \in Passwords, Login(p, w)
      PROVE  Elsewhere(p)
  <2>1. Begins("roles", [NoJob EXCEPT !.pw = w])
    BY <1>3 DEF Login, NoJob, Work
  <2> QED BY <1>1, <1>3, <2>1 DEF Login, Ready, keys
<1>4. CASE OAuthLogin(p)
  BY <1>0, <1>4 DEF OAuthLogin, Ready, Elsewhere, SameOrigin, Goto, JobsFit, Known, Work, NoJob, keys
<1>5. CASE RequestReset(p)
  <2>1. Begins("link", NoJob)
    BY <1>5 DEF RequestReset, NoJob, Work
  <2> QED BY <1>1, <1>5, <2>1 DEF RequestReset, Ready, keys
<1>6. ASSUME NEW op \in {"logout", "deactivate", "reactivate", "erase"}, SignedIn(p, op)
      PROVE  Elsewhere(p)
  <2>1. Begins(op, NoJob)
    BY <1>6 DEF SignedIn, NoJob, Work
  <2> QED BY <1>1, <1>6, <2>1 DEF SignedIn, Ready, keys
<1>7. ASSUME NEW k \in Links, NEW w \in Passwords, ResetPassword(p, k, w)
      PROVE  Elsewhere(p)
  <2>1. Begins("history", [NoJob EXCEPT !.link = k, !.pw = w])
    BY <1>7 DEF ResetPassword, NoJob, Work
  <2> QED BY <1>1, <1>7, <2>1 DEF ResetPassword, Ready, keys
<1>8. CASE (\E c \in Challenges \cup {0} : SendOtp(p, c)) \/ \E g \in Codes : VerifyOtp(p, g)
  <2>1. Begins("send", NoJob) \/ Begins("verified", NoJob)
    BY <1>8 DEF SendOtp, VerifyOtp, NoJob, Work
  <2> QED BY <1>1, <1>8, <2>1 DEF SendOtp, VerifyOtp, Ready, keys
<1> QED BY <1>2, <1>3, <1>4, <1>5, <1>6, <1>7, <1>8, Zenon DEF Starts

LEMMA RefreshElsewhere ==
    ASSUME RowsTyped, JobsFit, ChallengeInv, NEW p \in Requests, NEW t \in Tokens, Refresh(p, t)
    PROVE  Elsewhere(p)
<1>1. Moves(p)
  BY StepsMove DEF AnyStep
<1>2. t # 0 /\ pc'[p] = "rotate" /\ job'[p].tok = t
  <2>1. t # 0
    BY DEF Tokens
  <2>2. Goto(p, "rotate", [NoJob EXCEPT !.tok = t, !.pw = token[t].pw, !.ch = token[t].ch])
    BY RefreshFits
  <2> QED BY <2>1, <2>2 DEF Goto, JobsFit, NoJob
<1>3. pc[p] \notin Work /\ UNCHANGED <<token, challenge>>
  BY DEF Refresh, Ready, Work, keys
<1> QED BY <1>1, <1>2, <1>3 DEF Elsewhere, SameOrigin, Known, Work

LEMMA ReadsElsewhere ==
    ASSUME RowsTyped, JobsFit, ChallengeInv, NEW p \in Requests, Reads(p)
    PROVE  Elsewhere(p) \/ CompareCode(p) \/ CheckUser(p) \/ CheckAccess(p)
<1>1. Moves(p)
  BY StepsMove DEF AnyStep
<1>2. CASE ReadRoles(p) \/ CheckHistory(p) \/ Deactivate(p) \/ Reactivate(p)
  <2>1. /\ pc[p] \notin Work \cup {"rotate", "issue"} /\ job[p].ch = 0
        /\ UNCHANGED <<token, challenge>>
    BY <1>2, AwayFrom DEF ReadRoles, CheckHistory, Deactivate, Reactivate, Work, keys
  <2>2. /\ pc'[p] \notin Work /\ job'[p].ch = 0
        /\ pc'[p] \in Loc
    BY <1>2, <2>1 DEF ReadRoles, CheckHistory, Deactivate, Reactivate, Work, Goto, Done, NoJob,
         JobsFit, Loc
  <2> QED BY <1>1, <2>1, <2>2 DEF Elsewhere, SameOrigin, Known, Work
<1> QED BY <1>2 DEF Reads

LEMMA WritesUserElsewhere ==
    ASSUME RowsTyped, JobsFit, ChallengeInv, NEW p \in Requests, WritesUser(p)
    PROVE  Elsewhere(p)
<1>1. Moves(p)
  BY StepsMove DEF AnyStep
<1>2. pc[p] \notin Work \cup {"rotate", "issue"} /\ UNCHANGED <<token, challenge>>
  BY DEF WritesUser, CreateUser, Remember, WritePassword, Schedule, Restore, Work, keys
<1>3. job[p].ch = 0
  BY <1>2, AwayFrom
<1>4. pc'[p] \notin Work /\ job'[p].ch = 0
  <2>1. CASE CreateUser(p)
    BY <1>3, <2>1 DEF CreateUser, Work, Goto, Done, NoJob, JobsFit
  <2>2. CASE Remember(p)
    BY <1>3, <2>2 DEF Remember, Work, Goto, Done, NoJob, JobsFit
  <2>3. CASE WritePassword(p)
    BY <1>3, <2>3 DEF WritePassword, Work, Goto, Done, NoJob, JobsFit
  <2>4. CASE Schedule(p) \/ Restore(p)
    BY <1>3, <2>4 DEF Schedule, Restore, Work, Goto, Done, NoJob, JobsFit
  <2> QED BY <2>1, <2>2, <2>3, <2>4 DEF WritesUser
<1> QED BY <1>1, <1>2, <1>4 DEF Elsewhere, SameOrigin, Known, Work

LEMMA WritesKeyElsewhere ==
    ASSUME RowsTyped, JobsFit, ChallengeInv, NEW p \in Requests, WritesKey(p)
    PROVE  \/ Elsewhere(p)
           \/ OpenChallenge(p) \/ WrongCode(p) \/ DeleteCode(p) \/ CloseChallenge(p) \/ DeleteTries(p)
<1>1. Moves(p)
  BY StepsMove DEF AnyStep
<1>2. CASE StoreLink(p) \/ UseLink(p) \/ StoreCode(p) \/ DropCode(p)
  <2>1. pc[p] \notin Work \cup {"rotate", "issue"} /\ UNCHANGED <<token, challenge>>
    BY <1>2 DEF StoreLink, UseLink, StoreCode, DropCode, Work
  <2>2. pc'[p] \notin Work /\ job'[p].ch = 0
    BY <1>2 DEF StoreLink, UseLink, StoreCode, DropCode, Work, Goto, Done, NoJob, JobsFit
  <2> QED BY <1>1, <2>1, <2>2 DEF Elsewhere, SameOrigin, Known, Work
<1> QED BY <1>2 DEF WritesKey

LEMMA WritesTokenElsewhere ==
    ASSUME RowsTyped, JobsFit, RotationInv, ChallengeInv, NEW p \in Requests, WritesToken(p)
    PROVE  Elsewhere(p) \/ Issue(p)
<1>1. Moves(p) /\ (Issue(p) \/ UNCHANGED challenge)
  BY StepsMove DEF AnyStep, WritesToken, Issue, Rotate, Logout, RevokeSessions, PermanentDelete, CleanUp,
     keys
<1> USE DEF Elsewhere, Known, Work
<1>2. CASE Rotate(p)
  <2>1. job[p].tok # 0 /\ pc[p] = "rotate"
    BY <1>2 DEF Rotate, JobsFit, Fits
  <2>2. SameOrigin
    <3>1. job[p].tok \in Tokens /\ token[job[p].tok].state # "absent"
      BY <2>1 DEF JobsFit, JobType, RotationInv
    <3>2. token \in [Tokens -> TokenType]
      BY DEF RowsTyped
    <3>3. \/ UNCHANGED token
          \/ token' = [token EXCEPT ![job[p].tok].state = "revoked"]
      BY <1>2 DEF Rotate
    <3> QED BY <3>1, <3>2, <3>3 DEF SameOrigin, TokenType
  <2>3. \/ pc'[p] = "idle" /\ job'[p] = NoJob
        \/ pc'[p] = "issue" /\ job'[p] = job[p]
    BY <1>2 DEF Rotate, Goto, Done, JobsFit
  <2> QED BY <1>1, <1>2, <2>1, <2>2, <2>3 DEF Rotate, NoJob, keys
<1>3. CASE Logout(p) \/ RevokeSessions(p)
  <2>1. SameOrigin
    BY <1>3 DEF Logout, RevokeSessions, RevokeAll, SameOrigin, Live, RowsTyped, TokenType
  <2>2. pc[p] \notin Work \cup {"rotate", "issue"} /\ job[p].ch = 0
    BY <1>3, AwayFrom DEF Logout, RevokeSessions
  <2>3. pc'[p] \in {"idle", "used"} /\ job'[p].ch = 0
    BY <1>3, <2>2 DEF Logout, RevokeSessions, Goto, Done, NoJob, JobsFit
  <2> QED BY <1>1, <1>3, <2>1, <2>2, <2>3 DEF Logout, RevokeSessions, keys
<1>4. CASE PermanentDelete(p) \/ CleanUp(p)
  <2>1. SameOrigin
    BY <1>4 DEF PermanentDelete, CleanUp, Delete, SameOrigin, Issued, RowsTyped, TokenType
  <2>2. \/ pc[p] = "erase" /\ pc'[p] = "idle" /\ job'[p] = NoJob
        \/ pc'[p] = pc[p] /\ job'[p] = job[p]
    BY <1>4 DEF PermanentDelete, CleanUp, Goto, Done, JobsFit
  <2> QED BY <1>1, <1>4, <2>1, <2>2 DEF PermanentDelete, CleanUp, NoJob, keys
<1> QED BY <1>2, <1>3, <1>4 DEF WritesToken

\* What a step does at one challenge, another stays as it is.
LEMMA OtherChallenges ==
    ASSUME RowsTyped, ChallengeInv, NEW p \in Requests, Moves(p), SameOrigin, NEW c \in Challenges,
           challenge'[c] = challenge[c], job[p].ch # c, job'[p].ch # c
    PROVE  Bounded(c)'
<1>1. /\ p \notin At(c) /\ p \notin Trying(c) /\ p \notin Closing(c)
      /\ ~ (p \in At(c))' /\ ~ (p \in Trying(c))' /\ ~ (p \in Closing(c))'
  BY DEF At, Trying, Closing
<1>2. /\ Cardinality(At(c))' = Cardinality(At(c)) /\ Cardinality(Trying(c))' = Cardinality(Trying(c))
      /\ Cardinality(Closing(c))' = Cardinality(Closing(c))
  BY <1>1, Counts, Sizes DEF One
<1>3. Cardinality(Sessions(c))' = Cardinality(Sessions(c)) /\ Most' = Most
  BY SameSessions DEF Most, Alone, Moves
<1> QED BY <1>2, <1>3 DEF ChallengeInv, Bounded

-----------------------------------------------------------------------------
(* The steps of the second factor.                                         *)

\* The numbers of a challenge, of which a step changes some.
LEMMA Numbers ==
    ASSUME RowsTyped, ChallengeInv, NEW c \in Challenges
    PROVE  /\ challenge[c].wrong \in Nat /\ challenge[c].tries \in Nat
           /\ challenge[c].dropped \in Nat /\ Limit \in Nat /\ Limit > 0
           /\ Cardinality(Sessions(c)) \in Nat /\ Cardinality(At(c)) \in Nat
           /\ Cardinality(Trying(c)) \in Nat /\ Cardinality(Closing(c)) \in Nat
           /\ Cardinality(Requests) \in Nat /\ Most \in Nat
           /\ Bounded(c) /\ c # 0
BY AccountsAssumption, Sizes DEF RowsTyped, ChallengeType, ChallengeInv, Most, Challenges

\* When a challenge is closed, those at work on it bound what is to come of it.
LEMMA ClosedIsBounded ==
    ASSUME JobsFit, Solo, ChallengeInv, NEW c \in Challenges
    PROVE  Cardinality(At(c)) <= Most
<1>1. CASE Alone
  <2>1. \A q \in At(c) : pc[q] # "idle"
    BY DEF At, ChallengeInv, Known, Work, Challenges
  <2>2. \A q, r \in At(c) : q = r
    BY <1>1, <2>1 DEF Solo, At
  <2>3. CASE At(c) = {}
    BY <1>1, <2>3, FS_EmptySet DEF Most
  <2>4. ASSUME NEW q \in At(c) PROVE Cardinality(At(c)) = 1
    <3>1. At(c) = {q}
      BY <2>2
    <3> QED BY <3>1, FS_Singleton
  <2> QED BY <1>1, <2>3, <2>4 DEF Most
<1>2. CASE ~ Alone
  BY <1>2, Sizes DEF Most
<1> QED BY <1>1, <1>2

\* A step of a request at one challenge c: what is left to show is that the request
\* knows what it should and that c stays bounded.
LEMMA AtOne ==
    ASSUME RowsTyped, JobsFit, ChallengeInv, NEW p \in Requests, Moves(p), SameOrigin,
           NEW c \in Challenges,
           \A d \in Challenges \ {c} : challenge'[d] = challenge[d],
           job[p].ch \in {0, c}, job'[p].ch \in {0, c}, ForGood,
           Known(pc'[p], job'[p], challenge'), Bounded(c)'
    PROVE  ChallengeInv'
<1>1. ASSUME NEW d \in Challenges \ {c} PROVE Bounded(d)'
  <2>1. d # 0
    BY DEF Challenges
  <2> QED BY <2>1, OtherChallenges
<1>2. ASSUME NEW q \in Requests \ {p} PROVE Known(pc'[q], job'[q], challenge')
  <2>1. pc'[q] = pc[q] /\ job'[q] = job[q] /\ Known(pc[q], job[q], challenge)
    BY DEF Moves, ChallengeInv
  <2>2. job[q].ch \in Challenges \cup {0}
    BY DEF JobsFit, JobType
  <2> QED BY <2>1, <2>2 DEF Known, ForGood, Work
<1> QED BY <1>1, <1>2 DEF ChallengeInv

LEMMA OpenChallengeKeeps ==
    ASSUME RowsTyped, JobsFit, ChallengeInv, NEW p \in Requests, OpenChallenge(p)
    PROVE  ChallengeInv'
<1>1. PICK c \in Challenges : /\ challenge[c].state = "absent"
                              /\ challenge' = [challenge EXCEPT ![c].state = "open"]
  BY DEF OpenChallenge, Fresh
<1>2. Moves(p)
  BY StepsMove DEF AnyStep, WritesKey
<1>3. pc[p] = "challenge" /\ job[p].ch = 0 /\ pc'[p] = "idle" /\ job'[p] = NoJob
  BY AwayFrom DEF OpenChallenge, Work, Done, Goto, JobsFit
<1>4. /\ challenge'[c].state = "open" /\ challenge'[c].tries = challenge[c].tries
      /\ challenge'[c].wrong = challenge[c].wrong /\ challenge'[c].dropped = challenge[c].dropped
      /\ \A d \in Challenges \ {c} : challenge'[d] = challenge[d]
  BY <1>1 DEF RowsTyped, ChallengeType
<1>5. SameOrigin
  BY DEF OpenChallenge, SameOrigin
<1>6. Known(pc'[p], job'[p], challenge') /\ job'[p].ch = 0
  BY <1>3 DEF Known, NoJob, Work
<1>7. ForGood
  BY <1>1, <1>4 DEF ForGood
<1>8. Bounded(c)'
  <2>1. p \notin Closing(c) /\ ~ (p \in Closing(c))'
    BY <1>3 DEF Closing
  <2>2. Cardinality(Closing(c))' = Cardinality(Closing(c))
    BY <1>2, <2>1, Counts, Sizes DEF One
  <2>3. Cardinality(Sessions(c))' = Cardinality(Sessions(c))
    BY <1>5, SameSessions
  <2> QED BY <1>1, <1>4, <2>2, <2>3, Numbers DEF Bounded
<1> QED BY <1>2, <1>3, <1>4, <1>5, <1>6, <1>7, <1>8, AtOne

LEMMA VerifyAdminLoginKeeps ==
    ASSUME RowsTyped, JobsFit, ChallengeInv, NEW p \in Requests, NEW c \in Challenges,
           NEW g \in 0 .. sent, VerifyAdminLogin(p, c, g)
    PROVE  ChallengeInv'
<1>1. Moves(p) /\ SameOrigin /\ UNCHANGED challenge
  BY StepsMove DEF AnyStep, Starts, VerifyAdminLogin, SameOrigin, keys
<1>2. challenge[c].state = "open" /\ pc[p] = "idle" /\ job[p].ch = 0
  BY AwayFrom DEF VerifyAdminLogin, Ready, Work
<1>3. pc'[p] = "compare" /\ job'[p].ch = c /\ job'[p].tok = 0 /\ job'[p].to = "none"
  <2>1. Goto(p, "compare", [NoJob EXCEPT !.ch = c, !.code = g])
    BY DEF VerifyAdminLogin
  <2> QED BY <2>1 DEF Goto, JobsFit, NoJob
<1>4. Known(pc'[p], job'[p], challenge')
  BY <1>3 DEF Known, Work
<1>5. Bounded(c)'
  <2>1. p \notin Closing(c) /\ ~ (p \in Closing(c))'
    BY <1>2, <1>3 DEF Closing
  <2>2. Cardinality(Closing(c))' = Cardinality(Closing(c))
    BY <1>1, <2>1, Counts, Sizes DEF One
  <2>3. Cardinality(Sessions(c))' = Cardinality(Sessions(c))
    BY <1>1, SameSessions
  <2> QED BY <1>1, <1>2, <2>2, <2>3, Numbers DEF Bounded
<1> QED BY <1>1, <1>2, <1>3, <1>4, <1>5, AtOne DEF ForGood

\* Of a request at work.
LEMMA AtWork ==
    ASSUME JobsFit, ChallengeInv, NEW p \in Requests, pc[p] \in Work
    PROVE  job[p].ch \in Challenges /\ job[p].tok = 0
BY DEF JobsFit, Fits, ChallengeInv, Known, Work

LEMMA CompareCodeKeeps ==
    ASSUME RowsTyped, JobsFit, ChallengeInv, NEW p \in Requests,
           CompareCode(p) \/ CheckUser(p) \/ CheckAccess(p) \/ DeleteCode(p)
    PROVE  ChallengeInv'
<1>1. Moves(p) /\ SameOrigin /\ UNCHANGED challenge
  BY StepsMove DEF AnyStep, Reads, WritesKey, CompareCode, CheckUser, CheckAccess, DeleteCode,
     SameOrigin, keys
<1>0. job[p].ch \in Challenges /\ job[p].tok = 0
  BY AtWork DEF CompareCode, CheckUser, CheckAccess, DeleteCode, Work
<1> PICK c \in Challenges : c = job[p].ch
  BY <1>0
<1>2. job[p].ch = c /\ job[p].tok = 0 /\ c # 0
  BY <1>0 DEF Challenges
<1>3. \/ pc[p] = "compare" /\ job'[p] = [NoJob EXCEPT !.ch = c, !.to = "issue"] /\ pc'[p] = "user"
      \/ pc[p] = "compare" /\ job'[p] = [NoJob EXCEPT !.ch = c] /\ pc'[p] = "wrong"
      \/ pc[p] = "user" /\ job'[p] = job[p] /\ pc'[p] = "access"
      \/ pc[p] = "access" /\ job'[p] = job[p] /\ pc'[p] = "delCode"
      \/ pc[p] = "delCode" /\ job'[p] = job[p] /\ pc'[p] = "delChallenge"
      \/ pc[p] \in {"user", "access"} /\ job'[p] = NoJob /\ pc'[p] = "idle"
  BY <1>2 DEF CompareCode, CheckUser, CheckAccess, DeleteCode, Goto, Done, JobsFit
<1>4. /\ \/ job'[p].ch = c /\ job'[p].tok = 0
         \/ job'[p].ch = 0 /\ pc'[p] = "idle"
      /\ pc'[p] = "wrong" => job'[p].to = "none"
      /\ pc'[p] \in {"user", "wrong", "access", "delCode", "delChallenge", "idle"}
  <2>1. /\ [NoJob EXCEPT !.ch = c, !.to = "issue"].ch = c /\ [NoJob EXCEPT !.ch = c].ch = c
        /\ [NoJob EXCEPT !.ch = c, !.to = "issue"].tok = 0 /\ [NoJob EXCEPT !.ch = c].tok = 0
        /\ [NoJob EXCEPT !.ch = c].to = "none" /\ NoJob.ch = 0
    BY DEF NoJob
  <2> QED BY <1>2, <1>3, <2>1
<1>5. Known(pc'[p], job'[p], challenge')
  <2>1. CASE pc'[p] = "idle"
    BY <1>2, <1>3, <2>1 DEF Known, Work, NoJob
  <2>2. CASE pc'[p] # "idle"
    BY <1>4, <2>2 DEF Known, Work
  <2> QED BY <2>1, <2>2
<1>6. Bounded(c)'
  <2>1. p \in Closing(c) => (p \in Closing(c))'
    BY <1>3 DEF Closing
  <2>2. ((p \in Trying(c))' => p \in Trying(c)) /\ ((p \in At(c))' => p \in At(c))
    BY <1>2, <1>3 DEF Trying, At
  <2>3. /\ Cardinality(At(c))' <= Cardinality(At(c))
        /\ Cardinality(Trying(c))' <= Cardinality(Trying(c))
        /\ Cardinality(Closing(c))' >= Cardinality(Closing(c))
        /\ Cardinality(At(c))' \in Nat /\ Cardinality(Trying(c))' \in Nat
        /\ Cardinality(Closing(c))' \in Nat
    BY <1>1, <2>1, <2>2, Counts, Sizes DEF One
  <2>4. Cardinality(Sessions(c))' = Cardinality(Sessions(c)) /\ Most' = Most
    BY <1>1, SameSessions DEF Most, Alone, Moves
  <2> QED BY <1>1, <1>2, <2>3, <2>4, Numbers DEF Bounded
<1> QED BY <1>1, <1>2, <1>4, <1>5, <1>6, AtOne DEF ForGood

LEMMA WrongCodeKeeps ==
    ASSUME RowsTyped, JobsFit, ChallengeInv, NEW p \in Requests, WrongCode(p)
    PROVE  ChallengeInv'
<1>1. Moves(p) /\ SameOrigin
  BY StepsMove DEF AnyStep, WritesKey, WrongCode, SameOrigin
<1>0. job[p].ch \in Challenges /\ job[p].tok = 0
  BY AtWork DEF WrongCode, Work
<1> PICK c \in Challenges : c = job[p].ch
  BY <1>0
<1>2. job[p].ch = c /\ job[p].tok = 0 /\ c # 0 /\ pc[p] = "wrong" /\ job[p].to = "none"
  BY <1>0 DEF WrongCode, Challenges, ChallengeInv, Known
<1>3. /\ challenge'[c].state = challenge[c].state /\ challenge'[c].tries = challenge[c].tries + 1
      /\ challenge'[c].wrong = challenge[c].wrong + 1
      /\ challenge'[c].dropped = challenge[c].dropped
      /\ \A d \in Challenges \ {c} : challenge'[d] = challenge[d]
  <2>1. challenge' = [challenge EXCEPT ![c].tries = @ + 1, ![c].wrong = @ + 1]
    BY <1>2 DEF WrongCode
  <2>2. challenge \in [Challenges -> ChallengeType]
    BY DEF RowsTyped
  <2> QED BY <2>1, <2>2 DEF ChallengeType
<1>4. \/ /\ challenge[c].tries + 1 >= Limit /\ pc'[p] = "delCode" /\ job'[p] = job[p]
      \/ ~ challenge[c].tries + 1 >= Limit /\ pc'[p] = "idle" /\ job'[p] = NoJob
  BY DEF WrongCode, Goto, Done, JobsFit
<1>5. ForGood /\ Known(pc'[p], job'[p], challenge') /\ job'[p].ch \in {0, c}
  BY <1>2, <1>3, <1>4 DEF ForGood, Known, Work, NoJob
<1>6. Bounded(c)'
  <2>1. /\ p \in Trying(c) /\ p \in At(c) /\ p \notin Closing(c) /\ ~ (p \in Trying(c))'
        /\ challenge[c].tries + 1 >= Limit => (p \in Closing(c))'
    BY <1>2, <1>4 DEF Trying, At, Closing
  <2>2. /\ Cardinality(At(c))' <= Cardinality(At(c))
        /\ Cardinality(Trying(c))' + 1 = Cardinality(Trying(c))
        /\ Cardinality(Closing(c))' >= Cardinality(Closing(c))
        /\ challenge[c].tries + 1 >= Limit => Cardinality(Closing(c))' = Cardinality(Closing(c)) + 1
        /\ Cardinality(At(c))' \in Nat /\ Cardinality(Trying(c))' \in Nat
        /\ Cardinality(Closing(c))' \in Nat
    BY <1>1, <2>1, Counts, Sizes DEF One
  <2>3. Cardinality(Sessions(c))' = Cardinality(Sessions(c)) /\ Most' = Most
    BY <1>1, SameSessions DEF Most, Alone, Moves
  <2> QED BY <1>2, <1>3, <2>2, <2>3, Numbers DEF Bounded
<1> QED BY <1>1, <1>2, <1>3, <1>5, <1>6, AtOne

\* What a challenge promises when it is closed with these at work on it.
LEMMA Closed ==
    ASSUME RowsTyped, JobsFit, Solo, ChallengeInv, NEW c \in Challenges, challenge[c].state # "closed"
    PROVE  /\ challenge[c].wrong + Cardinality(Trying(c))
                 < Limit + Cardinality(Requests) + challenge[c].dropped
           /\ Cardinality(Sessions(c)) + Cardinality(At(c)) <= Most
BY Numbers, Sizes, ClosedIsBounded DEF Bounded

LEMMA CloseChallengeKeeps ==
    ASSUME RowsTyped, JobsFit, Solo, ChallengeInv, NEW p \in Requests, CloseChallenge(p)
    PROVE  ChallengeInv'
<1>1. Moves(p) /\ SameOrigin
  BY StepsMove DEF AnyStep, WritesKey, CloseChallenge, SameOrigin
<1>2. job[p].ch \in Challenges /\ job[p].tok = 0 /\ pc[p] = "delChallenge"
  BY AtWork DEF CloseChallenge, Work
<1> PICK c \in Challenges : c = job[p].ch
  BY <1>2
<1>3. /\ challenge'[c].state = "closed" /\ challenge'[c].tries = challenge[c].tries
      /\ challenge'[c].wrong = challenge[c].wrong /\ challenge'[c].dropped = challenge[c].dropped
      /\ \A d \in Challenges \ {c} : challenge'[d] = challenge[d]
  BY DEF CloseChallenge, RowsTyped, ChallengeType
<1>4. pc'[p] = "delTries" /\ job'[p] = job[p]
  BY DEF CloseChallenge, Goto, JobsFit
<1>5. ForGood /\ Known(pc'[p], job'[p], challenge')
  BY <1>2, <1>3, <1>4 DEF ForGood, Known, Work
<1>6. Bounded(c)'
  <2>1. ~ (p \in Trying(c))' /\ p \notin Trying(c) /\ (p \in At(c) <=> (p \in At(c))')
    BY <1>2, <1>4 DEF Trying, At
  <2>2. /\ Cardinality(At(c))' = Cardinality(At(c))
        /\ Cardinality(Trying(c))' = Cardinality(Trying(c))
    BY <1>1, <2>1, Counts, Sizes DEF One
  <2>3. Cardinality(Sessions(c))' = Cardinality(Sessions(c)) /\ Most' = Most
    BY <1>1, SameSessions DEF Most, Alone, Moves
  <2>4. CASE challenge[c].state = "closed"
    BY <1>3, <2>2, <2>3, <2>4, Numbers DEF Bounded
  <2>5. CASE challenge[c].state # "closed"
    BY <1>3, <2>2, <2>3, <2>5, Numbers, Closed DEF Bounded
  <2> QED BY <2>4, <2>5
<1> QED BY <1>1, <1>2, <1>3, <1>4, <1>5, <1>6, AtOne

LEMMA DeleteTriesKeeps ==
    ASSUME RowsTyped, JobsFit, ChallengeInv, NEW p \in Requests, DeleteTries(p)
    PROVE  ChallengeInv'
<1>1. Moves(p) /\ SameOrigin
  BY StepsMove DEF AnyStep, WritesKey, DeleteTries, SameOrigin
<1>2. job[p].ch \in Challenges /\ job[p].tok = 0 /\ pc[p] = "delTries"
  BY AtWork DEF DeleteTries, Work
<1> PICK c \in Challenges : c = job[p].ch
  BY <1>2
<1>3. challenge[c].state = "closed" /\ c # 0
  BY <1>2 DEF ChallengeInv, Known, Challenges
<1>4. /\ challenge'[c].state = "closed"
      /\ challenge'[c].wrong = challenge[c].wrong /\ challenge'[c].dropped = challenge[c].dropped
      /\ \A d \in Challenges \ {c} : challenge'[d] = challenge[d]
  BY <1>3 DEF DeleteTries, RowsTyped, ChallengeType
<1>5. \/ pc'[p] = "issue" /\ job'[p].ch = c /\ job'[p].tok = 0
      \/ pc'[p] = "idle" /\ job'[p].ch = 0
  <2>1. [NoJob EXCEPT !.ch = c].ch = c /\ [NoJob EXCEPT !.ch = c].tok = 0 /\ NoJob.ch = 0
    BY DEF NoJob
  <2> QED BY <2>1 DEF DeleteTries, Goto, Done, JobsFit
<1>6. ForGood /\ Known(pc'[p], job'[p], challenge') /\ job'[p].ch \in {0, c}
  BY <1>3, <1>4, <1>5 DEF ForGood, Known, Work
<1>7. Bounded(c)'
  <2>1. ~ (p \in Trying(c))' /\ p \notin Trying(c) /\ ((p \in At(c))' => p \in At(c))
    BY <1>2, <1>3, <1>5 DEF Trying, At
  <2>2. /\ Cardinality(At(c))' <= Cardinality(At(c)) /\ Cardinality(At(c))' \in Nat
        /\ Cardinality(Trying(c))' = Cardinality(Trying(c))
    BY <1>1, <2>1, Counts, Sizes DEF One
  <2>3. Cardinality(Sessions(c))' = Cardinality(Sessions(c)) /\ Most' = Most
    BY <1>1, SameSessions DEF Most, Alone, Moves
  <2> QED BY <1>3, <1>4, <2>2, <2>3, Numbers DEF Bounded
<1> QED BY <1>1, <1>2, <1>4, <1>6, <1>7, AtOne

LEMMA FailKeeps ==
    ASSUME RowsTyped, JobsFit, ChallengeInv, NEW p \in Requests, Fail(p)
    PROVE  ChallengeInv'
<1>1. Moves(p) /\ SameOrigin /\ pc'[p] = "idle" /\ job'[p] = NoJob
  BY StepsMove DEF AnyStep, Fail, SameOrigin, Done, Goto, JobsFit
<1>2. Known(pc'[p], job'[p], challenge') /\ job'[p].ch = 0
  BY <1>1 DEF Known, NoJob, Work
<1>3. CASE pc[p] \notin Work
  <2>1. UNCHANGED challenge
    BY <1>3 DEF Fail, Work
  <2> QED BY <1>1, <1>2, <1>3, <2>1, ElsewhereKeeps DEF Elsewhere
<1>4. CASE pc[p] \in Work
  <2>1. job[p].ch \in Challenges /\ job[p].tok = 0
    BY <1>4, AtWork
  <2> PICK c \in Challenges : c = job[p].ch
    BY <2>1
  <2>2. /\ challenge'[c].state = challenge[c].state /\ challenge'[c].tries = challenge[c].tries
        /\ challenge'[c].wrong = challenge[c].wrong
        /\ \A d \in Challenges \ {c} : challenge'[d] = challenge[d]
        /\ challenge'[c].dropped = challenge[c].dropped + One(p \in Closing(c))
    <3>1. CASE p \in Closing(c)
      <4>1. challenge' = [challenge EXCEPT ![c].dropped = @ + 1]
        BY <3>1 DEF Fail, Closing
      <4> QED BY <3>1, <4>1 DEF RowsTyped, ChallengeType, One
    <3>2. CASE p \notin Closing(c)
      <4>1. UNCHANGED challenge
        BY <2>1, <3>2 DEF Fail, Closing
      <4> QED BY <3>2, <4>1, Numbers DEF One
    <3> QED BY <3>1, <3>2
  <2>3. ForGood
    BY <2>2 DEF ForGood
  <2>4. Bounded(c)'
    <3>1. ~ (p \in Trying(c))' /\ ~ (p \in At(c))' /\ ~ (p \in Closing(c))'
      BY <1>2, Numbers DEF Trying, At, Closing
    <3>2. /\ Cardinality(At(c))' <= Cardinality(At(c)) /\ Cardinality(At(c))' \in Nat
          /\ Cardinality(Trying(c))' <= Cardinality(Trying(c)) /\ Cardinality(Trying(c))' \in Nat
          /\ Cardinality(Closing(c))' \in Nat
          /\ Cardinality(Closing(c))' + One(p \in Closing(c)) = Cardinality(Closing(c))
          /\ One(p \in Closing(c)) \in Nat
      BY <1>1, <3>1, Counts, Sizes DEF One
    <3>3. Cardinality(Sessions(c))' = Cardinality(Sessions(c)) /\ Most' = Most
      BY <1>1, SameSessions DEF Most, Alone, Moves
    <3> QED BY <2>2, <3>2, <3>3, Numbers DEF Bounded
  <2> QED BY <1>1, <1>2, <2>2, <2>3, <2>4, AtOne
<1> QED BY <1>3, <1>4

LEMMA IssueKeeps ==
    ASSUME RowsTyped, JobsFit, ChallengeInv, NEW p \in Requests, Issue(p)
    PROVE  ChallengeInv'
<1>1. Moves(p) /\ UNCHANGED challenge /\ pc[p] = "issue"
  BY StepsMove DEF AnyStep, WritesToken, Issue, keys
<1>2. pc'[p] = "idle" /\ job'[p] = NoJob
  BY DEF Issue, Done, Goto, JobsFit
<1>3. Known(pc'[p], job'[p], challenge') /\ job'[p].ch = 0
  BY <1>2 DEF Known, NoJob, Work
<1>4. PICK t \in Tokens : /\ token[t].state = "absent"
                          /\ \/ UNCHANGED token
                             \/ /\ \A u \in Tokens \ {t} : token'[u] = token[u]
                                /\ token'[t].state = "live" /\ token'[t].parent = job[p].tok
                                /\ token'[t].ch = job[p].ch
  <2>1. token \in [Tokens -> TokenType]
    BY DEF RowsTyped
  <2> QED BY <2>1 DEF Issue, Fresh, Issued
<1>5. ASSUME NEW c \in Challenges PROVE Bounded(c)'
  <2>1. /\ p \notin Trying(c) /\ p \notin Closing(c) /\ ~ (p \in At(c))'
        /\ ~ (p \in Trying(c))' /\ ~ (p \in Closing(c))'
    BY <1>1, <1>3, Numbers DEF Trying, Closing, At
  <2>2. /\ Cardinality(At(c))' + One(p \in At(c)) = Cardinality(At(c)) /\ Cardinality(At(c))' \in Nat
        /\ Cardinality(Trying(c))' = Cardinality(Trying(c))
        /\ Cardinality(Closing(c))' = Cardinality(Closing(c))
        /\ One(p \in At(c)) \in Nat
    BY <1>1, <2>1, Counts, Sizes DEF One
  <2>3. Most' = Most
    BY <1>1 DEF Most, Alone, Moves
  <2>4. CASE p \in At(c)
    <3>1. challenge[c].state = "closed"
      BY <1>1, <2>4, Numbers DEF At, ChallengeInv, Known
    <3>2. Sessions(c)' = Sessions(c) \/ Sessions(c)' = Sessions(c) \cup {t}
      BY <1>4 DEF Sessions, Issued
    <3>3. /\ Cardinality(Sessions(c))' <= Cardinality(Sessions(c)) + 1
          /\ Cardinality(Sessions(c))' \in Nat
      <4>1. CASE Sessions(c)' = Sessions(c)
        BY <4>1, Sizes
      <4>2. CASE Sessions(c)' = Sessions(c) \cup {t}
        <5>1. IsFiniteSet(Sessions(c)) /\ Cardinality(Sessions(c)) \in Nat
          BY Sizes
        <5>2. Cardinality(Sessions(c) \cup {t}) \in {Cardinality(Sessions(c)), Cardinality(Sessions(c)) + 1}
          BY <5>1, FS_AddElement
        <5> QED BY <4>2, <5>1, <5>2
      <4> QED BY <3>2, <4>1, <4>2
    <3> QED BY <1>1, <2>2, <2>3, <2>4, <3>1, <3>3, Numbers DEF Bounded, One
  <2>5. CASE p \notin At(c)
    <3>1. Sessions(c)' = Sessions(c)
      BY <1>4, <2>5 DEF Sessions, Issued, At
    <3>2. Cardinality(Sessions(c))' = Cardinality(Sessions(c))
      BY <3>1
    <3> QED BY <1>1, <2>2, <2>3, <2>5, <3>2, Numbers DEF Bounded, One
  <2> QED BY <2>4, <2>5
<1>6. ASSUME NEW q \in Requests PROVE Known(pc'[q], job'[q], challenge')
  BY <1>1, <1>3 DEF Moves, ChallengeInv
<1> QED BY <1>5, <1>6 DEF ChallengeInv

LEMMA StillKeeps ==
    ASSUME RowsTyped, JobsFit, Solo, ChallengeInv, Clocks \/ UNCHANGED vars
    PROVE  ChallengeInv'
<1>1. UNCHANGED <<mode, token, pc, job>>
  BY ClocksStill
<1>2. \A c \in Challenges : /\ challenge'[c].wrong = challenge[c].wrong
                            /\ challenge'[c].dropped = challenge[c].dropped
                            /\ \/ challenge'[c] = challenge[c]
                               \/ challenge'[c].state = "closed"
  <2>1. CASE UNCHANGED challenge
    BY <2>1
  <2>2. ASSUME NEW d \in Challenges, ExpireChallenge(d)
        PROVE  \A c \in Challenges : /\ challenge'[c].wrong = challenge[c].wrong
                                     /\ challenge'[c].dropped = challenge[c].dropped
                                     /\ \/ challenge'[c] = challenge[c]
                                        \/ challenge'[c].state = "closed"
    BY <2>2 DEF ExpireChallenge, RowsTyped, ChallengeType
  <2> QED BY <2>1, <2>2 DEF Clocks, ExpireCode, Tick, vars, keys
<1>3. ASSUME NEW q \in Requests PROVE Known(pc'[q], job'[q], challenge')
  <2>1. job[q].ch \in Challenges \cup {0}
    BY DEF JobsFit, JobType
  <2> QED BY <1>1, <1>2, <2>1 DEF ChallengeInv, Known, Work
<1>4. ASSUME NEW c \in Challenges PROVE Bounded(c)'
  <2>1. At(c)' = At(c) /\ Trying(c)' = Trying(c) /\ Closing(c)' = Closing(c)
        /\ Sessions(c)' = Sessions(c) /\ Most' = Most
    BY <1>1 DEF At, Trying, Closing, Sessions, Issued, Most, Alone
  <2>2. CASE challenge'[c] = challenge[c]
    BY <2>1, <2>2 DEF ChallengeInv, Bounded
  <2>3. CASE challenge'[c].state = "closed" /\ challenge[c].state = "closed"
    BY <1>2, <2>1, <2>3 DEF ChallengeInv, Bounded
  <2>4. CASE challenge'[c].state = "closed" /\ challenge[c].state # "closed"
    BY <1>2, <2>1, <2>4, Closed DEF Bounded
  <2> QED BY <1>2, <2>2, <2>3, <2>4
<1> QED BY <1>3, <1>4 DEF ChallengeInv

LEMMA ChallengeStep ==
    RowsTyped /\ JobsFit /\ RotationInv /\ Solo /\ ChallengeInv /\ [Next]_vars => ChallengeInv'
<1> SUFFICES ASSUME RowsTyped, JobsFit, RotationInv, Solo, ChallengeInv, [Next]_vars
             PROVE  ChallengeInv'
  OBVIOUS
<1>1. ASSUME NEW p \in Requests, Elsewhere(p) PROVE ChallengeInv'
  BY <1>1, ElsewhereKeeps
<1>2. ASSUME NEW p \in Requests, Starts(p) PROVE ChallengeInv'
  BY <1>1, <1>2, StartsElsewhere, VerifyAdminLoginKeeps
<1>3. ASSUME NEW p \in Requests, NEW t \in Tokens, Refresh(p, t) PROVE ChallengeInv'
  BY <1>1, <1>3, RefreshElsewhere
<1>4. ASSUME NEW p \in Requests, Reads(p) PROVE ChallengeInv'
  BY <1>1, <1>4, ReadsElsewhere, CompareCodeKeeps
<1>5. ASSUME NEW p \in Requests, WritesUser(p) PROVE ChallengeInv'
  BY <1>1, <1>5, WritesUserElsewhere
<1>6. ASSUME NEW p \in Requests, WritesKey(p) PROVE ChallengeInv'
  BY <1>1, <1>6, WritesKeyElsewhere, OpenChallengeKeeps, WrongCodeKeeps, CompareCodeKeeps,
     CloseChallengeKeeps, DeleteTriesKeeps
<1>7. ASSUME NEW p \in Requests, WritesToken(p) PROVE ChallengeInv'
  BY <1>1, <1>7, WritesTokenElsewhere, IssueKeeps
<1>8. ASSUME NEW p \in Requests, Fail(p) PROVE ChallengeInv'
  BY <1>8, FailKeeps
<1>9. ASSUME NEW p \in Requests, Staff(p) PROVE ChallengeInv'
  <2>1. Elsewhere(p)
    <3>1. Moves(p)
      BY <1>9, StepsMove DEF AnyStep
    <3> QED BY <1>9, <3>1 DEF Staff, SetStatus, SetRole, Elsewhere, SameOrigin, keys
  <2> QED BY <1>1, <2>1
<1>10. CASE Clocks \/ UNCHANGED vars
  BY <1>10, StillKeeps
<1> QED BY <1>2, <1>3, <1>4, <1>5, <1>6, <1>7, <1>8, <1>9, <1>10, NextSplits

LEMMA AlwaysBounded == Spec => [](RowsTyped /\ ChallengeInv)
<1> DEFINE IInv == RowsTyped /\ JobsFit /\ RotationInv /\ Solo /\ ChallengeInv
<1>1. Init => IInv
  <2>1. Init => Solo
    BY DEF Init, Solo
  <2> QED BY <2>1, InitTyped, InitRotation, InitChallenge
<1>2. IInv /\ [Next]_vars => IInv'
  BY JobsStep, RowsStep, RotationStep, SoloStep, ChallengeStep
<1>3. IInv => RowsTyped /\ ChallengeInv
  OBVIOUS
<1> QED BY <1>1, <1>2, <1>3, PTL DEF Spec

\* An open challenge has fewer wrong answers than it takes, but for those that are
\* closing it; once it is closed only those that had passed its check can answer.
THEOREM GuessesAreLimited == Spec => []GuessesLimited
<1>1. RowsTyped /\ ChallengeInv => GuessesLimited
  <2> SUFFICES ASSUME RowsTyped, ChallengeInv, NEW c \in Challenges
               PROVE  challenge[c].wrong < Limit + Cardinality(Requests) + challenge[c].dropped
    BY DEF GuessesLimited
  <2> QED BY Numbers, Sizes DEF Bounded
<1> QED BY <1>1, AlwaysBounded, PTL

\* A challenge has no session before it is closed, and then one of each request
\* that was at work on it; requests one at a time are one.
THEOREM OneSessionEach == Spec => []OneSessionPerChallenge
<1>1. RowsTyped /\ ChallengeInv => OneSessionPerChallenge
  <2> SUFFICES ASSUME RowsTyped, ChallengeInv, NEW c \in Challenges
               PROVE  Cardinality(Sessions(c)) <= Most
    BY DEF OneSessionPerChallenge, Most
  <2> QED BY Numbers DEF Bounded
<1> QED BY <1>1, AlwaysBounded, PTL

=============================================================================
