--------------------------------- MODULE Feed ---------------------------------
(* The promo feed: a merchant's posts of a day, which a purge deletes after  *)
(* their lifetime, and what app users do with them (likes, shares and the    *)
(* button that opens the merchant's app).  One tenant's posts are modelled;  *)
(* the clock runs in half days.                                              *)
EXTENDS Integers, FiniteSets

CONSTANTS
    Requests,     \* requests in flight at most
    Posts,        \* ids of posts
    Actors,       \* app users and devices; those in Users are signed in
    Users,
    FreeLimit,    \* FREE_TIER_DAILY_PROMO_POSTS
    PlanLimits,   \* dailyPromoPosts a plan may carry; 0: none configured
    Horizon,      \* bound: the clock
    MaxEvents     \* bound: shares and openings of one post

VARIABLES
    now,          \* half days gone by
    live,         \* the tenant is published and has an active release
    subscription, \* its Subscription row: status, end and the plan's limit
    product,      \* the tenant has the product its posts point at
    post,         \* FeedPost rows
    like,         \* FeedLike rows: the actors of each post
    logged,       \* analytics events of each post
    solo,         \* requests do not overlap in this behaviour
    call          \* what each request read and has still to write

feedVars == <<now, live, subscription, product, post, like, logged>>

Idle == [op |-> "idle"]
Free(q) == call[q] = Idle /\ (solo => \A r \in Requests : call[r] = Idle)
Begin(q, c) == Free(q) /\ call' = [call EXCEPT ![q] = c]
End(q) == call' = [call EXCEPT ![q] = Idle]

Lifetime == 2
Day(t) == t \div 2

-----------------------------------------------------------------------------
(* The merchant's side *)

NoPost == [status |-> "none", created |-> 0, product |-> FALSE,
           likes |-> 0, shares |-> 0, patronage |-> 0]
NewPost(at) == [NoPost EXCEPT !.status = "published", !.created = at]
Exists(p) == post[p] # NoPost
ExpiresAt(row) == row.created + Lifetime

\* getTier: the plan's own limit while the subscription is good.
DailyLimit(sub, at) ==
    IF /\ sub.status \in {"active", "trial"}
       /\ sub.endDate = 0 \/ sub.endDate > at
       /\ sub.limit > 0
    THEN sub.limit ELSE FreeLimit

PostsToday == {p \in Posts : Exists(p) /\ Day(post[p].created) = Day(now)}

\* What the merchant's composer is told it has left.
Remaining ==
    LET limit == DailyLimit(subscription, now)
        used == IF Cardinality(PostsToday) < limit
                THEN Cardinality(PostsToday) ELSE limit
    IN  limit - used

\* The product and the day's count are read before the insert.
ReadQuota(q, p) ==
    /\ ~Exists(p)
    /\ Cardinality(PostsToday) < DailyLimit(subscription, now)
    /\ \E points \in BOOLEAN :
         /\ points => product
         /\ Begin(q, [op |-> "create", id |-> p, product |-> points])
    /\ UNCHANGED feedVars
\* The foreign key refuses a product that was deleted meanwhile.
CreatePost(q) ==
    LET p == call[q].id IN
    /\ IF Exists(p) \/ (call[q].product /\ ~product) THEN UNCHANGED post
       ELSE post' = [post EXCEPT ![p] =
                [NewPost(now) EXCEPT !.product = call[q].product]]
    /\ End(q)
    /\ UNCHANGED <<now, live, subscription, product, like, logged>>

UpdatePost(p) ==
    /\ Exists(p)
    /\ \/ \E s \in {"published", "retired"} :
             post' = [post EXCEPT ![p].status = s]
       \/ \E points \in BOOLEAN : (points => product)
             /\ post' = [post EXCEPT ![p].product = points]
    /\ UNCHANGED <<now, live, subscription, product, like, logged, call>>

\* Likes go with the post, whose id may then stand for another one.
DeletePosts(gone) ==
    /\ gone # {}
    /\ post' = [p \in Posts |-> IF p \in gone THEN NoPost ELSE post[p]]
    /\ like' = [p \in Posts |-> IF p \in gone THEN {} ELSE like[p]]
    /\ logged' = [p \in Posts |->
                    IF p \in gone THEN [share |-> 0, cta |-> 0] ELSE logged[p]]
    /\ UNCHANGED <<now, live, subscription, product, call>>
DeletePost(p) == Exists(p) /\ DeletePosts({p})
PurgeExpired == DeletePosts({p \in Posts : Exists(p) /\ ExpiresAt(post[p]) < now})

\* What surrounds the feed: the product, the app's publication, the clock.
DeleteProduct ==
    /\ product /\ product' = FALSE
    /\ post' = [p \in Posts |-> [post[p] EXCEPT !.product = FALSE]]
    /\ UNCHANGED <<now, live, subscription, like, logged, call>>
SetLive ==
    /\ live' = ~live
    /\ UNCHANGED <<now, subscription, product, post, like, logged, call>>
Tick ==
    /\ now < Horizon /\ now' = now + 1
    /\ UNCHANGED <<live, subscription, product, post, like, logged, call>>

-----------------------------------------------------------------------------
(* The app user's side *)

\* getFeedPost, getPublicPost and the list: published, not expired, app live.
Shown(p) ==
    post[p].status = "published" /\ ExpiresAt(post[p]) > now /\ live

\* toggleFeedLike reads the like; only an anonymous actor's new like looks
\* at the post.
ReadLike(q, p, a) ==
    /\ Exists(p)
    /\ (a \notin like[p] /\ a \notin Users) => Shown(p)
    /\ Begin(q, [op |-> IF a \in like[p] THEN "unlike" ELSE "like",
                 id |-> p, actor |-> a])
    /\ UNCHANGED feedVars
\* Each write is a transaction over the like and the counter; it fails as a
\* whole when the like is there already, is gone, or the post is.
Unlike(q) ==
    LET p == call[q].id  a == call[q].actor IN
    /\ IF a \in like[p]
       THEN /\ like' = [like EXCEPT ![p] = @ \ {a}]
            /\ post' = [post EXCEPT ![p].likes = @ - 1]
       ELSE UNCHANGED <<like, post>>
    /\ End(q) /\ UNCHANGED <<now, live, subscription, product, logged>>
LikeAgain(q) ==
    LET p == call[q].id IN
    /\ IF Exists(p)
       THEN /\ like' = [like EXCEPT ![p] = @ \cup {call[q].actor}]
            /\ post' = [post EXCEPT ![p].likes = @ + 1]
       ELSE UNCHANGED <<like, post>>
    /\ End(q) /\ UNCHANGED <<now, live, subscription, product, logged>>
Like(q) ==
    LET p == call[q].id  a == call[q].actor IN
    /\ IF Exists(p) /\ a \notin like[p]
       THEN /\ like' = [like EXCEPT ![p] = @ \cup {a}]
            /\ post' = [post EXCEPT ![p].likes = @ + 1]
       ELSE UNCHANGED <<like, post>>
    /\ End(q) /\ UNCHANGED <<now, live, subscription, product, logged>>

\* A share or an opening of the merchant's app: the post is looked up, then
\* counter and event are one transaction.
ReadPost(q, p, op) ==
    /\ Shown(p)
    /\ Begin(q, [op |-> op, id |-> p])
    /\ UNCHANGED feedVars
MarkShare(q) ==
    LET p == call[q].id IN
    /\ logged[p].share < MaxEvents
    /\ IF Exists(p)
       THEN /\ post' = [post EXCEPT ![p].shares = @ + 1]
            /\ logged' = [logged EXCEPT ![p].share = @ + 1]
       ELSE UNCHANGED <<post, logged>>
    /\ End(q) /\ UNCHANGED <<now, live, subscription, product, like>>
TrackCta(q) ==
    LET p == call[q].id IN
    /\ logged[p].cta < MaxEvents
    /\ IF Exists(p)
       THEN /\ post' = [post EXCEPT ![p].patronage = @ + 1]
            /\ logged' = [logged EXCEPT ![p].cta = @ + 1]
       ELSE UNCHANGED <<post, logged>>
    /\ End(q) /\ UNCHANGED <<now, live, subscription, product, like>>

-----------------------------------------------------------------------------
Init ==
    /\ now = 0 /\ live = TRUE /\ product = TRUE
    /\ subscription \in
          {[status |-> s, endDate |-> e, limit |-> n] :
              s \in {"active", "none"}, e \in {0, 1}, n \in PlanLimits}
    /\ \E first \in SUBSET Posts :
          /\ Cardinality(first) <= 1
          /\ post = [p \in Posts |-> IF p \in first THEN NewPost(0) ELSE NoPost]
    /\ like = [p \in Posts |-> {}]
    /\ logged = [p \in Posts |-> [share |-> 0, cta |-> 0]]
    /\ solo \in BOOLEAN
    /\ call = [q \in Requests |-> Idle]

Is(q, op) == call[q].op = op
Around ==
    \/ \E p \in Posts : UpdatePost(p)
    \/ \E p \in Posts : DeletePost(p)
    \/ PurgeExpired
    \/ SetLive
    \/ Tick
PostNext ==
    /\ \/ \E q \in Requests : \E p \in Posts : ReadQuota(q, p)
       \/ \E q \in Requests : Is(q, "create") /\ CreatePost(q)
       \/ DeleteProduct
       \/ Around
    /\ UNCHANGED solo
EngageNext ==
    /\ \/ \E q \in Requests : \E p \in Posts : \E a \in Actors : ReadLike(q, p, a)
       \/ \E q \in Requests : Is(q, "like") /\ Like(q)
       \/ \E q \in Requests : Is(q, "unlike") /\ Unlike(q)
       \/ \E q \in Requests : \E p \in Posts :
             \E op \in {"share", "cta"} : ReadPost(q, p, op)
       \/ \E q \in Requests : Is(q, "share") /\ MarkShare(q)
       \/ \E q \in Requests : Is(q, "cta") /\ TrackCta(q)
       \/ Around
    /\ UNCHANGED solo
FeedNext == PostNext \/ EngageNext
Spec == Init /\ [][FeedNext]_<<feedVars, solo, call>>

-----------------------------------------------------------------------------
TypeOK ==
    /\ now \in 0..Horizon /\ live \in BOOLEAN /\ product \in BOOLEAN
    /\ \A p \in Posts :
         /\ post[p].status \in {"none", "published", "retired"}
         /\ post[p].created \in 0..Horizon
         /\ like[p] \subseteq Actors
         /\ logged[p] \in [share : 0..MaxEvents, cta : 0..MaxEvents]
    /\ \A q \in Requests :
          call[q].op \in {"idle", "create", "like", "unlike", "share", "cta"}

\* The counters on a post are what the rows behind them say, whatever likes,
\* double taps, shares and deletions overlap.
CountersExact ==
    \A p \in Posts : /\ post[p].likes = Cardinality(like[p])
                     /\ post[p].shares = logged[p].share
                     /\ post[p].patronage = logged[p].cta

\* A post never points at a product that is gone, and while requests do not
\* overlap a day's posts are within the limit of the plan: the count is read
\* before the insert.
PostsWithinPlan ==
    /\ \A p \in Posts : post[p].product => product
    /\ solo => Cardinality(PostsToday) <=
                 LET was == DailyLimit(subscription, 2 * Day(now))
                     is == DailyLimit(subscription, now)
                 IN  IF was > is THEN was ELSE is
=============================================================================
