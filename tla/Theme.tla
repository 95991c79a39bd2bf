-------------------------------- MODULE Theme --------------------------------
(* A tenant's theme: the row, the snapshots kept of its earlier versions    *)
(* and the cached copy every app and preview is served from.  A change is   *)
(* a read, the two writes of row and snapshot, and the invalidation of the  *)
(* cache, with nothing around them; a reader that misses the cache reads    *)
(* the row and fills it later.  The app builder, a template and a new       *)
(* tenant's seed write the row too: in place, with none of the rest.        *)
EXTENDS Integers, FiniteSets

CONSTANTS
    Requests,      \* requests in flight at most
    ThemeRivals,   \* which kinds of requests overlap, by behaviour
    MaxVersion     \* bound: versions of the theme, and rows when edited in place

VARIABLES
    theme,         \* Theme row: version (0: none), look and custom tokens
    snapshot,      \* ThemeVersion rows by version
    was,           \* what the row was last at each version
    stored,        \* every row that was the theme at some time
    cache,         \* theme:<tenant> in redis
    rival,         \* the kinds of requests that may overlap one another
    call           \* what each request read and has still to write

themeVars == <<theme, snapshot, was, stored, cache>>

Idle == [op |-> "idle"]
Free(q, op) ==
    /\ call[q] = Idle
    /\ \A r \in Requests : call[r] # Idle => {op, call[r].op} \subseteq rival
Begin(q, c) == Free(q, c.op) /\ call' = [call EXCEPT ![q] = c]
Go(q, pc) == call' = [call EXCEPT ![q].pc = pc]
End(q) == call' = [call EXCEPT ![q] = Idle]
At(q, pc) == call[q] # Idle /\ call[q].pc = pc

\* The columns a change sets (0: the defaults) and the JSON tokens, which a
\* change may leave out or set to null (0).
Looks == 0..1
Customs == 0..1
NoTheme == [version |-> 0, look |-> 0, custom |-> 0]
Versions == 1..MaxVersion

Put(version, look, custom) ==
    LET row == [version |-> version, look |-> look, custom |-> custom]
    IN  /\ theme' = row
        /\ was' = [was EXCEPT ![version] = row]
        /\ stored' = stored \cup {row}
\* The row gets its next version.
Store(look, custom) ==
    theme.version < MaxVersion /\ Put(theme.version + 1, look, custom)

-----------------------------------------------------------------------------
(* Reading *)

\* A hit is served as it is; a miss goes to the row.
MissCache(q) ==
    /\ cache = NoTheme
    /\ Begin(q, [op |-> "read", pc |-> "row", row |-> NoTheme])
    /\ UNCHANGED themeVars
\* createDefault serves the new row uncached; a second creation is refused.
ReadRow(q) ==
    IF theme = NoTheme
    THEN Store(0, 0) /\ End(q) /\ UNCHANGED <<snapshot, cache>>
    ELSE /\ call' = [call EXCEPT ![q] = [@ EXCEPT !.pc = "fill",
                                                  !.row = theme]]
         /\ UNCHANGED themeVars
FillCache(q) ==
    /\ cache' = call[q].row
    /\ End(q) /\ UNCHANGED <<theme, snapshot, was, stored>>
CacheExpires ==
    /\ cache # NoTheme /\ cache' = NoTheme
    /\ UNCHANGED <<theme, snapshot, was, stored, call>>

-----------------------------------------------------------------------------
(* Changing *)

\* The row a change starts from; a restore also reads the snapshot it wants.
ReadTheme(q, op) ==
    /\ theme.version < MaxVersion
    /\ \E v \in Versions : \E look \in Looks : \E custom \in Customs :
         /\ op = "restore" => /\ snapshot[v] # NoTheme
                              /\ look = snapshot[v].look
                              /\ custom = snapshot[v].custom
         /\ op = "reset" => look = 0 /\ custom = 0
         /\ op # "restore" => v = 1
         /\ Begin(q, [op |-> op, row |-> theme, look |-> look,
                      custom |-> custom,
                      pc |-> IF op = "update" \/ theme = NoTheme
                             THEN "write" ELSE "snapshot"])
    /\ UNCHANGED themeVars

\* update writes first; a missing row is created, which fails when a reader
\* or another change has created it since; reset upserts.  A restored null
\* leaves the JSON tokens as they are.
WriteTheme(q) ==
    LET c == call[q] IN
    /\ IF c.op = "update" /\ c.row = NoTheme /\ theme # NoTheme
       THEN End(q) /\ UNCHANGED <<theme, was, stored>>
       ELSE /\ IF c.op = "reset" /\ c.row = NoTheme /\ theme # NoTheme
               THEN Put(theme.version, 0, 0)
               ELSE Store(c.look, IF c.op = "restore" /\ c.custom = 0
                                  THEN theme.custom ELSE c.custom)
            /\ Go(q, IF c.op = "update" /\ c.row # NoTheme
                     THEN "snapshot" ELSE "invalidate")
    /\ UNCHANGED <<snapshot, cache>>

\* The row that was read becomes the snapshot of its version, which is unique:
\* the loser of two changes fails here, the cache not yet invalidated.
SaveSnapshot(q) ==
    LET c == call[q] IN
    /\ IF snapshot[c.row.version] # NoTheme
       THEN End(q) /\ UNCHANGED snapshot
       ELSE /\ snapshot' = [snapshot EXCEPT ![c.row.version] = c.row]
            /\ Go(q, IF c.op = "update" THEN "invalidate" ELSE "write")
    /\ UNCHANGED <<theme, was, stored, cache>>

InvalidateCache(q) ==
    /\ cache' = NoTheme
    /\ End(q) /\ UNCHANGED <<theme, snapshot, was, stored>>

\* builder.updateTheme and useTemplate upsert the row, a new tenant's seed
\* creates it: one statement, under the version there is, with no snapshot and
\* the cache left as it is.  A template may also put back columns it read.
EditInPlace ==
    /\ Cardinality(stored) < MaxVersion
    /\ \A q \in Requests : call[q] # Idle => {"edit", call[q].op} \subseteq rival
    /\ \E look \in Looks : \E custom \in Customs :
          Put(IF theme = NoTheme THEN 1 ELSE theme.version, look, custom)
    /\ UNCHANGED <<snapshot, cache, call>>

\* The process dies, or a later statement fails.
ChangeDies(q) ==
    /\ "crash" \in rival /\ call[q] # Idle
    /\ End(q) /\ UNCHANGED themeVars

-----------------------------------------------------------------------------
Init ==
    /\ theme = NoTheme /\ cache = NoTheme
    /\ snapshot = [v \in Versions |-> NoTheme]
    /\ was = [v \in Versions |-> NoTheme] /\ stored = {}
    /\ rival \in ThemeRivals
    /\ call = [q \in Requests |-> Idle]

ThemeNext ==
    /\ \/ \E q \in Requests : MissCache(q)
       \/ \E q \in Requests : At(q, "row") /\ ReadRow(q)
       \/ \E q \in Requests : At(q, "fill") /\ FillCache(q)
       \/ CacheExpires \/ EditInPlace
       \/ \E q \in Requests : \E op \in {"update", "restore", "reset"} :
             ReadTheme(q, op)
       \/ \E q \in Requests : At(q, "write") /\ WriteTheme(q)
       \/ \E q \in Requests : At(q, "snapshot") /\ SaveSnapshot(q)
       \/ \E q \in Requests : At(q, "invalidate") /\ InvalidateCache(q)
       \/ \E q \in Requests : ChangeDies(q)
    /\ UNCHANGED rival
Spec == Init /\ [][ThemeNext]_<<themeVars, rival, call>>

-----------------------------------------------------------------------------
Rows == [version : Versions, look : Looks, custom : Customs] \cup {NoTheme}
TypeOK ==
    /\ {theme, cache} \subseteq Rows
    /\ snapshot \in [Versions -> Rows] /\ was \in [Versions -> Rows]
    /\ stored \subseteq Rows
    /\ \A q \in Requests :
          call[q].op \in {"idle", "read", "update", "restore", "reset"}

Quiet == \A q \in Requests : call[q] = Idle

\* What readers are served was the theme, whole, in every overlap.  Once no
\* change is under way it is of today's version, as long as changes met no
\* reader on its way to the cache, no other change and no crash: only a change
\* made in place leaves it behind, and then until it expires.
CacheAgrees ==
    /\ cache # NoTheme => cache \in stored
    /\ (rival = {} /\ Quiet /\ cache # NoTheme) => cache.version = theme.version

\* A snapshot that exists was the theme under the version it is of; and every
\* earlier version can be restored as it was last, edits in place included, as
\* long as changes do not overlap.
HistoryKept ==
    /\ \A v \in Versions : snapshot[v] # NoTheme =>
          snapshot[v].version = v /\ snapshot[v] \in stored
    /\ (rival = {} /\ Quiet) =>
          \A v \in 1..theme.version - 1 : snapshot[v] = was[v]
=============================================================================
