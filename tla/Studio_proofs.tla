---------------------------- MODULE Studio_proofs ----------------------------
(* What the parts of Studio keep, each part by an inductive invariant of its *)
(* own: a step of one part leaves the others as they are.                    *)
EXTENDS Studio, Sums, FiniteSetTheorems, Integers, TLAPS

-----------------------------------------------------------------------------
(* Theme *)

Reading == [op : {"read"}, pc : {"row", "fill"}, row : TH!Rows]
Changing == [op : {"update", "restore", "reset"}, pc : {"write", "snapshot", "invalidate"},
             row : TH!Rows, look : TH!Looks, custom : TH!Customs]
ThemeTyped ==
    /\ theme \in TH!Rows /\ cache \in TH!Rows
    /\ snapshot \in [TH!Versions -> TH!Rows] /\ was \in [TH!Versions -> TH!Rows]
    /\ stored \subseteq TH!Rows
    /\ DOMAIN styling = Requests
    /\ \A q \in Requests : styling[q] = TH!Idle \/ styling[q] \in Reading \cup Changing

\* A row that was the theme at some time.
Stored(r) == r # TH!NoTheme => r \in stored
\* The versions are numbered, and was has all of them.
ThemeNumbered ==
    /\ \A v \in TH!Versions : was[v] # TH!NoTheme <=> v <= theme.version
    /\ \A v \in TH!Versions : was[v] # TH!NoTheme => was[v].version = v
    /\ theme # TH!NoTheme => was[theme.version] = theme
    /\ Stored(theme) /\ Stored(cache)
    /\ \A v \in TH!Versions : snapshot[v] # TH!NoTheme => snapshot[v].version = v
    /\ \A v \in TH!Versions : Stored(snapshot[v])

\* What a request still knows of the row it read.
StyleKnows(c) ==
    /\ c.pc \in {"fill", "snapshot"} => c.row # TH!NoTheme
    /\ Stored(c.row)

\* The snapshots of the versions before the n-th, and no other.
KeptBefore(n) == \A v \in TH!Versions : snapshot[v] = IF v < n THEN was[v] ELSE TH!NoTheme
\* A cached row of today's version.
Fresh(r) == r # TH!NoTheme => r.version = theme.version
\* What holds while a request runs alone.
StyleAlone(c) ==
    /\ c.op = "read" => /\ KeptBefore(theme.version)
                        /\ c.pc = "row" => cache = TH!NoTheme
                        /\ c.pc = "fill" => c.row = theme
    /\ c.op = "update" =>
         /\ c.pc = "write" => c.row = theme
         /\ c.pc # "snapshot" => KeptBefore(theme.version)
         /\ c.pc = "snapshot" => /\ KeptBefore(theme.version - 1)
                                 /\ c.row = was[theme.version - 1]
                                 /\ theme.version > 1
    /\ c.op \in {"restore", "reset"} =>
         /\ c.pc \in {"write", "snapshot"} => c.row = theme
         /\ c.pc # "write" => KeptBefore(theme.version)
         /\ c.pc = "write" => KeptBefore(theme.version + 1)

ThemeInv ==
    /\ ThemeTyped /\ ThemeNumbered
    /\ \A q \in Requests : styling[q] # TH!Idle => StyleKnows(styling[q])
    /\ \A q, r \in Requests : q # r /\ styling[q] # TH!Idle /\ styling[r] # TH!Idle
                                => {styling[q].op, styling[r].op} \subseteq themeRival
    /\ themeRival = {} =>
         /\ \A q \in Requests : styling[q] # TH!Idle => StyleAlone(styling[q])
         /\ TH!Quiet => Fresh(cache) /\ KeptBefore(theme.version)

LEMMA ThemeHolds == ASSUME ThemeInv
  PROVE TH!TypeOK /\ TH!CacheAgrees /\ TH!HistoryKept
<1>1. TH!TypeOK
  <2>1. \A q \in Requests : styling[q].op \in {"idle", "read", "update", "restore", "reset"}
    BY DEF ThemeInv, ThemeTyped, Reading, Changing, TH!Idle
  <2> QED BY <2>1 DEF ThemeInv, ThemeTyped, TH!TypeOK
<1>2. TH!CacheAgrees
  BY DEF ThemeInv, ThemeNumbered, Stored, Fresh, TH!CacheAgrees
<1>3. TH!HistoryKept
  <2>1. ASSUME themeRival = {}, TH!Quiet, NEW v \in 1..theme.version - 1 PROVE snapshot[v] = was[v]
    <3>1. theme.version \in 0..MaxThemes
      BY ThemeAssumption DEF ThemeInv, ThemeTyped, TH!Rows, TH!NoTheme, TH!Versions
    <3>2. v \in TH!Versions /\ v < theme.version
      BY <3>1, ThemeAssumption DEF TH!Versions
    <3> QED BY <2>1, <3>2 DEF ThemeInv, KeptBefore
  <2> QED BY <2>1 DEF ThemeInv, ThemeNumbered, Stored, TH!HistoryKept
<1> QED BY <1>1, <1>2, <1>3

LEMMA ThemeStart == ASSUME TH!Init PROVE ThemeInv
<1>1. ThemeTyped
  BY DEF TH!Init, ThemeTyped, TH!Rows
<1>2. theme.version = 0 /\ TH!Versions \subseteq Nat \ {0}
  BY ThemeAssumption DEF TH!Init, TH!NoTheme, TH!Versions
<1>3. ThemeNumbered
  BY <1>2 DEF TH!Init, ThemeNumbered, Stored
<1>4. KeptBefore(theme.version)
  BY <1>2 DEF TH!Init, KeptBefore
<1> QED BY <1>1, <1>3, <1>4 DEF TH!Init, ThemeInv, Fresh

\* What every request under way keeps when one of them moves on.
StylesMoved ==
    /\ DOMAIN styling = Requests
    /\ \A q \in Requests : styling[q] = TH!Idle \/ styling[q] \in Reading \cup Changing
    /\ \A q \in Requests : styling[q] # TH!Idle => StyleKnows(styling[q])
    /\ \A q, r \in Requests : q # r /\ styling[q] # TH!Idle /\ styling[r] # TH!Idle
                                => {styling[q].op, styling[r].op} \subseteq themeRival

LEMMA StyleRow == ASSUME NEW c \in Reading \cup Changing
  PROVE /\ c # TH!Idle /\ c.row \in TH!Rows
        /\ c.op \in {"read", "update", "restore", "reset"}
        /\ c.op = "read" => c.pc \in {"row", "fill"}
        /\ c.op # "read" => c.pc \in {"write", "snapshot", "invalidate"}
        /\ c.op # "read" => c.look \in TH!Looks /\ c.custom \in TH!Customs
<1>1. c.op # "idle"
  BY DEF Reading, Changing
<1> QED BY <1>1 DEF Reading, Changing, TH!Idle

LEMMA StyleAt == ASSUME ThemeInv, NEW q \in Requests, NEW at, TH!At(q, at)
  PROVE styling[q] \in Reading \cup Changing /\ styling[q].pc = at
  BY DEF ThemeInv, ThemeTyped, TH!At

LEMMA StyleMoves == ASSUME ThemeInv, NEW q \in Requests, NEW new, styling[q] # TH!Idle,
        styling' = [styling EXCEPT ![q] = new], UNCHANGED themeRival,
        new = TH!Idle \/ (new \in Reading \cup Changing /\ new.op = styling[q].op),
        stored \subseteq stored',
        new # TH!Idle => StyleKnows(new)'
  PROVE /\ StylesMoved'
        /\ styling'[q] = new
        /\ themeRival = {} => \A r \in Requests : r # q => styling'[r] = TH!Idle
<1>1. /\ DOMAIN styling' = Requests /\ styling'[q] = new
      /\ \A r \in Requests : r # q => styling'[r] = styling[r]
  BY DEF ThemeInv, ThemeTyped
<1>2. \A r \in Requests : styling'[r] = TH!Idle \/ styling'[r] \in Reading \cup Changing
  BY <1>1 DEF ThemeInv, ThemeTyped
<1>3. ASSUME NEW r \in Requests, r # q, styling[r] # TH!Idle
      PROVE StyleKnows(styling[r])' /\ {styling[q].op, styling[r].op} \subseteq themeRival
  <2>1. {styling[q].op, styling[r].op} \subseteq themeRival
    BY <1>3 DEF ThemeInv
  <2>2. styling[r] \in Reading \cup Changing /\ StyleKnows(styling[r])
    BY <1>3 DEF ThemeInv, ThemeTyped
  <2> QED BY <1>1, <1>3, <2>1, <2>2 DEF StyleKnows, Stored
<1>4. \A r \in Requests : styling'[r] # TH!Idle => StyleKnows(styling[r])'
  BY <1>1, <1>3
<1>5. \A r, s \in Requests : r # s /\ styling'[r] # TH!Idle /\ styling'[s] # TH!Idle
        => {styling'[r].op, styling'[s].op} \subseteq themeRival
  BY <1>1, <1>3 DEF ThemeInv
<1>6. themeRival = {} => \A r \in Requests : r # q => styling'[r] = TH!Idle
  BY <1>1, <1>3
<1> QED BY <1>1, <1>2, <1>4, <1>5, <1>6 DEF StylesMoved

LEMMA StyleBegins == ASSUME ThemeInv, NEW q \in Requests, NEW new \in Reading \cup Changing,
        TH!Begin(q, new), UNCHANGED <<themeRival, stored>>, StyleKnows(new)
  PROVE /\ StylesMoved'
        /\ styling'[q] = new
        /\ themeRival = {} => /\ \A r \in Requests : r # q => styling'[r] = TH!Idle
                              /\ TH!Quiet
<1>1. /\ DOMAIN styling' = Requests /\ styling'[q] = new
      /\ \A r \in Requests : r # q => styling'[r] = styling[r]
  BY DEF ThemeInv, ThemeTyped, TH!Begin
<1>2. /\ styling[q] = TH!Idle
      /\ \A r \in Requests : styling[r] # TH!Idle => {new.op, styling[r].op} \subseteq themeRival
  BY DEF TH!Begin, TH!Free
<1>3. \A c \in Reading \cup Changing : StyleKnows(c) => StyleKnows(c)'
  BY DEF StyleKnows, Stored
<1>4. \A r \in Requests : styling'[r] # TH!Idle => StyleKnows(styling'[r])
  BY <1>1 DEF ThemeInv, ThemeTyped
<1>5. StylesMoved'
  BY <1>1, <1>2, <1>3, <1>4 DEF ThemeInv, ThemeTyped, StylesMoved
<1> QED BY <1>1, <1>2, <1>5 DEF TH!Quiet

\* Nothing but the request and the cache moved.
ThemeRows == <<theme, snapshot, was, stored>>
LEMMA ThemeStays == ASSUME ThemeInv, UNCHANGED ThemeRows, UNCHANGED themeRival,
        cache' \in {cache, TH!NoTheme} \/ (cache' \in TH!Rows /\ Stored(cache')),
        StylesMoved',
        themeRival = {} => /\ \A q \in Requests : styling'[q] # TH!Idle => StyleAlone(styling[q])'
                           /\ TH!Quiet' => Fresh(cache)' /\ KeptBefore(theme.version)
  PROVE ThemeInv'
<1> USE DEF ThemeRows
<1>1. cache' \in TH!Rows /\ Stored(cache')
  BY DEF ThemeInv, ThemeTyped, ThemeNumbered, TH!Rows, Stored
<1>2. ThemeTyped'
  BY <1>1 DEF ThemeInv, ThemeTyped, StylesMoved
<1>3. ThemeNumbered'
  BY <1>1 DEF ThemeInv, ThemeNumbered, Stored
<1>4. KeptBefore(theme.version) => KeptBefore(theme.version)'
  BY DEF KeptBefore
<1> QED BY <1>1, <1>2, <1>3, <1>4 DEF ThemeInv, StylesMoved, Fresh

LEMMA ThemeReads == ASSUME ThemeInv, UNCHANGED themeRival, NEW q \in Requests,
        \/ TH!MissCache(q)
        \/ \E op \in {"update", "restore", "reset"} : TH!ReadTheme(q, op)
  PROVE ThemeInv'
<1>1. UNCHANGED <<theme, snapshot, was, stored, cache>>
  BY DEF TH!MissCache, TH!ReadTheme, TH!themeVars
<1>2. PICK new \in Reading \cup Changing :
        /\ TH!Begin(q, new)
        /\ new.op = "read" => new.pc = "row" /\ new.row = TH!NoTheme /\ cache = TH!NoTheme
        /\ new.op # "read" => /\ new.row = theme
                              /\ new.pc = IF new.op = "update" \/ theme = TH!NoTheme
                                          THEN "write" ELSE "snapshot"
  <2>1. CASE TH!MissCache(q)
    <3> DEFINE new == [op |-> "read", pc |-> "row", row |-> TH!NoTheme]
    <3>1. new \in Reading
      BY DEF Reading, TH!Rows
    <3> QED BY <2>1, <3>1 DEF TH!MissCache
  <2>2. ASSUME NEW op \in {"update", "restore", "reset"}, TH!ReadTheme(q, op)
        PROVE \E new \in Reading \cup Changing :
          /\ TH!Begin(q, new)
          /\ new.op # "read"
          /\ new.row = theme
          /\ new.pc = IF new.op = "update" \/ theme = TH!NoTheme THEN "write" ELSE "snapshot"
    <3>1. PICK look \in TH!Looks, custom \in TH!Customs :
            TH!Begin(q, [op |-> op, row |-> theme, look |-> look, custom |-> custom,
                         pc |-> IF op = "update" \/ theme = TH!NoTheme
                                THEN "write" ELSE "snapshot"])
      BY <2>2 DEF TH!ReadTheme
    <3> DEFINE new == [op |-> op, row |-> theme, look |-> look, custom |-> custom,
                       pc |-> IF op = "update" \/ theme = TH!NoTheme
                              THEN "write" ELSE "snapshot"]
    <3>2. new \in Changing
      BY DEF ThemeInv, ThemeTyped, Changing
    <3> QED BY <3>1, <3>2
  <2> QED BY <2>1, <2>2
<1>3. StyleKnows(new)
  <2>1. new.op \in {"read", "update", "restore", "reset"}
    BY StyleRow
  <2>2. Stored(TH!NoTheme) /\ Stored(theme)
    BY DEF Stored, ThemeInv, ThemeNumbered
  <2> QED BY <1>2, <2>1, <2>2 DEF StyleKnows
<1>4. /\ StylesMoved'
      /\ styling'[q] = new
      /\ themeRival = {} => /\ \A r \in Requests : r # q => styling'[r] = TH!Idle
                            /\ TH!Quiet
  BY <1>1, <1>2, <1>3, StyleBegins
<1>5. ASSUME themeRival = {} PROVE StyleAlone(new) /\ new # TH!Idle
  <2>1. KeptBefore(theme.version)
    BY <1>4, <1>5 DEF ThemeInv
  <2>2. ASSUME theme = TH!NoTheme PROVE KeptBefore(theme.version + 1)
    <3>1. theme.version = 0
      BY <2>2 DEF TH!NoTheme
    <3>2. \A v \in TH!Versions : was[v] = TH!NoTheme /\ v \in Nat \ {0}
      BY <3>1, ThemeAssumption DEF ThemeInv, ThemeNumbered, TH!Versions
    <3> QED BY <2>1, <3>1, <3>2 DEF KeptBefore
  <2> QED BY <1>2, <2>1, <2>2, StyleRow DEF StyleAlone
<1>6. themeRival = {} => \A r \in Requests : styling'[r] # TH!Idle => StyleAlone(styling[r])'
  <2>1. StyleAlone(new) => StyleAlone(new)'
    BY <1>1 DEF StyleAlone, KeptBefore
  <2> QED BY <1>4, <1>5, <2>1
<1>7. themeRival = {} => ~TH!Quiet'
  BY <1>4, <1>5 DEF TH!Quiet
<1> QED BY <1>1, <1>4, <1>6, <1>7, ThemeStays DEF ThemeRows

LEMMA ThemeFills == ASSUME ThemeInv, UNCHANGED themeRival, NEW q \in Requests,
        \/ TH!At(q, "fill") /\ TH!FillCache(q)
        \/ TH!At(q, "invalidate") /\ TH!InvalidateCache(q)
        \/ TH!ChangeDies(q)
  PROVE ThemeInv'
<1>1. /\ UNCHANGED <<theme, snapshot, was, stored>>
      /\ styling[q] \in Reading \cup Changing /\ StyleKnows(styling[q])
      /\ styling' = [styling EXCEPT ![q] = TH!Idle]
      /\ cache' \in {cache, TH!NoTheme} \/ (styling[q].pc = "fill" /\ cache' = styling[q].row)
  BY DEF TH!FillCache, TH!InvalidateCache, TH!ChangeDies, TH!themeVars, TH!At, TH!End,
         ThemeInv, ThemeTyped
<1>2. /\ StylesMoved'
      /\ styling'[q] = TH!Idle
      /\ themeRival = {} => \A r \in Requests : r # q => styling'[r] = TH!Idle
  BY <1>1, StyleMoves, StyleRow, Zenon
<1>3. cache' \in {cache, TH!NoTheme} \/ (cache' \in TH!Rows /\ Stored(cache'))
  BY <1>1, StyleRow DEF StyleKnows
<1>4. ASSUME themeRival = {} PROVE Fresh(cache)' /\ KeptBefore(theme.version)
  <2>1. ~TH!ChangeDies(q) /\ StyleAlone(styling[q])
    BY <1>1, <1>4, StyleRow DEF TH!ChangeDies, ThemeInv
  <2>2. CASE TH!At(q, "fill") /\ TH!FillCache(q)
    <3>1. styling[q].op = "read" /\ styling[q].pc = "fill"
      BY <1>1, <2>2, StyleRow DEF TH!At
    <3> QED BY <1>1, <2>1, <2>2, <3>1 DEF StyleAlone, TH!FillCache, Fresh
  <2>3. CASE TH!At(q, "invalidate") /\ TH!InvalidateCache(q)
    <3>1. styling[q].op \in {"update", "restore", "reset"} /\ styling[q].pc = "invalidate"
      BY <1>1, <2>3, StyleRow DEF TH!At
    <3> QED BY <2>1, <2>3, <3>1 DEF StyleAlone, TH!InvalidateCache, Fresh
  <2> QED BY <2>1, <2>2, <2>3
<1>5. themeRival = {} => \A r \in Requests : styling'[r] = TH!Idle
  BY <1>2
<1> QED BY <1>1, <1>2, <1>3, <1>4, <1>5, ThemeStays DEF ThemeRows

LEMMA ThemeExpires == ASSUME ThemeInv, UNCHANGED themeRival, TH!CacheExpires PROVE ThemeInv'
<1>1. UNCHANGED <<theme, snapshot, was, stored, styling>> /\ cache' = TH!NoTheme
  BY DEF TH!CacheExpires
<1>2. \A c : StyleKnows(c) => StyleKnows(c)'
  BY <1>1 DEF StyleKnows, Stored
<1>3. StylesMoved'
  BY <1>1, <1>2 DEF StylesMoved, ThemeInv, ThemeTyped
<1>4. \A c : StyleAlone(c) => StyleAlone(c)'
  BY <1>1 DEF StyleAlone, KeptBefore
<1> QED BY <1>1, <1>3, <1>4, ThemeStays DEF ThemeRows, ThemeInv, TH!Quiet, Fresh

\* The next version is stored where none was.
LEMMA ThemeStored == ASSUME ThemeInv, NEW look \in TH!Looks, NEW custom \in TH!Customs,
                            TH!Store(look, custom)
  PROVE /\ theme' \in TH!Rows /\ theme' # TH!NoTheme /\ theme'.version = theme.version + 1
        /\ theme.version \in Nat /\ theme.version + 1 \in TH!Versions
        /\ was' \in [TH!Versions -> TH!Rows]
        /\ \A v \in TH!Versions : v # theme.version + 1 => was'[v] = was[v]
        /\ \A v \in TH!Versions : was'[v] # TH!NoTheme <=> v <= theme'.version
        /\ \A v \in TH!Versions : was'[v] # TH!NoTheme => was'[v].version = v
        /\ was'[theme'.version] = theme' /\ stored' = stored \cup {theme'} /\ stored' \subseteq TH!Rows
<1> DEFINE n == theme.version + 1
           new == [version |-> n, look |-> look, custom |-> custom]
<1>1. /\ theme.version < MaxThemes /\ theme' = new /\ was' = [was EXCEPT ![n] = new]
      /\ stored' = stored \cup {new}
  BY DEF TH!Store, TH!Put
<1>2. theme.version \in 0..MaxThemes
  BY ThemeAssumption DEF ThemeInv, ThemeTyped, TH!Rows, TH!NoTheme, TH!Versions
<1>3. n \in TH!Versions /\ \A v \in TH!Versions : v \in Nat
  BY <1>1, <1>2, ThemeAssumption DEF TH!Versions
<1>4. new \in TH!Rows /\ new # TH!NoTheme /\ new.version = n
  BY <1>3 DEF TH!Rows, TH!NoTheme, TH!Versions
<1> HIDE DEF new
<1>5. /\ was' \in [TH!Versions -> TH!Rows] /\ was'[n] = new
      /\ \A v \in TH!Versions : v # n => was'[v] = was[v]
  BY <1>1, <1>3, <1>4 DEF ThemeInv, ThemeTyped
<1>6. \A v \in TH!Versions : /\ was[v] # TH!NoTheme <=> v <= theme.version
                             /\ was[v] # TH!NoTheme => was[v].version = v
  BY DEF ThemeInv, ThemeNumbered
<1>8. \A v \in TH!Versions : was'[v] # TH!NoTheme <=> v <= n
  BY <1>2, <1>3, <1>4, <1>5, <1>6
<1>9. stored' \subseteq TH!Rows
  BY <1>1, <1>4 DEF ThemeInv, ThemeTyped
<1> QED BY <1>1, <1>2, <1>3, <1>4, <1>5, <1>6, <1>8, <1>9

\* The rows have their types.
RowsTyped ==
    /\ theme \in TH!Rows /\ cache \in TH!Rows
    /\ snapshot \in [TH!Versions -> TH!Rows] /\ was \in [TH!Versions -> TH!Rows]
    /\ stored \subseteq TH!Rows
\* A row written over the one of today's version.
LEMMA ThemePutOver == ASSUME ThemeInv, theme # TH!NoTheme, UNCHANGED <<snapshot, cache>>,
        NEW look \in TH!Looks, NEW custom \in TH!Customs, NEW put,
        put = [version |-> theme.version, look |-> look, custom |-> custom],
        theme' = put, was' = [was EXCEPT ![theme.version] = put], stored' = stored \cup {put}
  PROVE /\ RowsTyped' /\ ThemeNumbered' /\ stored \subseteq stored'
        /\ theme'.version = theme.version
        /\ \A v \in TH!Versions : v # theme.version => was'[v] = was[v]
<1>1. theme \in [version : TH!Versions, look : TH!Looks, custom : TH!Customs]
  BY DEF ThemeInv, ThemeTyped, TH!Rows
<1>2. /\ put \in TH!Rows /\ put # TH!NoTheme /\ put.version = theme.version
      /\ theme.version \in TH!Versions
  BY <1>1, ThemeAssumption DEF TH!Rows, TH!NoTheme, TH!Versions
<1>3. /\ was' \in [TH!Versions -> TH!Rows] /\ was'[theme.version] = put
      /\ \A v \in TH!Versions : v # theme.version => was'[v] = was[v]
  BY <1>2 DEF ThemeInv, ThemeTyped
<1>4. RowsTyped'
  BY <1>2, <1>3 DEF ThemeInv, ThemeTyped, RowsTyped
<1>5. ThemeNumbered'
  BY <1>2, <1>3 DEF ThemeInv, ThemeNumbered, Stored
<1> QED BY <1>2, <1>3, <1>4, <1>5

LEMMA ThemeEdits == ASSUME ThemeInv, UNCHANGED themeRival, TH!EditInPlace PROVE ThemeInv'
<1>1. PICK look \in TH!Looks, custom \in TH!Customs :
        TH!Put(IF theme = TH!NoTheme THEN 1 ELSE theme.version, look, custom)
  BY DEF TH!EditInPlace
<1>2. /\ UNCHANGED <<snapshot, cache, styling>>
      /\ themeRival = {} => TH!Quiet
  BY DEF TH!EditInPlace, TH!Quiet
<1>3. CASE theme = TH!NoTheme
  <2>1. TH!Store(look, custom)
    <3>1. theme.version = 0 /\ 0 < MaxThemes
      BY <1>3, ThemeAssumption DEF TH!NoTheme
    <3> QED BY <1>1, <1>3, <3>1 DEF TH!Store
  <2> HIDE DEF TH!Store
  <2>2. /\ theme' \in TH!Rows /\ theme' # TH!NoTheme /\ theme'.version = theme.version + 1
        /\ theme.version \in Nat /\ theme.version + 1 \in TH!Versions
        /\ was' \in [TH!Versions -> TH!Rows]
        /\ \A v \in TH!Versions : was'[v] # TH!NoTheme <=> v <= theme'.version
        /\ \A v \in TH!Versions : was'[v] # TH!NoTheme => was'[v].version = v
        /\ was'[theme'.version] = theme' /\ stored' = stored \cup {theme'} /\ stored' \subseteq TH!Rows
    BY <2>1, ThemeStored
  <2>3. theme.version = 0 /\ \A v \in TH!Versions : v \in Nat \ {0}
    BY <1>3, ThemeAssumption DEF TH!NoTheme, TH!Versions
  <2>4. ThemeTyped'
    BY <1>2, <2>2 DEF ThemeInv, ThemeTyped
  <2>5. ThemeNumbered'
    BY <1>2, <2>2 DEF ThemeInv, ThemeNumbered, Stored
  <2>6. \A q \in Requests : styling[q] # TH!Idle => StyleKnows(styling[q])'
    BY <1>2, <2>2 DEF ThemeInv, StyleKnows, Stored
  <2>7. ASSUME themeRival = {} PROVE Fresh(cache)' /\ KeptBefore(theme.version)'
    <3>1. TH!Quiet /\ Fresh(cache) /\ KeptBefore(theme.version)
      BY <1>2, <2>7 DEF ThemeInv
    <3>2. cache = TH!NoTheme
      BY <2>3, <3>1 DEF Fresh, ThemeInv, ThemeTyped, TH!Rows
    <3>3. \A v \in TH!Versions : snapshot[v] = TH!NoTheme /\ ~(v < 0) /\ ~(v < 1)
      BY <2>3, <3>1 DEF KeptBefore
    <3> QED BY <1>2, <2>2, <2>3, <3>2, <3>3 DEF Fresh, KeptBefore
  <2> QED BY <1>2, <2>4, <2>5, <2>6, <2>7 DEF ThemeInv, TH!Quiet
<1>4. CASE theme # TH!NoTheme
  <2> DEFINE put == [version |-> theme.version, look |-> look, custom |-> custom]
  <2>1. /\ theme' = put /\ was' = [was EXCEPT ![theme.version] = put]
        /\ stored' = stored \cup {put}
    BY <1>1, <1>4 DEF TH!Put
  <2>2. /\ RowsTyped' /\ ThemeNumbered' /\ stored \subseteq stored'
        /\ theme'.version = theme.version
        /\ \A v \in TH!Versions : v # theme.version => was'[v] = was[v]
    BY <1>2, <1>4, <2>1, ThemePutOver
  <2>3. ThemeTyped'
    BY <1>2, <2>2 DEF ThemeInv, ThemeTyped, RowsTyped
  <2>4. \A q \in Requests : styling[q] # TH!Idle => StyleKnows(styling[q])'
    BY <1>2, <2>2 DEF ThemeInv, StyleKnows, Stored
  <2>5. ASSUME themeRival = {} PROVE Fresh(cache)' /\ KeptBefore(theme.version)'
    <3>1. Fresh(cache) /\ KeptBefore(theme.version)
      BY <1>2, <2>5 DEF ThemeInv
    <3>2. theme.version \in Nat /\ \A v \in TH!Versions : v \in Nat
      BY ThemeAssumption DEF ThemeInv, ThemeTyped, TH!Rows, TH!NoTheme, TH!Versions
    <3>3. \A v \in TH!Versions : v < theme.version => was'[v] = was[v]
      BY <2>2, <3>2
    <3> QED BY <1>2, <2>2, <3>1, <3>3 DEF Fresh, KeptBefore
  <2> QED BY <1>2, <2>2, <2>3, <2>4, <2>5 DEF ThemeInv, TH!Quiet
<1> QED BY <1>3, <1>4

LEMMA ThemeReadsRow == ASSUME ThemeInv, UNCHANGED themeRival, NEW q \in Requests,
        TH!At(q, "row"), TH!ReadRow(q)
  PROVE ThemeInv'
<1>1. /\ styling[q] \in Reading /\ styling[q].pc = "row" /\ styling[q] # TH!Idle
      /\ styling[q].op = "read"
  <2>1. styling[q] \in Reading \cup Changing /\ styling[q].pc = "row"
    BY StyleAt
  <2> QED BY <2>1, StyleRow DEF Changing, Reading
<1>2. themeRival = {} => cache = TH!NoTheme /\ KeptBefore(theme.version)
  BY <1>1 DEF ThemeInv, StyleAlone
<1>3. CASE theme = TH!NoTheme
  <2>1. /\ TH!Store(0, 0) /\ UNCHANGED <<snapshot, cache>>
        /\ styling' = [styling EXCEPT ![q] = TH!Idle]
    BY <1>3 DEF TH!ReadRow, TH!End
  <2>2. 0 \in TH!Looks /\ 0 \in TH!Customs
    BY DEF TH!Looks, TH!Customs
  <2> HIDE DEF TH!Store
  <2>3. /\ theme' \in TH!Rows /\ theme' # TH!NoTheme /\ theme'.version = theme.version + 1
        /\ theme.version + 1 \in TH!Versions
        /\ was' \in [TH!Versions -> TH!Rows]
        /\ \A v \in TH!Versions : was'[v] # TH!NoTheme <=> v <= theme'.version
        /\ \A v \in TH!Versions : was'[v] # TH!NoTheme => was'[v].version = v
        /\ was'[theme'.version] = theme' /\ stored' = stored \cup {theme'} /\ stored' \subseteq TH!Rows
    BY <2>1, <2>2, ThemeStored
  <2>4. /\ StylesMoved' /\ styling'[q] = TH!Idle
        /\ themeRival = {} => \A r \in Requests : r # q => styling'[r] = TH!Idle
    <3>1. stored \subseteq stored'
      BY <2>3
    <3> QED BY <1>1, <2>1, <3>1, StyleMoves, Zenon
  <2>5. ThemeTyped'
    BY <2>1, <2>3, <2>4 DEF ThemeInv, ThemeTyped, StylesMoved
  <2>6. ThemeNumbered'
    BY <2>1, <2>3 DEF ThemeInv, ThemeNumbered, Stored
  <2>7. theme.version = 0 /\ \A v \in TH!Versions : v \in Nat \ {0}
    BY <1>3, ThemeAssumption DEF TH!NoTheme, TH!Versions
  <2>8. themeRival = {} => KeptBefore(theme.version)'
    <3>1. themeRival = {} => \A v \in TH!Versions : snapshot[v] = TH!NoTheme
      BY <1>2, <2>7 DEF KeptBefore
    <3> QED BY <2>1, <2>3, <2>7, <3>1 DEF KeptBefore
  <2> QED BY <1>2, <2>1, <2>4, <2>5, <2>6, <2>8 DEF ThemeInv, StylesMoved, Fresh
<1>4. CASE theme # TH!NoTheme
  <2>1. PICK new \in Reading : /\ styling' = [styling EXCEPT ![q] = new]
                               /\ new.pc = "fill" /\ new.row = theme /\ new.op = "read"
    <3> DEFINE new == [styling[q] EXCEPT !.pc = "fill", !.row = theme]
    <3>1. new \in Reading /\ new.pc = "fill" /\ new.row = theme /\ new.op = "read"
      BY <1>1, Zenon DEF Reading, ThemeInv, ThemeTyped
    <3>2. styling' = [styling EXCEPT ![q] = new]
      BY <1>4 DEF TH!ReadRow
    <3> QED BY <3>1, <3>2, Zenon
  <2>2. UNCHANGED <<theme, snapshot, was, stored, cache>>
    BY <1>4 DEF TH!ReadRow, TH!themeVars
  <2>3. StyleKnows(new)'
    BY <1>4, <2>1, <2>2 DEF StyleKnows, ThemeInv, ThemeNumbered, Stored
  <2>4. /\ StylesMoved' /\ styling'[q] = new
        /\ themeRival = {} => \A r \in Requests : r # q => styling'[r] = TH!Idle
    BY <1>1, <2>1, <2>2, <2>3, StyleMoves, Zenon
  <2>5. themeRival = {} => StyleAlone(new)'
    BY <1>2, <2>1, <2>2 DEF StyleAlone, KeptBefore
  <2>6. new # TH!Idle
    BY StyleRow
  <2> QED BY <2>2, <2>4, <2>5, <2>6, ThemeStays DEF ThemeRows, TH!Quiet
<1> QED BY <1>3, <1>4

LEMMA ThemeSaves == ASSUME ThemeInv, UNCHANGED themeRival, NEW q \in Requests,
        TH!At(q, "snapshot"), TH!SaveSnapshot(q)
  PROVE ThemeInv'
<1> DEFINE c == styling[q]
           v == c.row.version
<1>1. /\ c \in Changing /\ c.pc = "snapshot" /\ c # TH!Idle /\ StyleKnows(c)
      /\ c.op \in {"update", "restore", "reset"}
  <2>1. styling[q] \in Reading \cup Changing /\ styling[q].pc = "snapshot"
    BY StyleAt
  <2> QED BY <2>1, StyleRow DEF Changing, Reading, ThemeInv
<1>2. c.row \in TH!Rows /\ c.row # TH!NoTheme /\ v \in TH!Versions
  BY <1>1 DEF Changing, StyleKnows, TH!Rows
<1>3. UNCHANGED <<theme, was, stored, cache>>
  BY DEF TH!SaveSnapshot
<1>4. \A n \in TH!Versions : n \in Nat
  BY ThemeAssumption DEF TH!Versions
<1>5. theme.version \in Nat
  BY ThemeAssumption DEF ThemeInv, ThemeTyped, TH!Rows, TH!NoTheme, TH!Versions
<1>6. themeRival = {} =>
        /\ c.op = "update" => /\ v = theme.version - 1 /\ c.row = was[v]
                              /\ KeptBefore(theme.version - 1)
        /\ c.op # "update" => c.row = theme /\ KeptBefore(theme.version) /\ v = theme.version
  <2>1. themeRival = {} => StyleAlone(c)
    BY <1>1 DEF ThemeInv
  <2>2. ASSUME themeRival = {}, c.op = "update" PROVE v = theme.version - 1
    <3>1. c.row = was[theme.version - 1] /\ theme.version > 1
      BY <1>1, <2>1, <2>2 DEF StyleAlone
    <3>2. theme.version - 1 \in TH!Versions
      BY <1>5, <3>1, ThemeAssumption DEF ThemeInv, ThemeTyped, TH!Rows, TH!NoTheme, TH!Versions
    <3> QED BY <1>2, <3>1, <3>2 DEF ThemeInv, ThemeNumbered
  <2> QED BY <1>1, <2>1, <2>2 DEF StyleAlone
<1>7. CASE snapshot[v] # TH!NoTheme
  <2>1. UNCHANGED snapshot /\ styling' = [styling EXCEPT ![q] = TH!Idle]
    BY <1>7 DEF TH!SaveSnapshot, TH!End
  <2>2. themeRival # {}
    BY <1>2, <1>4, <1>5, <1>6, <1>7 DEF KeptBefore
  <2>3. StylesMoved'
    BY <1>1, <1>3, <2>1, StyleMoves, Zenon
  <2> QED BY <1>3, <2>1, <2>2, <2>3, ThemeStays DEF ThemeRows
<1>8. CASE snapshot[v] = TH!NoTheme
  <2> DEFINE at == IF c.op = "update" THEN "invalidate" ELSE "write"
  <2>1. /\ snapshot' = [snapshot EXCEPT ![v] = c.row]
        /\ styling' = [styling EXCEPT ![q].pc = at]
    BY <1>8 DEF TH!SaveSnapshot, TH!Go
  <2>2. PICK new : new = [c EXCEPT !.pc = at]
    BY Zenon
  <2>3. /\ new \in Changing /\ new.pc = at /\ new.op = c.op /\ new.row = c.row
        /\ styling' = [styling EXCEPT ![q] = new]
    BY <1>1, <2>1, <2>2 DEF Changing
  <2>4. StyleKnows(new)'
    BY <1>1, <1>2, <1>3, <2>3 DEF StyleKnows, Stored
  <2>5. /\ StylesMoved' /\ styling'[q] = new
        /\ themeRival = {} => \A r \in Requests : r # q => styling'[r] = TH!Idle
    BY <1>1, <1>3, <2>3, <2>4, StyleMoves, Zenon
  <2>6. /\ snapshot' \in [TH!Versions -> TH!Rows] /\ snapshot'[v] = c.row
        /\ \A n \in TH!Versions : n # v => snapshot'[n] = snapshot[n]
    BY <1>2, <2>1 DEF ThemeInv, ThemeTyped
  <2>7. ThemeTyped'
    BY <1>3, <2>5, <2>6 DEF ThemeInv, ThemeTyped, StylesMoved
  <2>8. ThemeNumbered'
    BY <1>1, <1>3, <2>6 DEF ThemeInv, ThemeNumbered, StyleKnows, Stored
  <2>9. ASSUME themeRival = {} PROVE StyleAlone(new)'
    <3>1. CASE c.op = "update"
      <4>1. \A n \in TH!Versions : snapshot'[n] = IF n < theme.version THEN was[n] ELSE TH!NoTheme
        BY <1>4, <1>5, <1>6, <2>6, <2>9, <3>1 DEF KeptBefore
      <4> QED BY <1>3, <2>3, <3>1, <4>1 DEF StyleAlone, KeptBefore
    <3>2. CASE c.op # "update"
      <4>1. was[theme.version] = theme
        BY <1>2, <1>6, <2>9, <3>2 DEF ThemeInv, ThemeNumbered
      <4>2. \A n \in TH!Versions : snapshot'[n] = IF n < theme.version + 1 THEN was[n] ELSE TH!NoTheme
        BY <1>4, <1>5, <1>6, <2>6, <2>9, <3>2, <4>1 DEF KeptBefore
      <4> QED BY <1>1, <1>3, <1>6, <2>3, <2>9, <3>2, <4>2 DEF StyleAlone, KeptBefore
    <3> QED BY <3>1, <3>2
  <2>10. new # TH!Idle
    BY <2>3, StyleRow
  <2> QED BY <1>3, <2>5, <2>7, <2>8, <2>9, <2>10 DEF ThemeInv, StylesMoved, TH!Quiet
<1> QED BY <1>7, <1>8

LEMMA ThemeWrites == ASSUME ThemeInv, UNCHANGED themeRival, NEW q \in Requests,
        TH!At(q, "write"), TH!WriteTheme(q)
  PROVE ThemeInv'
<1> DEFINE c == styling[q]
<1>1. /\ c \in Changing /\ c.pc = "write" /\ c # TH!Idle /\ StyleKnows(c)
      /\ c.op \in {"update", "restore", "reset"}
      /\ c.row \in TH!Rows /\ c.look \in TH!Looks /\ c.custom \in TH!Customs
  <2>1. styling[q] \in Reading \cup Changing /\ styling[q].pc = "write"
    BY StyleAt
  <2> QED BY <2>1, StyleRow DEF Changing, Reading, ThemeInv
<1>2. UNCHANGED <<snapshot, cache>>
  BY DEF TH!WriteTheme
<1>3. theme.version \in Nat /\ (theme.version = 0 <=> theme = TH!NoTheme)
  BY ThemeAssumption DEF ThemeInv, ThemeTyped, TH!Rows, TH!NoTheme, TH!Versions
<1>4. themeRival = {} =>
        /\ c.row = theme
        /\ c.op = "update" => KeptBefore(theme.version)
        /\ c.op # "update" => KeptBefore(theme.version + 1)
  BY <1>1 DEF ThemeInv, StyleAlone
<1>5. CASE c.op = "update" /\ c.row = TH!NoTheme /\ theme # TH!NoTheme
  <2>1. UNCHANGED <<theme, was, stored>> /\ styling' = [styling EXCEPT ![q] = TH!Idle]
    BY <1>5 DEF TH!WriteTheme, TH!End
  <2>2. StylesMoved' /\ themeRival # {}
    BY <1>1, <1>4, <1>5, <2>1, StyleMoves, Zenon
  <2> QED BY <1>2, <2>1, <2>2, ThemeStays DEF ThemeRows
<1> DEFINE at == IF c.op = "update" /\ c.row # TH!NoTheme THEN "snapshot" ELSE "invalidate"
<1>6. PICK new : new = [c EXCEPT !.pc = at]
  BY Zenon
<1>7. /\ new \in Changing /\ new.pc = at /\ new.op = c.op /\ new.row = c.row
      /\ ~(c.op = "update" /\ c.row = TH!NoTheme /\ theme # TH!NoTheme)
            => styling' = [styling EXCEPT ![q] = new]
  BY <1>1, <1>6 DEF Changing, TH!WriteTheme, TH!Go
<1>8. new # TH!Idle
  BY <1>7, StyleRow
<1>9. CASE c.op = "reset" /\ c.row = TH!NoTheme /\ theme # TH!NoTheme
  <2> DEFINE put == [version |-> theme.version, look |-> 0, custom |-> 0]
  <2>1. /\ theme' = put /\ was' = [was EXCEPT ![theme.version] = put]
        /\ stored' = stored \cup {put}
    BY <1>9 DEF TH!WriteTheme, TH!Put
  <2>2. 0 \in TH!Looks /\ 0 \in TH!Customs
    BY DEF TH!Looks, TH!Customs
  <2>3. RowsTyped' /\ ThemeNumbered' /\ stored \subseteq stored'
    BY <1>2, <1>9, <2>1, <2>2, ThemePutOver
  <2>4. themeRival # {}
    BY <1>4, <1>9
  <2>6. StyleKnows(new)'
    BY <1>1, <1>7, <2>3 DEF StyleKnows, Stored
  <2>7. StylesMoved'
    BY <1>1, <1>7, <1>9, <2>3, <2>6, StyleMoves
  <2>8. ThemeTyped'
    BY <2>3, <2>7 DEF RowsTyped, ThemeTyped, StylesMoved
  <2> QED BY <2>3, <2>4, <2>7, <2>8 DEF ThemeInv, StylesMoved
<1>10. CASE ~(c.op = "update" /\ c.row = TH!NoTheme /\ theme # TH!NoTheme)
            /\ ~(c.op = "reset" /\ c.row = TH!NoTheme /\ theme # TH!NoTheme)
  <2> DEFINE custom == IF c.op = "restore" /\ c.custom = 0 THEN theme.custom ELSE c.custom
  <2>1. TH!Store(c.look, custom) /\ styling' = [styling EXCEPT ![q] = new]
    BY <1>7, <1>10 DEF TH!WriteTheme
  <2>2. custom \in TH!Customs
    BY <1>1 DEF ThemeInv, ThemeTyped, TH!Rows, TH!NoTheme, TH!Customs
  <2> HIDE DEF TH!Store, custom
  <2>3. /\ theme' \in TH!Rows /\ theme' # TH!NoTheme /\ theme'.version = theme.version + 1
        /\ theme.version \in Nat /\ theme.version + 1 \in TH!Versions
        /\ was' \in [TH!Versions -> TH!Rows]
        /\ \A v \in TH!Versions : v # theme.version + 1 => was'[v] = was[v]
        /\ \A v \in TH!Versions : was'[v] # TH!NoTheme <=> v <= theme'.version
        /\ \A v \in TH!Versions : was'[v] # TH!NoTheme => was'[v].version = v
        /\ was'[theme'.version] = theme' /\ stored' = stored \cup {theme'} /\ stored' \subseteq TH!Rows
    BY <1>1, <2>1, <2>2, ThemeStored
  <2>4. StyleKnows(new)'
    <3>3. new.pc # "write" /\ new.pc = "snapshot" => new.row # TH!NoTheme
      BY <1>7
    <3>4. new.pc \in {"snapshot", "invalidate"}
      BY <1>7
    <3> QED BY <1>1, <1>7, <2>3, <3>3, <3>4 DEF StyleKnows, Stored
  <2>5. /\ StylesMoved' /\ styling'[q] = new
        /\ themeRival = {} => \A r \in Requests : r # q => styling'[r] = TH!Idle
    <3>1. styling' = [styling EXCEPT ![q] = new]
      BY <2>1
    <3>2. stored \subseteq stored'
      BY <2>3
    <3> HIDE DEF c
    <3>3. c = styling[q]
      BY DEF c
    <3> QED BY <1>1, <1>7, <2>4, <3>1, <3>2, <3>3, StyleMoves, Zenon
  <2>6. ThemeTyped'
    BY <1>2, <2>3, <2>5 DEF ThemeInv, ThemeTyped, StylesMoved
  <2>7. ThemeNumbered'
    BY <1>2, <2>3 DEF ThemeInv, ThemeNumbered, Stored
  <2>8. ASSUME themeRival = {} PROVE StyleAlone(new)'
    <3>0. \A v \in TH!Versions : v \in Nat \ {0}
      BY ThemeAssumption DEF TH!Versions
    <3>1. CASE c.op = "update" /\ c.row # TH!NoTheme
      <4>1. \A v \in TH!Versions : snapshot[v] = IF v < theme.version THEN was'[v] ELSE TH!NoTheme
        BY <1>3, <1>4, <2>3, <2>8, <3>0, <3>1 DEF KeptBefore
      <4>2. was'[theme.version] = theme
        <5>1. was[theme.version] = theme /\ theme # TH!NoTheme
          BY <1>4, <2>8, <3>1 DEF ThemeInv, ThemeNumbered
        <5>2. theme.version \in TH!Versions
          BY <5>1 DEF ThemeInv, ThemeTyped, TH!Rows
        <5> QED BY <1>3, <2>3, <5>1, <5>2
      <4>3. KeptBefore(theme.version - 1)'
        BY <1>2, <1>3, <2>3, <4>1 DEF KeptBefore
      <4>4. new.row = was'[theme'.version - 1] /\ theme'.version > 1
        BY <1>3, <1>4, <1>7, <2>3, <2>8, <3>1, <4>2
      <4>5. new.op = "update" /\ new.pc = "snapshot"
        BY <1>7, <3>1
      <4> QED BY <4>3, <4>4, <4>5 DEF StyleAlone
    <3>2. CASE ~(c.op = "update" /\ c.row # TH!NoTheme)
      <4>1. c.op = "update" => theme.version = 0
        BY <1>3, <1>10, <3>2
      <4>2. \A v \in TH!Versions : snapshot[v] = IF v < theme.version + 1 THEN was'[v] ELSE TH!NoTheme
        BY <1>3, <1>4, <2>3, <2>8, <3>0, <4>1 DEF KeptBefore
      <4>3. KeptBefore(theme.version)'
        BY <1>2, <2>3, <4>2 DEF KeptBefore
      <4>4. new.op # "read" /\ new.pc = "invalidate"
        BY <1>1, <1>7, <3>2
      <4> QED BY <4>3, <4>4 DEF StyleAlone
    <3> QED BY <3>1, <3>2
  <2>9. ~TH!Quiet'
    BY <1>8, <2>5 DEF TH!Quiet
  <2> QED BY <1>2, <2>5, <2>6, <2>7, <2>8, <2>9 DEF ThemeInv, StylesMoved
<1> QED BY <1>5, <1>9, <1>10

LEMMA ThemeStep == ASSUME ThemeInv, TH!ThemeNext PROVE ThemeInv'
<1>1. UNCHANGED themeRival
  BY DEF TH!ThemeNext
<1>2. CASE \E q \in Requests : \/ TH!MissCache(q)
                               \/ \E op \in {"update", "restore", "reset"} : TH!ReadTheme(q, op)
  BY <1>1, <1>2, ThemeReads
<1>3. CASE \E q \in Requests : \/ TH!At(q, "fill") /\ TH!FillCache(q)
                               \/ TH!At(q, "invalidate") /\ TH!InvalidateCache(q)
                               \/ TH!ChangeDies(q)
  BY <1>1, <1>3, ThemeFills
<1>4. CASE TH!CacheExpires \/ TH!EditInPlace
  BY <1>1, <1>4, ThemeExpires, ThemeEdits
<1>5. CASE \E q \in Requests : TH!At(q, "row") /\ TH!ReadRow(q)
  BY <1>1, <1>5, ThemeReadsRow
<1>6. CASE \E q \in Requests : TH!At(q, "write") /\ TH!WriteTheme(q)
  BY <1>1, <1>6, ThemeWrites
<1>7. CASE \E q \in Requests : TH!At(q, "snapshot") /\ TH!SaveSnapshot(q)
  BY <1>1, <1>7, ThemeSaves
<1> QED BY <1>2, <1>3, <1>4, <1>5, <1>6, <1>7 DEF TH!ThemeNext

LEMMA ThemeSame == ASSUME ThemeInv, UNCHANGED thVars PROVE ThemeInv'
<1> USE DEF thVars
<1>1. ThemeTyped' /\ ThemeNumbered'
  BY DEF ThemeInv, ThemeTyped, ThemeNumbered, Stored
<1>2. \A c : /\ StyleKnows(c) => StyleKnows(c)'
             /\ StyleAlone(c) => StyleAlone(c)'
  BY DEF StyleKnows, StyleAlone, KeptBefore, Stored
<1>3. KeptBefore(theme.version) => KeptBefore(theme.version)'
  BY DEF KeptBefore
<1> QED BY <1>1, <1>2, <1>3 DEF ThemeInv, TH!Quiet, Fresh
-----------------------------------------------------------------------------
(* Media *)

Addresses == MD!Public \cup {"private"}
UploadCall == [op : {"upload"}, pc : {"optimize", "preset", "drop", "insert"},
               url : MD!Public, variants : BOOLEAN]
DeleteCall == [op : {"delete"}, pc : {"object", "variants", "row"},
               url : Addresses, variants : BOOLEAN]
UpdateCall == [op : {"update"}, pc : {"write"}, visibility : {"public", "private"}]
MoveCall == [op : {"submit", "open"}, id : Documents, url : Addresses, variants : BOOLEAN,
             pc : {"record", "move", "wait", "copy", "unlink", "variants", "row", "prior"}]
MediaCalls == UploadCall \cup DeleteCall \cup UpdateCall \cup MoveCall
MediaRow == [url : Addresses, variants : BOOLEAN,
             visibility : {"tenant", "public", "private"}] \cup {MD!NoRow}
MediaTyped ==
    /\ object \subseteq Addresses /\ media \in MediaRow
    /\ document \in [Documents -> {"none", "private", "optimized"}]
    /\ DOMAIN uploading = Requests
    /\ \A q \in Requests : uploading[q] = MD!Idle \/ uploading[q] \in MediaCalls

\* No public copy is left, and none but that of one address.
NoneLeft == ~missing => object \cap MD!Public = {}
OneLeft(url) == ~missing => object \cap MD!Public \subseteq {url}
Unnamed == media = MD!NoRow /\ \A s \in Documents : document[s] = "none"

\* What a request knows of the objects, whatever overlaps.
MediaKnows(c) ==
    /\ uploaded
    /\ c.op = "upload" =>
         /\ Unnamed
         /\ c.pc = "optimize" => ~c.variants
         /\ c.pc \in {"optimize", "insert"} /\ ~c.variants => OneLeft(c.url)
    /\ c.op \in {"submit", "open"} =>
         /\ c.pc # "record" => c.url \in MD!Public /\ (~c.variants => OneLeft(c.url))
         /\ c.pc = "variants" => c.url \notin object
         /\ c.pc \in {"row", "prior", "record"} => NoneLeft

\* Every submission names the address the file has; the file is there.
Named(url) == \A s \in Documents : document[s] \in {"none", url}
MediaKept ==
    /\ Named(media.url) \/ (media = MD!NoRow /\ \A s \in Documents : document[s] # "private")
    /\ media # MD!NoRow => media.url \in object
    /\ media.url = "private" => media.visibility = "private"
\* What a request knows that runs alone.
MediaAlone(c) ==
    /\ c.op = "upload" => /\ c.url \in object
                          /\ c.pc \in {"preset", "drop"} => "optimized" \in object
    /\ c.op = "delete" => \A s \in Documents : document[s] # "private"
    /\ c.op = "update" => /\ MediaKept /\ media # MD!NoRow
                          /\ media.url = "private" => c.visibility = "private"
    /\ c.op \in {"submit", "open"} =>
         /\ media # MD!NoRow
         /\ c.pc \in {"move", "wait", "copy", "unlink", "variants", "row"} =>
              media.url = c.url /\ Named(media.url)
         /\ c.pc \in {"move", "wait", "copy", "record"} => MediaKept
         /\ c.pc \in {"unlink", "variants", "row", "prior"} => "private" \in object
         /\ c.pc = "prior" => Named(c.url)
         /\ c.pc \in {"prior", "record"} => media.url = "private" /\ media.visibility = "private"

MediaInv ==
    /\ MediaTyped
    /\ \A q \in Requests : uploading[q] # MD!Idle => MediaKnows(uploading[q])
    /\ \A q, r \in Requests :
          q # r /\ uploading[q] # MD!Idle /\ uploading[r] # MD!Idle
              => ~solo /\ "upload" \notin {uploading[q].op, uploading[r].op}
    /\ ~uploaded => Unnamed /\ \A q \in Requests : uploading[q] = MD!Idle
    /\ media # MD!NoRow /\ media.url # "private" /\ ~media.variants => OneLeft(media.url)
    /\ media.url = "private" => NoneLeft
    /\ MD!NoPublicCopy
    /\ solo /\ ~stopped =>
         /\ \A q \in Requests : uploading[q] # MD!Idle => MediaAlone(uploading[q])
         /\ (\A q \in Requests : uploading[q] = MD!Idle) => MediaKept

\* While requests run one at a time, a document named privately keeps its row
\* and its label, whatever fails.
MediaSafe ==
    /\ \A s \in Documents : document[s] = "private" => media.url = "private"
    /\ media.url = "private" => media.visibility = "private"
MediaSafely(c) ==
    /\ c.op = "delete" => \A s \in Documents : document[s] # "private"
    /\ c.op = "update" => (media.url = "private" => c.visibility = "private")
    /\ c.op \in {"submit", "open"} /\ c.pc \in {"prior", "record"} => media.url = "private"
MediaSafeInv ==
    solo => MediaSafe /\ \A q \in Requests : uploading[q] # MD!Idle => MediaSafely(uploading[q])

LEMMA MediaHolds == ASSUME MediaInv, MediaSafeInv
  PROVE MD!TypeOK /\ MD!NoPublicCopy /\ MD!DocumentsKept
<1>1. MD!TypeOK
  <2>1. \A q \in Requests : uploading[q].op \in {"idle", "upload", "delete", "update", "submit", "open"}
    BY DEF MediaInv, MediaTyped, MediaCalls, UploadCall, DeleteCall, UpdateCall, MoveCall, MD!Idle
  <2>2. /\ media.url \in {"none", "private"} \cup MD!Public
        /\ media.visibility \in {"none", "tenant", "public", "private"}
    BY DEF MediaInv, MediaTyped, MediaRow, MD!NoRow, Addresses
  <2> QED BY <2>1, <2>2 DEF MediaInv, MediaTyped, MD!TypeOK, Addresses
<1>2. MD!DocumentsKept
  BY DEF MediaInv, MediaSafeInv, MediaSafe, MediaKept, MD!DocumentsKept, Named, MD!Exists
<1> QED BY <1>1, <1>2 DEF MediaInv

LEMMA MediaStart == ASSUME MD!Init PROVE MediaInv
<1>1. MediaTyped
  BY DEF MD!Init, MediaTyped, MediaRow, Addresses, MD!Public, MD!NoRow
<1>2. Unnamed \/ (uploaded /\ media.url = "optimized" /\ media.variants /\ media # MD!NoRow)
  BY DEF MD!Init, Unnamed, MD!NoRow
<1>3. media.url # "private" /\ \A s \in Documents : document[s] \in {"none", "optimized"}
  BY DEF MD!Init, MD!NoRow
<1>4. MediaKept
  BY <1>2, <1>3 DEF MD!Init, MediaKept, Named, Unnamed, MD!NoRow
<1> QED BY <1>1, <1>2, <1>3, <1>4 DEF MD!Init, MediaInv, MD!NoPublicCopy, Unnamed, MD!NoRow

LEMMA MediaCallIs == ASSUME NEW c \in MediaCalls
  PROVE /\ c # MD!Idle /\ c.op \in {"upload", "delete", "update", "submit", "open"}
        /\ c.op = "upload" => c \in UploadCall
        /\ c.op = "delete" => c \in DeleteCall
        /\ c.op = "update" => c \in UpdateCall
        /\ c.op \in {"submit", "open"} => c \in MoveCall
<1>1. c.op # "idle"
  BY DEF MediaCalls, UploadCall, DeleteCall, UpdateCall, MoveCall
<1> QED BY <1>1 DEF MediaCalls, UploadCall, DeleteCall, UpdateCall, MoveCall, MD!Idle

\* The requests under way know what they should.
MediaCallsSound ==
    /\ DOMAIN uploading = Requests
    /\ \A q \in Requests : uploading[q] = MD!Idle \/ uploading[q] \in MediaCalls
    /\ \A q \in Requests : uploading[q] # MD!Idle => MediaKnows(uploading[q])
    /\ \A q, r \in Requests :
          q # r /\ uploading[q] # MD!Idle /\ uploading[r] # MD!Idle
              => ~solo /\ "upload" \notin {uploading[q].op, uploading[r].op}

\* Requests other than uploads, moved on by one of them.
LEMMA MediaShares == ASSUME MediaInv, NEW q \in Requests, uploading[q] # MD!Idle,
        uploading[q].op # "upload", UNCHANGED <<solo, uploaded>>, missing => missing',
        object' \cap MD!Public \subseteq object, DOMAIN uploading' = Requests,
        \A r \in Requests :
            \/ uploading'[r] = uploading[r] \/ uploading'[r] = MD!Idle
            \/ /\ uploading[r] # MD!Idle /\ uploading'[r] \in MediaCalls
               /\ uploading'[r].op = uploading[r].op
               /\ MediaKnows(uploading[r])'
  PROVE MediaCallsSound' /\ (solo => \A r \in Requests : r # q => uploading'[r] = MD!Idle)
<1>1. \A r \in Requests : uploading[r] # MD!Idle =>
        uploading[r] \in MediaCalls /\ MediaKnows(uploading[r]) /\ uploading[r].op # "upload"
  BY DEF MediaInv, MediaTyped
<1>2. ASSUME NEW c \in MediaCalls, MediaKnows(c), c.op # "upload" PROVE MediaKnows(c)'
  BY <1>2 DEF MediaKnows, OneLeft, NoneLeft
<1>3. \A r \in Requests : uploading'[r] = MD!Idle \/ uploading'[r] \in MediaCalls
  BY <1>1
<1>4. \A r \in Requests : uploading'[r] # MD!Idle => MediaKnows(uploading[r])'
  BY <1>1, <1>2
<1>5. \A r \in Requests : uploading'[r] # MD!Idle =>
        uploading[r] # MD!Idle /\ uploading'[r].op = uploading[r].op
  OBVIOUS
<1>6. \A p, r \in Requests : p # r /\ uploading'[p] # MD!Idle /\ uploading'[r] # MD!Idle
        => ~solo' /\ "upload" \notin {uploading'[p].op, uploading'[r].op}
  BY <1>5 DEF MediaInv
<1>7. solo => \A r \in Requests : r # q => uploading'[r] = MD!Idle
  BY <1>5 DEF MediaInv
<1> QED BY <1>3, <1>4, <1>6, <1>7 DEF MediaCallsSound

LEMMA MediaMoves == ASSUME MediaInv, NEW q \in Requests, NEW new, uploading[q] # MD!Idle,
        uploading[q].op # "upload", UNCHANGED <<solo, uploaded>>, missing => missing',
        object' \cap MD!Public \subseteq object, uploading' = [uploading EXCEPT ![q] = new],
        new = MD!Idle \/ (new \in MediaCalls /\ new.op = uploading[q].op),
        new # MD!Idle => MediaKnows(new)'
  PROVE /\ MediaCallsSound' /\ uploading'[q] = new
        /\ solo => \A r \in Requests : r # q => uploading'[r] = MD!Idle
<1>1. /\ DOMAIN uploading' = Requests /\ uploading'[q] = new
      /\ \A r \in Requests : r # q => uploading'[r] = uploading[r]
  BY DEF MediaInv, MediaTyped
<1>2. new # MD!Idle => MediaKnows(uploading[q])'
  BY <1>1
<1>3. \A r \in Requests :
            \/ uploading'[r] = uploading[r] \/ uploading'[r] = MD!Idle
            \/ /\ uploading[r] # MD!Idle /\ uploading'[r] \in MediaCalls
               /\ uploading'[r].op = uploading[r].op
               /\ MediaKnows(uploading[r])'
  BY <1>1, <1>2
<1> QED BY <1>1, <1>3, MediaShares

LEMMA MediaUploads == ASSUME MediaInv, NEW q \in Requests, NEW new, uploading[q] # MD!Idle,
        uploading[q].op = "upload", UNCHANGED <<solo, uploaded>>,
        uploading' = [uploading EXCEPT ![q] = new],
        new = MD!Idle \/ (new \in MediaCalls /\ new.op = "upload"),
        new # MD!Idle => MediaKnows(new)'
  PROVE /\ MediaCallsSound' /\ uploading'[q] = new
        /\ \A r \in Requests : r # q => uploading'[r] = MD!Idle
<1>1. /\ DOMAIN uploading' = Requests /\ uploading'[q] = new
      /\ \A r \in Requests : r # q => uploading'[r] = uploading[r]
  BY DEF MediaInv, MediaTyped
<1>2. \A r \in Requests : r # q => uploading[r] = MD!Idle
  BY DEF MediaInv
<1>3. \A r \in Requests : uploading'[r] # MD!Idle => MediaKnows(uploading[r])'
  BY <1>1, <1>2
<1> QED BY <1>1, <1>2, <1>3 DEF MediaCallsSound

LEMMA MediaBegins == ASSUME MediaInv, NEW q \in Requests, NEW new \in MediaCalls,
        MD!Begin(q, new), UNCHANGED <<solo, missing>>, MediaKnows(new)',
        \/ /\ uploaded /\ UNCHANGED <<object, uploaded>>
           /\ new.op # "upload" /\ (media # MD!NoRow \/ \E s \in Documents : document[s] # "none")
        \/ ~uploaded
  PROVE /\ MediaCallsSound' /\ uploading'[q] = new
        /\ ~uploaded \/ solo => \A r \in Requests : r # q => uploading'[r] = MD!Idle
        /\ solo => \A r \in Requests : uploading[r] = MD!Idle
<1>1. /\ DOMAIN uploading' = Requests /\ uploading'[q] = new
      /\ \A r \in Requests : r # q => uploading'[r] = uploading[r]
  BY DEF MediaInv, MediaTyped, MD!Begin
<1>2. solo => \A r \in Requests : uploading[r] = MD!Idle
  BY DEF MD!Begin, MD!Free
<1>3. ~uploaded => \A r \in Requests : uploading[r] = MD!Idle
  BY DEF MediaInv
<1>4. ASSUME uploaded, NEW r \in Requests, r # q, uploading[r] # MD!Idle
      PROVE uploading[r] \in MediaCalls /\ uploading[r].op # "upload" /\ MediaKnows(uploading[r])
  <2>1. uploading[r] \in MediaCalls /\ MediaKnows(uploading[r])
    BY <1>4 DEF MediaInv, MediaTyped
  <2>2. ~Unnamed
    BY <1>4 DEF Unnamed
  <2> QED BY <2>1, <2>2 DEF MediaKnows
<1>5. ASSUME uploaded, NEW c \in MediaCalls, c.op # "upload", MediaKnows(c) PROVE MediaKnows(c)'
  BY <1>5 DEF MediaKnows, OneLeft, NoneLeft
<1>6. MediaKnows(uploading[q])'
  BY <1>1
<1>7. \A r \in Requests : uploading'[r] # MD!Idle => MediaKnows(uploading[r])'
  BY <1>1, <1>3, <1>4, <1>5, <1>6
<1>8. \A r \in Requests : uploading'[r] = MD!Idle \/ uploading'[r] \in MediaCalls
  BY <1>1 DEF MediaInv, MediaTyped
<1>9. \A p, r \in Requests : p # r /\ uploading'[p] # MD!Idle /\ uploading'[r] # MD!Idle
        => ~solo' /\ "upload" \notin {uploading'[p].op, uploading'[r].op}
  BY <1>1, <1>2, <1>3, <1>4 DEF MediaInv
<1> QED BY <1>1, <1>2, <1>3, <1>7, <1>8, <1>9 DEF MediaCallsSound

\* The rows and objects agree.
MediaData ==
    /\ object \subseteq Addresses /\ media \in MediaRow
    /\ document \in [Documents -> {"none", "private", "optimized"}]
    /\ ~uploaded => Unnamed /\ \A q \in Requests : uploading[q] = MD!Idle
    /\ media # MD!NoRow /\ media.url # "private" /\ ~media.variants => OneLeft(media.url)
    /\ media.url = "private" => NoneLeft
    /\ MD!NoPublicCopy

LEMMA MediaJoins == ASSUME NEW q \in Requests, NEW new, MediaCallsSound', MediaData',
        uploading'[q] = new,
        solo' => \A r \in Requests : r # q => uploading'[r] = MD!Idle,
        solo' /\ ~stopped' /\ new # MD!Idle => MediaAlone(new)',
        solo' /\ ~stopped' /\ new = MD!Idle => MediaKept'
  PROVE MediaInv'
<1>1. (solo /\ ~stopped =>
         /\ \A r \in Requests : uploading[r] # MD!Idle => MediaAlone(uploading[r])
         /\ (\A r \in Requests : uploading[r] = MD!Idle) => MediaKept)'
  <2>1. SUFFICES ASSUME solo', ~stopped'
        PROVE /\ \A r \in Requests : uploading'[r] # MD!Idle => MediaAlone(uploading[r])'
              /\ (\A r \in Requests : uploading'[r] = MD!Idle) => MediaKept'
    OBVIOUS
  <2>2. ASSUME NEW r \in Requests, uploading'[r] # MD!Idle PROVE MediaAlone(uploading[r])'
    <3>1. r = q
      BY <2>1, <2>2
    <3>2. MediaAlone(uploading[q])'
      BY <2>1, <2>2, <3>1
    <3> QED BY <3>1, <3>2
  <2> QED BY <2>1, <2>2
<1> QED BY <1>1 DEF MediaInv, MediaTyped, MediaCallsSound, MediaData

LEMMA MediaUpload == ASSUME MediaInv, NEW q \in Requests, MD!Upload(q), UNCHANGED solo
  PROVE MediaInv'
<1>1. PICK image \in BOOLEAN, webp \in BOOLEAN :
         /\ webp => image
         /\ object' = {MD!First(webp)}
         /\ MD!Begin(q, [op |-> "upload", pc |-> IF image THEN "optimize" ELSE "insert",
                      url |-> MD!First(webp), variants |-> FALSE])
  BY Zenon DEF MD!Upload
<1>2. /\ ~uploaded /\ uploaded' /\ UNCHANGED <<s3, media, document, moving, missing, stopped>>
  BY DEF MD!Upload
<1>3. MD!First(webp) \in MD!Public
  BY DEF MD!First, MD!Public
<1>4. PICK new : new = [op |-> "upload", pc |-> IF image THEN "optimize" ELSE "insert",
                      url |-> MD!First(webp), variants |-> FALSE]
  BY Zenon
<1>5. new \in UploadCall
  BY <1>3, <1>4 DEF UploadCall
<1>6. Unnamed /\ Unnamed'
  BY <1>2 DEF MediaInv, Unnamed
<1>7. MediaKnows(new)'
  BY <1>1, <1>2, <1>3, <1>4, <1>6 DEF MediaKnows, OneLeft
<1>8. /\ MediaCallsSound' /\ uploading'[q] = new
      /\ \A r \in Requests : r # q => uploading'[r] = MD!Idle
  BY <1>1, <1>2, <1>4, <1>5, <1>7, MediaBegins, Zenon DEF MediaCalls
<1>9. MediaData'
  BY <1>1, <1>2, <1>3, <1>6 DEF MediaData, MediaInv, MediaTyped, Unnamed, MD!NoPublicCopy, MD!NoRow, Addresses
<1>10. MediaAlone(new)' /\ new # MD!Idle
  BY <1>1, <1>4 DEF MediaAlone, MD!Idle
<1> QED BY <1>8, <1>9, <1>10, MediaJoins

\* A step of the upload before its row: nothing names the file yet.
LEMMA MediaUploadStep == ASSUME MediaInv, NEW q \in Requests, uploading[q].op = "upload",
        UNCHANGED <<solo, uploaded, media, document>>, object' \subseteq Addresses,
        NEW new \in UploadCall, uploading' = [uploading EXCEPT ![q] = new],
        new.pc # "optimize", new.pc = "insert" /\ ~new.variants => OneLeft(new.url)',
        solo /\ ~stopped' => MediaAlone(new)'
  PROVE MediaInv'
<1>1. uploading[q] # MD!Idle /\ uploading[q] \in MediaCalls /\ MediaKnows(uploading[q])
  BY DEF MediaInv, MediaTyped, MD!Idle
<1>2. Unnamed /\ Unnamed' /\ uploaded
  BY <1>1 DEF MediaKnows, Unnamed
<1>3. MediaKnows(new)' /\ new # MD!Idle /\ new \in MediaCalls /\ new.op = "upload"
  BY <1>2 DEF MediaKnows, UploadCall, MD!Idle, MediaCalls
<1>4. /\ MediaCallsSound' /\ uploading'[q] = new
      /\ \A r \in Requests : r # q => uploading'[r] = MD!Idle
  BY <1>1, <1>3, MediaUploads, Zenon
<1>5. MediaData'
  BY <1>2 DEF MediaData, MediaInv, MediaTyped, Unnamed, MD!NoPublicCopy, MD!NoRow
<1> QED BY <1>3, <1>4, <1>5, MediaJoins

LEMMA MediaUploadKnows == ASSUME MediaInv, NEW q \in Requests, uploading[q].op = "upload"
  PROVE /\ uploading[q] \in UploadCall /\ uploading[q] # MD!Idle /\ uploaded /\ Unnamed
        /\ uploading[q].pc = "optimize" => ~uploading[q].variants
        /\ uploading[q].pc \in {"optimize", "insert"} /\ ~uploading[q].variants
             => OneLeft(uploading[q].url)
        /\ solo /\ ~stopped => MediaAlone(uploading[q])
        /\ object \subseteq Addresses
<1>1. uploading[q] # MD!Idle
  BY DEF MD!Idle
<1>2. uploading[q] \in MediaCalls /\ MediaKnows(uploading[q])
  BY <1>1 DEF MediaInv, MediaTyped
<1>3. uploading[q] \in UploadCall
  BY <1>2, MediaCallIs
<1> QED BY <1>1, <1>2, <1>3 DEF MediaInv, MediaTyped, MediaKnows

LEMMA MediaStoreOptimized == ASSUME MediaInv, NEW q \in Requests,
        MD!At(q, "upload", "optimize"), MD!StoreOptimized(q), UNCHANGED solo
  PROVE MediaInv'
<1>1. uploading[q].op = "upload"
  BY DEF MD!At
<1>2. PICK new : new = [uploading[q] EXCEPT !.pc = "preset"]
  BY Zenon
<1>3. new \in UploadCall /\ new.pc = "preset" /\ new.op = "upload" /\ new.url = uploading[q].url
  BY <1>1, <1>2, MediaUploadKnows DEF UploadCall
<1>4. uploading' = [uploading EXCEPT ![q] = new]
  BY <1>2 DEF MD!StoreOptimized, MD!Go
<1>5. object' = object \cup {"optimized"} /\ UNCHANGED <<uploaded, media, document, stopped>>
  BY DEF MD!StoreOptimized
<1>6. object' \subseteq Addresses
  BY <1>1, <1>5, MediaUploadKnows DEF Addresses, MD!Public
<1>7. solo /\ ~stopped' => MediaAlone(new)'
  BY <1>1, <1>3, <1>5, MediaUploadKnows DEF MediaAlone
<1> QED BY <1>1, <1>3, <1>4, <1>5, <1>6, <1>7, MediaUploadStep, Zenon

LEMMA MediaStorePresets == ASSUME MediaInv, NEW q \in Requests,
        MD!At(q, "upload", "preset"), MD!StorePresets(q), UNCHANGED solo
  PROVE MediaInv'
<1>1. uploading[q].op = "upload" /\ uploading[q].pc = "preset"
  BY DEF MD!At
<1>2. PICK new : new = [uploading[q] EXCEPT !.pc = "drop"]
  BY Zenon
<1>3. new \in UploadCall /\ new.pc = "drop" /\ new.op = "upload" /\ new.url = uploading[q].url
  BY <1>1, <1>2, MediaUploadKnows DEF UploadCall
<1>4. uploading' = [uploading EXCEPT ![q] = new]
  BY <1>2 DEF MD!StorePresets, MD!Go
<1>5. object' = object \cup {"preset"} /\ UNCHANGED <<uploaded, media, document, stopped>>
  BY DEF MD!StorePresets
<1>6. object' \subseteq Addresses
  BY <1>1, <1>5, MediaUploadKnows DEF Addresses, MD!Public
<1>7. solo /\ ~stopped' => MediaAlone(new)'
  BY <1>1, <1>3, <1>5, MediaUploadKnows DEF MediaAlone
<1> QED BY <1>1, <1>3, <1>4, <1>5, <1>6, <1>7, MediaUploadStep, Zenon

LEMMA MediaDropOriginal == ASSUME MediaInv, NEW q \in Requests,
        MD!At(q, "upload", "drop"), MD!DropOriginal(q), UNCHANGED solo
  PROVE MediaInv'
<1>1. uploading[q].op = "upload" /\ uploading[q].pc = "drop"
  BY DEF MD!At
<1>2. PICK new : new = [op |-> "upload", pc |-> "insert", url |-> "optimized", variants |-> TRUE]
  BY Zenon
<1>3. new \in UploadCall
  BY <1>2 DEF UploadCall, MD!Public
<1>4. uploading' = [uploading EXCEPT ![q] = new]
  BY <1>2 DEF MD!DropOriginal
<1>5. /\ object' \in {object, object \ ({uploading[q].url} \ {"optimized"})}
      /\ UNCHANGED <<uploaded, media, document, stopped>>
  BY DEF MD!DropOriginal
<1>6. object' \subseteq Addresses
  BY <1>1, <1>5, MediaUploadKnows
<1>7. solo /\ ~stopped' => MediaAlone(new)'
  BY <1>1, <1>2, <1>5, MediaUploadKnows DEF MediaAlone
<1> QED BY <1>1, <1>2, <1>3, <1>4, <1>5, <1>6, <1>7, MediaUploadStep, Zenon

LEMMA MediaOptimizeFails == ASSUME MediaInv, NEW q \in Requests, MD!OptimizeFails(q), UNCHANGED solo
  PROVE MediaInv'
<1>1. uploading[q].op = "upload" /\ uploading[q].pc \in {"optimize", "preset", "drop"}
  BY DEF MD!OptimizeFails
<1>2. PICK new : new = [uploading[q] EXCEPT !.pc = "insert", !.variants = uploading[q].pc = "drop"]
  OBVIOUS
<1>3. /\ new \in UploadCall /\ new.pc = "insert" /\ new.op = "upload" /\ new.url = uploading[q].url
      /\ new.variants = (uploading[q].pc = "drop")
  BY <1>1, <1>2, MediaUploadKnows, Zenon DEF UploadCall
<1>4. uploading' = [uploading EXCEPT ![q] = new]
  BY <1>2 DEF MD!OptimizeFails
<1>5. UNCHANGED <<object, uploaded, media, document, stopped>>
  BY DEF MD!OptimizeFails
<1>6. missing' = (missing \/ uploading[q].pc = "preset")
  BY DEF MD!OptimizeFails
<1>7. ~new.variants => OneLeft(new.url)'
  BY <1>1, <1>3, <1>5, <1>6, MediaUploadKnows, Zenon DEF OneLeft
<1>8. solo /\ ~stopped' => MediaAlone(new)'
  BY <1>1, <1>3, <1>5, MediaUploadKnows DEF MediaAlone
<1>9. object' \subseteq Addresses
  BY <1>1, <1>5, MediaUploadKnows
<1> QED BY <1>1, <1>3, <1>4, <1>5, <1>7, <1>8, <1>9, MediaUploadStep, Zenon

LEMMA MediaInsertRow == ASSUME MediaInv, NEW q \in Requests,
        MD!At(q, "upload", "insert"), MD!InsertRow(q), UNCHANGED solo
  PROVE MediaInv'
<1>1. uploading[q].op = "upload" /\ uploading[q].pc = "insert"
  BY DEF MD!At
<1>2. PICK new : new = [url |-> uploading[q].url, variants |-> uploading[q].variants,
                        visibility |-> "tenant"]
  BY Zenon
<1>3. /\ media' = new /\ uploading' = [uploading EXCEPT ![q] = MD!Idle]
      /\ UNCHANGED <<object, document, uploaded, missing, stopped>>
  BY <1>2 DEF MD!InsertRow, MD!End
<1>4. /\ new.url \in MD!Public /\ new.variants \in BOOLEAN /\ new.visibility = "tenant"
      /\ new \in MediaRow /\ new.url # "private" /\ new.url \in Addresses
  BY <1>1, <1>2, MediaUploadKnows DEF UploadCall, MediaRow, Addresses, MD!Public
<1>5. /\ MediaCallsSound' /\ uploading'[q] = MD!Idle
      /\ \A r \in Requests : r # q => uploading'[r] = MD!Idle
  BY <1>1, <1>3, MediaUploadKnows, MediaUploads, Zenon
<1>6. ~new.variants => OneLeft(new.url)'
  BY <1>1, <1>2, <1>3, MediaUploadKnows DEF OneLeft
<1>7. \A s \in Documents : document'[s] = "none"
  BY <1>1, <1>3, MediaUploadKnows DEF Unnamed
<1>8. MediaData'
  <2>1. object' \subseteq Addresses /\ document' \in [Documents -> {"none", "private", "optimized"}]
    BY <1>3 DEF MediaInv, MediaTyped
  <2>2. uploaded'
    BY <1>1, <1>3, MediaUploadKnows
  <2>3. MD!NoPublicCopy'
    BY <1>7 DEF MD!NoPublicCopy
  <2>4. (media.url = "private" => NoneLeft)' /\ (~media.variants => OneLeft(media.url))'
    BY <1>3, <1>4, <1>6
  <2> QED BY <1>3, <1>4, <2>1, <2>2, <2>3, <2>4 DEF MediaData
<1>9. solo /\ ~stopped' => MediaKept'
  <2>1. solo /\ ~stopped' => new.url \in object
    BY <1>1, <1>2, <1>3, MediaUploadKnows DEF MediaAlone
  <2> QED BY <1>3, <1>4, <1>7, <2>1 DEF MediaKept, Named
<1> QED BY <1>5, <1>8, <1>9, MediaJoins

LEMMA MediaShrinks == ASSUME MediaInv, UNCHANGED <<media, document, uploaded>>, missing => missing',
        uploaded, object' \subseteq Addresses, object' \cap MD!Public \subseteq object
  PROVE MediaData'
<1>1. /\ document \in [Documents -> {"none", "private", "optimized"}] /\ media \in MediaRow
      /\ media # MD!NoRow /\ media.url # "private" /\ ~media.variants => OneLeft(media.url)
      /\ media.url = "private" => NoneLeft
      /\ MD!NoPublicCopy
  BY DEF MediaInv, MediaTyped
<1>2. \A url : OneLeft(url) => OneLeft(url)'
  BY DEF OneLeft
<1>3. NoneLeft => NoneLeft'
  BY DEF NoneLeft
<1>4. MD!NoPublicCopy'
  BY <1>1 DEF MD!NoPublicCopy
<1> QED BY <1>1, <1>2, <1>3, <1>4 DEF MediaData

LEMMA MediaKnown == ASSUME MediaInv, NEW q \in Requests, uploading[q] # MD!Idle
  PROVE /\ uploading[q] \in MediaCalls /\ MediaKnows(uploading[q]) /\ uploaded
        /\ solo /\ ~stopped => MediaAlone(uploading[q])
        /\ object \subseteq Addresses
<1> QED BY DEF MediaInv, MediaTyped, MediaKnows

LEMMA MediaReadForDelete == ASSUME MediaInv, NEW q \in Requests,
        MD!ReadForDelete(q), UNCHANGED solo
  PROVE MediaInv'
<1>1. PICK new : new = [op |-> "delete", pc |-> "object", url |-> media.url,
                 variants |-> media.variants]
  BY Zenon
<1>2. /\ media # MD!NoRow
      /\ media.url = "private" => \A s \in Documents : document[s] # "private"
      /\ MD!Begin(q, new)
      /\ UNCHANGED <<s3, object, media, document, moving, uploaded, missing, stopped>>
  BY <1>1 DEF MD!ReadForDelete, MD!Exists, MD!mediaVars
<1>3. uploaded /\ media.url \in Addresses /\ media.variants \in BOOLEAN
  BY <1>2 DEF MediaInv, MediaTyped, MediaRow, Unnamed
<1>4. new \in DeleteCall /\ new # MD!Idle /\ new.op = "delete"
  BY <1>1, <1>3 DEF DeleteCall, MD!Idle
<1>5. MediaKnows(new)'
  BY <1>2, <1>3, <1>4 DEF MediaKnows
<1>6. /\ MediaCallsSound' /\ uploading'[q] = new
      /\ solo => \A r \in Requests : r # q => uploading'[r] = MD!Idle
      /\ solo => \A r \in Requests : uploading[r] = MD!Idle
  BY <1>2, <1>3, <1>4, <1>5, MediaBegins DEF MediaCalls
<1>7. MediaData'
  BY <1>2, <1>3, MediaShrinks DEF MediaInv, MediaTyped
<1>8. solo /\ ~stopped' => MediaAlone(new)'
  <2>1. solo /\ ~stopped => MediaKept
    BY <1>6 DEF MediaInv
  <2>2. solo /\ ~stopped => \A s \in Documents : document[s] # "private"
    BY <1>2, <2>1 DEF MediaKept, Named
  <2> QED BY <1>2, <1>4, <2>2 DEF MediaAlone
<1> QED BY <1>4, <1>6, <1>7, <1>8, MediaJoins

\* A step of a deletion that leaves the row.
LEMMA MediaDeleteStep == ASSUME MediaInv, NEW q \in Requests, uploading[q].op = "delete",
        UNCHANGED <<solo, uploaded, media, document, stopped>>, missing => missing',
        object' \subseteq object,
        NEW at \in {"variants", "row"}, MD!Go(q, at)
  PROVE MediaInv'
<1>1. uploading[q] # MD!Idle
  BY DEF MD!Idle
<1>2. uploading[q] \in DeleteCall
  BY <1>1, MediaKnown, MediaCallIs
<1>3. PICK new : new = [uploading[q] EXCEPT !.pc = at]
  BY Zenon
<1>4. /\ new \in DeleteCall /\ new.op = "delete" /\ new # MD!Idle
      /\ uploading' = [uploading EXCEPT ![q] = new]
  BY <1>2, <1>3 DEF DeleteCall, MD!Go, MD!Idle
<1>5. MediaKnows(new)'
  BY <1>1, <1>4, MediaKnown DEF MediaKnows
<1>6. /\ MediaCallsSound' /\ uploading'[q] = new
      /\ solo => \A r \in Requests : r # q => uploading'[r] = MD!Idle
  BY <1>1, <1>4, <1>5, MediaMoves, Zenon DEF MediaCalls
<1>7. MediaData'
  BY <1>1, MediaKnown, MediaShrinks
<1>8. solo /\ ~stopped' => MediaAlone(new)'
  BY <1>1, <1>4, MediaKnown DEF MediaAlone
<1> QED BY <1>4, <1>6, <1>7, <1>8, MediaJoins

LEMMA MediaRemoves == ASSUME NEW objects, MD!Delete(objects)
  PROVE /\ object' \subseteq object /\ (missing => missing')
        /\ \A o : o \notin objects => (o \in object <=> o \in object')
        /\ ~missing' => object' = object \ objects
  BY DEF MD!Delete

LEMMA MediaDeleteObject == ASSUME MediaInv, NEW q \in Requests,
        MD!At(q, "delete", "object"), MD!DeleteObject(q), UNCHANGED solo
  PROVE MediaInv'
<1>1. PICK at \in {"variants", "row"} : MD!Go(q, at)
  BY DEF MD!DeleteObject
<1>2. MD!Delete({uploading[q].url}) /\ UNCHANGED <<media, document, uploaded, stopped>>
  BY DEF MD!DeleteObject
<1> QED BY <1>1, <1>2, MediaRemoves, MediaDeleteStep DEF MD!At

LEMMA MediaDeleteVariants == ASSUME MediaInv, NEW q \in Requests,
        MD!At(q, "delete", "variants"), MD!DeleteVariants(q), UNCHANGED solo
  PROVE MediaInv'
<1>1. MD!Delete(MD!Public) /\ MD!Go(q, "row") /\ UNCHANGED <<media, document, uploaded, stopped>>
  BY DEF MD!DeleteVariants
<1> QED BY <1>1, MediaRemoves, MediaDeleteStep DEF MD!At

LEMMA MediaDeleteRow == ASSUME MediaInv, NEW q \in Requests,
        MD!At(q, "delete", "row"), MD!DeleteRow(q), UNCHANGED solo
  PROVE MediaInv'
<1>1. uploading[q] # MD!Idle /\ uploading[q].op = "delete"
  BY DEF MD!At, MD!Idle
<1>2. /\ media' = MD!NoRow /\ uploading' = [uploading EXCEPT ![q] = MD!Idle]
      /\ UNCHANGED <<object, document, uploaded, missing, stopped>>
  BY DEF MD!DeleteRow, MD!End
<1>3. /\ MediaCallsSound' /\ uploading'[q] = MD!Idle
      /\ solo => \A r \in Requests : r # q => uploading'[r] = MD!Idle
  BY <1>1, <1>2, MediaMoves, Zenon
<1>4. MediaData'
  <2>1. media' \in MediaRow /\ media'.url # "private"
    BY <1>2 DEF MediaRow, MD!NoRow
  <2>2. MD!NoPublicCopy'
    BY <1>2 DEF MediaInv, MD!NoPublicCopy
  <2> QED BY <1>1, <1>2, <2>1, <2>2, MediaKnown DEF MediaInv, MediaTyped, MediaData
<1>5. solo /\ ~stopped' => MediaKept'
  BY <1>1, <1>2, MediaKnown DEF MediaKept, MediaAlone, MD!NoRow
<1> QED BY <1>3, <1>4, <1>5, MediaJoins

LEMMA MediaReadForUpdate == ASSUME MediaInv, NEW q \in Requests,
        MD!ReadForUpdate(q), UNCHANGED solo
  PROVE MediaInv'
<1>1. PICK v \in {"public", "private"} :
         /\ media.url = "private" => v = "private"
         /\ MD!Begin(q, [op |-> "update", pc |-> "write", visibility |-> v])
  BY DEF MD!ReadForUpdate
<1>2. PICK new : new = [op |-> "update", pc |-> "write", visibility |-> v]
  BY Zenon
<1>3. /\ media # MD!NoRow /\ MD!Begin(q, new)
      /\ UNCHANGED <<s3, object, media, document, moving, uploaded, missing, stopped>>
  BY <1>1, <1>2 DEF MD!ReadForUpdate, MD!Exists, MD!mediaVars
<1>4. uploaded
  BY <1>3 DEF MediaInv, Unnamed
<1>5. new \in UpdateCall /\ new # MD!Idle /\ new.op = "update" /\ new.visibility = v
  BY <1>2 DEF UpdateCall, MD!Idle
<1>6. MediaKnows(new)'
  BY <1>3, <1>4, <1>5 DEF MediaKnows
<1>7. /\ MediaCallsSound' /\ uploading'[q] = new
      /\ solo => \A r \in Requests : r # q => uploading'[r] = MD!Idle
      /\ solo => \A r \in Requests : uploading[r] = MD!Idle
  BY <1>3, <1>4, <1>5, <1>6, MediaBegins DEF MediaCalls
<1>8. MediaData'
  BY <1>3, <1>4, MediaShrinks DEF MediaInv, MediaTyped
<1>9. solo /\ ~stopped' => MediaAlone(new)'
  <2>1. solo /\ ~stopped => MediaKept
    BY <1>7 DEF MediaInv
  <2>2. MediaKept => MediaKept'
    BY <1>3 DEF MediaKept, Named
  <2> QED BY <1>1, <1>3, <1>5, <2>1, <2>2 DEF MediaAlone
<1> QED BY <1>5, <1>7, <1>8, <1>9, MediaJoins

LEMMA MediaUpdateVisibility == ASSUME MediaInv, NEW q \in Requests,
        MD!At(q, "update", "write"), MD!UpdateVisibility(q), UNCHANGED solo
  PROVE MediaInv'
<1>1. uploading[q] # MD!Idle /\ uploading[q].op = "update"
  BY DEF MD!At, MD!Idle
<1>2. PICK v : v = uploading[q].visibility
  OBVIOUS
<1>3. v \in {"public", "private"}
  BY <1>1, <1>2, MediaKnown, MediaCallIs DEF UpdateCall
<1>4. /\ media' = IF media # MD!NoRow THEN [media EXCEPT !.visibility = v] ELSE media
      /\ uploading' = [uploading EXCEPT ![q] = MD!Idle]
      /\ UNCHANGED <<object, document, uploaded, missing, stopped>>
  BY <1>2 DEF MD!UpdateVisibility, MD!End, MD!Exists
<1>5. media \in MediaRow
  BY DEF MediaInv, MediaTyped
<1>6. /\ media' \in MediaRow /\ media'.url = media.url /\ media'.variants = media.variants
      /\ media # MD!NoRow => media'.visibility = v
      /\ media = MD!NoRow => media' = MD!NoRow
  <2>1. CASE media = MD!NoRow
    BY <1>4, <1>5, <2>1
  <2>2. CASE media # MD!NoRow
    <3>1. media \in [url : Addresses, variants : BOOLEAN, visibility : {"tenant", "public", "private"}]
      BY <1>5, <2>2 DEF MediaRow
    <3>2. /\ media' \in [url : Addresses, variants : BOOLEAN, visibility : {"tenant", "public", "private"}]
          /\ media'.url = media.url /\ media'.variants = media.variants
          /\ media'.visibility = v
      BY <1>3, <1>4, <2>2, <3>1
    <3> QED BY <2>2, <3>2 DEF MediaRow
  <2> QED BY <2>1, <2>2
<1>7. /\ MediaCallsSound' /\ uploading'[q] = MD!Idle
      /\ solo => \A r \in Requests : r # q => uploading'[r] = MD!Idle
  BY <1>1, <1>4, MediaMoves, Zenon
<1>8. MediaData'
  <2>1. MD!NoPublicCopy'
    BY <1>4 DEF MediaInv, MD!NoPublicCopy
  <2>2. (media # MD!NoRow /\ media.url # "private" /\ ~media.variants => OneLeft(media.url))'
    BY <1>4, <1>6 DEF MediaInv, OneLeft
  <2>3. (media.url = "private" => NoneLeft)'
    BY <1>4, <1>6 DEF MediaInv, NoneLeft
  <2> QED BY <1>1, <1>4, <1>6, <2>1, <2>2, <2>3, MediaKnown DEF MediaInv, MediaTyped, MediaData
<1>9. solo /\ ~stopped' => MediaKept'
  <2>1. solo /\ ~stopped => MediaKept /\ media # MD!NoRow /\ (media.url = "private" => v = "private")
    BY <1>1, <1>2, MediaKnown DEF MediaAlone
  <2> QED BY <1>4, <1>6, <2>1 DEF MediaKept, Named
<1> QED BY <1>7, <1>8, <1>9, MediaJoins

LEMMA MediaWant == ASSUME MediaInv, NEW q \in Requests, NEW op \in {"submit", "open"},
        NEW s \in Documents, media # MD!NoRow, MD!Want(q, op, s),
        UNCHANGED <<solo, s3, object, media, document, moving, uploaded, missing, stopped>>
  PROVE MediaInv'
<1>1. PICK new : new = [op |-> op, id |-> s, url |-> media.url, variants |-> media.variants,
              pc |-> IF media.url = "private" THEN "record" ELSE "move"]
  BY Zenon
<1>2. MD!Begin(q, new)
  BY <1>1 DEF MD!Want
<1>3. uploaded /\ media.url \in Addresses /\ media.variants \in BOOLEAN
  BY DEF MediaInv, MediaTyped, MediaRow, Unnamed
<1>4. /\ new \in MoveCall /\ new # MD!Idle /\ new.op \in {"submit", "open"} /\ new.url = media.url
      /\ new.variants = media.variants /\ new.op # "upload" /\ new.op # "delete" /\ new.op # "update"
      /\ new.pc = IF media.url = "private" THEN "record" ELSE "move"
  BY <1>1, <1>3 DEF MoveCall, MD!Idle
<1>5. MediaKnows(new)'
  BY <1>3, <1>4 DEF MediaKnows, MediaInv, OneLeft, NoneLeft, Addresses
<1>6. /\ MediaCallsSound' /\ uploading'[q] = new
      /\ solo => \A r \in Requests : r # q => uploading'[r] = MD!Idle
      /\ solo => \A r \in Requests : uploading[r] = MD!Idle
  BY <1>2, <1>3, <1>4, <1>5, MediaBegins DEF MediaCalls
<1>7. MediaData'
  BY <1>3, MediaShrinks DEF MediaInv, MediaTyped
<1>8. solo /\ ~stopped' => MediaAlone(new)'
  <2>1. solo /\ ~stopped => MediaKept
    BY <1>6 DEF MediaInv
  <2>2. MediaKept => MediaKept' /\ Named(media.url)'
    BY DEF MediaKept, Named
  <2> QED BY <1>4, <2>1, <2>2 DEF MediaAlone, MediaKept
<1> QED BY <1>4, <1>6, <1>7, <1>8, MediaJoins

LEMMA MediaSubmit == ASSUME MediaInv, NEW q \in Requests, NEW s \in Documents,
        MD!SubmitDocument(q, s) \/ MD!OpenDocument(q, s), UNCHANGED solo
  PROVE MediaInv'
<1>1. media # MD!NoRow
  BY DEF MD!SubmitDocument, MD!OpenDocument, MD!Exists, MediaInv, MediaTyped, MD!NoRow
<1>2. /\ UNCHANGED <<s3, object, media, document, moving, uploaded, missing, stopped>>
      /\ MD!Want(q, "submit", s) \/ MD!Want(q, "open", s)
  BY DEF MD!SubmitDocument, MD!OpenDocument, MD!mediaVars
<1> QED BY <1>1, <1>2, MediaWant

\* What a request that moves the file knows of it.
LEMMA MediaMover == ASSUME MediaInv, NEW q \in Requests, MD!Moves(uploading[q].op)
  PROVE /\ uploading[q] # MD!Idle /\ uploading[q].op # "upload" /\ uploaded
        /\ uploading[q].op \in {"submit", "open"}
        /\ uploading[q] \in MoveCall /\ uploading[q] \in MediaCalls
        /\ MediaKnows(uploading[q]) /\ object \subseteq Addresses
        /\ solo /\ ~stopped => MediaAlone(uploading[q])
<1>1. uploading[q].op \in {"submit", "open"} /\ uploading[q] # MD!Idle
  BY DEF MD!Moves, MD!Idle
<1> QED BY <1>1, MediaKnown, MediaCallIs

LEMMA MediaGoes == ASSUME MediaInv, NEW q \in Requests, MD!Moves(uploading[q].op),
        NEW at \in {"record", "move", "wait", "copy", "unlink", "variants", "row", "prior"},
        MD!Go(q, at), UNCHANGED <<solo, uploaded, document, stopped>>, missing => missing',
        object' \cap MD!Public \subseteq object, object' \subseteq Addresses,
        NEW new, new = [uploading[q] EXCEPT !.pc = at], MediaKnows(new)',
        solo /\ ~stopped => MediaAlone(new)',
        media' = media \/ MediaData'
  PROVE MediaInv'
<1>1. new \in MoveCall /\ new # MD!Idle /\ new.op = uploading[q].op
  BY MediaMover DEF MoveCall, MD!Idle
<1>2. uploading' = [uploading EXCEPT ![q] = new]
  BY DEF MD!Go
<1>3. /\ MediaCallsSound' /\ uploading'[q] = new
      /\ solo => \A r \in Requests : r # q => uploading'[r] = MD!Idle
  BY <1>1, <1>2, MediaMover, MediaMoves, Zenon DEF MediaCalls
<1>4. MediaData'
  BY MediaMover, MediaShrinks
<1> QED BY <1>1, <1>3, <1>4, MediaJoins

LEMMA MediaEnds == ASSUME MediaInv, NEW q \in Requests, MD!Moves(uploading[q].op),
        NEW well \in BOOLEAN, MD!MoveEnds(q, well), UNCHANGED <<solo, uploaded, missing>>,
        object' \subseteq object, well => NoneLeft
  PROVE /\ MediaCallsSound'
        /\ solo => \A r \in Requests : r # q => uploading'[r] = MD!Idle
        /\ ~well => uploading'[q] = MD!Idle
        /\ well => uploading'[q] = [uploading[q] EXCEPT !.pc = "record"]
<1>1. DOMAIN uploading' = Requests
  BY DEF MD!MoveEnds
<1>2. \A r \in Requests : uploading'[r] = uploading[r] \/ uploading'[r] = MD!Idle
        \/ (well /\ MD!Moves(uploading[r].op) /\ uploading'[r] = [uploading[r] EXCEPT !.pc = "record"])
  BY DEF MD!MoveEnds, MD!Moves
<1>3. ASSUME NEW r \in Requests, well, MD!Moves(uploading[r].op),
             uploading'[r] = [uploading[r] EXCEPT !.pc = "record"]
      PROVE /\ uploading[r] # MD!Idle /\ uploading'[r] \in MediaCalls
            /\ uploading'[r].op = uploading[r].op
            /\ MediaKnows(uploading[r])'
  <2>1. PICK new : new = [uploading[r] EXCEPT !.pc = "record"]
    BY Zenon
  <2>2. uploading[r] # MD!Idle /\ uploading[r] \in MoveCall /\ uploaded
    BY <1>3, MediaMover
  <2>3. /\ new \in MoveCall /\ new.op = uploading[r].op /\ new.pc = "record"
        /\ new.op \in {"submit", "open"}
    BY <2>1, <2>2 DEF MoveCall
  <2>4. uploading'[r] = new
    BY <1>3, <2>1
  <2>5. MediaKnows(new)'
    BY <1>3, <2>2, <2>3 DEF MediaKnows, NoneLeft
  <2> QED BY <2>2, <2>3, <2>4, <2>5 DEF MediaCalls
<1>4. \A r \in Requests :
            \/ uploading'[r] = uploading[r] \/ uploading'[r] = MD!Idle
            \/ /\ uploading[r] # MD!Idle /\ uploading'[r] \in MediaCalls
               /\ uploading'[r].op = uploading[r].op
               /\ MediaKnows(uploading[r])'
  BY <1>2, <1>3, Zenon
<1>5. MediaCallsSound' /\ (solo => \A r \in Requests : r # q => uploading'[r] = MD!Idle)
  BY <1>1, <1>4, MediaMover, MediaShares
<1>6. /\ ~well => uploading'[q] = MD!Idle
      /\ well => uploading'[q] = [uploading[q] EXCEPT !.pc = "record"]
  BY DEF MD!MoveEnds
<1> QED BY <1>5, <1>6

LEMMA MediaStartMove == ASSUME MediaInv, NEW q \in Requests, MD!Moves(uploading[q].op),
        uploading[q].pc = "move", MD!StartMove(q), UNCHANGED solo
  PROVE MediaInv'
<1>1. UNCHANGED <<s3, object, media, document, uploaded, missing, stopped>>
  BY DEF MD!StartMove
<1>2. PICK at \in {"wait", "copy"} : MD!Go(q, at)
  BY DEF MD!StartMove
<1>3. PICK new : new = [uploading[q] EXCEPT !.pc = at]
  BY Zenon
<1>4. /\ new.op = uploading[q].op /\ new.url = uploading[q].url /\ new.pc = at
      /\ new.variants = uploading[q].variants
  BY <1>3, MediaMover DEF MoveCall
<1>5. MediaKnows(new)'
  BY <1>1, <1>4, MediaMover DEF MediaKnows, OneLeft
<1>6. solo /\ ~stopped => MediaAlone(new)'
  BY <1>1, <1>4, MediaMover DEF MediaAlone, MediaKept, Named
<1> QED BY <1>1, <1>2, <1>3, <1>5, <1>6, MediaGoes, MediaMover

LEMMA MediaFails == ASSUME MediaInv, NEW q \in Requests, MD!Moves(uploading[q].op),
        MD!MoveEnds(q, FALSE), UNCHANGED <<solo, uploaded, missing, media, document>>,
        object' \subseteq object, ~(solo /\ ~stopped')
  PROVE MediaInv'
<1>1. /\ MediaCallsSound' /\ uploading'[q] = MD!Idle
      /\ solo => \A r \in Requests : r # q => uploading'[r] = MD!Idle
  BY MediaEnds, Zenon
<1>2. MediaData'
  BY MediaMover, MediaShrinks
<1> QED BY <1>1, <1>2, MediaJoins

LEMMA MediaCopyObject == ASSUME MediaInv, NEW q \in Requests, MD!Moves(uploading[q].op),
        uploading[q].pc = "copy", MD!CopyObject(q), UNCHANGED solo
  PROVE MediaInv'
<1>1. UNCHANGED <<s3, media, document, uploaded, missing, stopped>>
  BY DEF MD!CopyObject
<1>2. CASE uploading[q].url \notin object
  <2>1. MD!MoveEnds(q, FALSE) /\ UNCHANGED object
    BY <1>2, Zenon DEF MD!CopyObject
  <2>2. ~(solo /\ ~stopped')
    BY <1>1, <1>2, MediaMover DEF MediaAlone, MediaKept
  <2> QED BY <1>1, <2>1, <2>2, MediaFails, Zenon
<1>3. CASE uploading[q].url \in object
  <2>1. PICK at : at = IF s3 THEN "unlink" ELSE "variants"
    OBVIOUS
  <2>2. /\ object' = (object \cup {"private"}) \ (IF s3 THEN {} ELSE {uploading[q].url})
        /\ MD!Go(q, at) /\ at \in {"unlink", "variants"}
    BY <1>3, <2>1, Zenon DEF MD!CopyObject
  <2>3. PICK new : new = [uploading[q] EXCEPT !.pc = at]
    BY Zenon
  <2>4. /\ new.op = uploading[q].op /\ new.url = uploading[q].url /\ new.pc = at
        /\ new.variants = uploading[q].variants
    BY <2>3, MediaMover DEF MoveCall
  <2>5. /\ new.url \in MD!Public /\ (~new.variants => OneLeft(new.url)) /\ uploaded
        /\ new.op \in {"submit", "open"}
    BY <2>4, MediaMover DEF MediaKnows
  <2>6. /\ object' \cap MD!Public \subseteq object /\ object' \subseteq Addresses
        /\ "private" \in object' /\ (at = "variants" => new.url \notin object')
    BY <2>1, <2>2, <2>4, <2>5, MediaMover DEF MD!Public, Addresses
  <2>7. MediaKnows(new)'
    BY <1>1, <2>2, <2>4, <2>5, <2>6 DEF MediaKnows, OneLeft
  <2>8. solo /\ ~stopped => MediaAlone(new)'
    BY <1>1, <2>2, <2>4, <2>5, <2>6, MediaMover DEF MediaAlone, Named
  <2> QED BY <1>1, <2>2, <2>3, <2>6, <2>7, <2>8, MediaGoes
<1> QED BY <1>2, <1>3

LEMMA MediaUnlinkObject == ASSUME MediaInv, NEW q \in Requests, MD!Moves(uploading[q].op),
        uploading[q].pc = "unlink", MD!UnlinkObject(q), UNCHANGED solo
  PROVE MediaInv'
<1>1. /\ UNCHANGED <<s3, media, document, uploaded, missing, stopped>>
      /\ MD!Go(q, "variants") /\ object' = object \ {uploading[q].url}
  BY DEF MD!UnlinkObject
<1>2. PICK new : new = [uploading[q] EXCEPT !.pc = "variants"]
  BY Zenon
<1>3. /\ new.op = uploading[q].op /\ new.url = uploading[q].url /\ new.pc = "variants"
      /\ new.variants = uploading[q].variants
  BY <1>2, MediaMover DEF MoveCall
<1>4. /\ new.url \in MD!Public /\ (~new.variants => OneLeft(new.url)) /\ uploaded
      /\ new.op \in {"submit", "open"}
  BY <1>3, MediaMover DEF MediaKnows
<1>5. new.url # "private"
  BY <1>4 DEF MD!Public
<1>6. MediaKnows(new)'
  BY <1>1, <1>3, <1>4 DEF MediaKnows, OneLeft
<1>7. solo /\ ~stopped => MediaAlone(new)'
  BY <1>1, <1>3, <1>4, <1>5, MediaMover DEF MediaAlone, Named
<1> QED BY <1>1, <1>2, <1>6, <1>7, MediaGoes, MediaMover

LEMMA MediaMoveVariants == ASSUME MediaInv, NEW q \in Requests, MD!Moves(uploading[q].op),
        uploading[q].pc = "variants", MD!MoveVariants(q), UNCHANGED solo
  PROVE MediaInv'
<1>1. /\ UNCHANGED <<s3, media, document, uploaded, stopped>> /\ MD!Go(q, "row")
      /\ object' \subseteq object /\ (missing => missing')
      /\ ~missing' => object' = IF uploading[q].variants
                              THEN object \ (MD!Public \ {uploading[q].url}) ELSE object
      /\ "private" \in object => "private" \in object'
  <2>1. /\ MD!Delete(MD!Variants(uploading[q])) /\ MD!Go(q, "row")
        /\ UNCHANGED <<s3, media, document, uploaded, stopped>>
    BY DEF MD!MoveVariants
  <2>2. "private" \notin MD!Variants(uploading[q])
    BY DEF MD!Variants, MD!Public
  <2> HIDE DEF MD!Delete
  <2> QED BY <2>1, <2>2, MediaRemoves DEF MD!Variants
<1>2. PICK new : new = [uploading[q] EXCEPT !.pc = "row"]
  BY Zenon
<1>3. /\ new.op = uploading[q].op /\ new.url = uploading[q].url /\ new.pc = "row"
      /\ new.variants = uploading[q].variants
  BY <1>2, MediaMover DEF MoveCall
<1>4. /\ new.url \in MD!Public /\ (~new.variants => OneLeft(new.url)) /\ uploaded
      /\ new.op \in {"submit", "open"} /\ new.url \notin object
  BY <1>3, MediaMover DEF MediaKnows
<1>5. NoneLeft' /\ OneLeft(new.url)'
  BY <1>1, <1>3, <1>4 DEF NoneLeft, OneLeft
<1>6. MediaKnows(new)'
  BY <1>1, <1>3, <1>4, <1>5 DEF MediaKnows
<1>7. solo /\ ~stopped => MediaAlone(new)'
  BY <1>1, <1>3, <1>4, MediaMover DEF MediaAlone, Named, MD!Public
<1> QED BY <1>1, <1>2, <1>6, <1>7, MediaGoes, MediaMover

LEMMA MediaMoveRow == ASSUME MediaInv, NEW q \in Requests, MD!Moves(uploading[q].op),
        uploading[q].pc = "row", MD!MoveRow(q), UNCHANGED solo
  PROVE MediaInv'
<1>1. UNCHANGED <<s3, object, document, uploaded, missing, stopped>>
  BY DEF MD!MoveRow
<1>2. CASE media = MD!NoRow
  <2>1. MD!MoveEnds(q, FALSE) /\ UNCHANGED media
    BY <1>2, Zenon DEF MD!MoveRow, MD!Exists
  <2>2. ~(solo /\ ~stopped')
    BY <1>1, <1>2, MediaMover DEF MediaAlone
  <2> QED BY <1>1, <2>1, <2>2, MediaFails, Zenon
<1>3. CASE media # MD!NoRow
  <2>1. PICK put : put = [url |-> "private", variants |-> FALSE, visibility |-> "private"]
    BY Zenon
  <2>2. media' = put /\ MD!Go(q, "prior")
    BY <1>3, <2>1 DEF MD!MoveRow, MD!Exists
  <2>3. put \in MediaRow /\ put.url = "private" /\ put.visibility = "private" /\ put # MD!NoRow
    BY <2>1 DEF MediaRow, Addresses, MD!NoRow
  <2>4. PICK new : new = [uploading[q] EXCEPT !.pc = "prior"]
    BY Zenon
  <2>5. /\ new.op = uploading[q].op /\ new.url = uploading[q].url /\ new.pc = "prior"
        /\ new.variants = uploading[q].variants
    BY <2>4, MediaMover DEF MoveCall
  <2>6. NoneLeft /\ NoneLeft'
    BY <1>1, MediaMover DEF MediaKnows, NoneLeft
  <2>7. MediaData'
    <3>1. MD!NoPublicCopy'
      BY <2>6 DEF MD!NoPublicCopy, NoneLeft
    <3> QED BY <1>1, <2>2, <2>3, <2>6, <3>1, MediaMover DEF MediaData, MediaInv, MediaTyped
  <2>8. MediaKnows(new)'
    BY <1>1, <2>5, <2>6, MediaMover DEF MediaKnows, OneLeft
  <2>9. solo /\ ~stopped => MediaAlone(new)'
    BY <1>1, <2>2, <2>3, <2>5, MediaMover DEF MediaAlone, Named
  <2> QED BY <1>1, <2>2, <2>4, <2>7, <2>8, <2>9, MediaGoes, MediaMover
<1> QED BY <1>2, <1>3

LEMMA MediaMovePrior == ASSUME MediaInv, NEW q \in Requests, MD!Moves(uploading[q].op),
        uploading[q].pc = "prior", MD!MovePrior(q), UNCHANGED solo
  PROVE MediaInv'
<1>1. /\ UNCHANGED <<s3, object, media, uploaded, missing, stopped>> /\ MD!MoveEnds(q, TRUE)
      /\ document' = [s \in Documents |-> IF document[s] = uploading[q].url THEN "private"
                                        ELSE document[s]]
  BY DEF MD!MovePrior, MD!Rename
<1>2. NoneLeft /\ NoneLeft' /\ uploaded
  BY <1>1, MediaMover DEF MediaKnows, NoneLeft
<1>3. PICK new : new = [uploading[q] EXCEPT !.pc = "record"]
  BY Zenon
<1>4. /\ new.op = uploading[q].op /\ new.op \in {"submit", "open"} /\ new.pc = "record"
      /\ new # MD!Idle
  BY <1>3, MediaMover DEF MoveCall, MD!Idle
<1>5. /\ MediaCallsSound' /\ uploading'[q] = new
      /\ solo => \A r \in Requests : r # q => uploading'[r] = MD!Idle
  BY <1>1, <1>2, <1>3, MediaEnds, Zenon
<1>6. MediaData'
  <2>1. document' \in [Documents -> {"none", "private", "optimized"}]
    BY <1>1 DEF MediaInv, MediaTyped
  <2>2. MD!NoPublicCopy'
    BY <1>2 DEF MD!NoPublicCopy, NoneLeft
  <2>3. (media # MD!NoRow /\ media.url # "private" /\ ~media.variants => OneLeft(media.url))'
    BY <1>1 DEF MediaInv, OneLeft
  <2> QED BY <1>1, <1>2, <2>1, <2>2, <2>3, MediaMover DEF MediaInv, MediaTyped, MediaData
<1>7. solo /\ ~stopped' => MediaAlone(new)'
  <2>1. ASSUME solo, ~stopped' PROVE MediaKept' /\ media # MD!NoRow /\ media.url = "private" /\ media.visibility = "private"
    <3>1. /\ media # MD!NoRow /\ "private" \in object /\ Named(uploading[q].url)
          /\ media.url = "private" /\ media.visibility = "private"
      BY <1>1, <2>1, MediaMover DEF MediaAlone
    <3>2. Named("private")'
      BY <1>1, <3>1 DEF Named
    <3>3. Named(media.url)'
      BY <1>1, <3>1, <3>2
    <3> QED BY <1>1, <3>1, <3>3 DEF MediaKept
  <2> QED BY <1>1, <1>4, <2>1 DEF MediaAlone
<1> QED BY <1>4, <1>5, <1>6, <1>7, MediaJoins

LEMMA MediaRecordDocument == ASSUME MediaInv, NEW q \in Requests, MD!Moves(uploading[q].op),
        uploading[q].pc = "record", MD!RecordDocument(q), UNCHANGED solo
  PROVE MediaInv'
<1>1. /\ UNCHANGED <<s3, object, media, moving, uploaded, missing, stopped>>
      /\ document' = [document EXCEPT ![uploading[q].id] = "private"]
      /\ uploading' = [uploading EXCEPT ![q] = MD!Idle]
  BY DEF MD!RecordDocument, MD!End
<1>2. NoneLeft /\ NoneLeft' /\ uploaded
  BY <1>1, MediaMover DEF MediaKnows, NoneLeft
<1>3. /\ MediaCallsSound' /\ uploading'[q] = MD!Idle
      /\ solo => \A r \in Requests : r # q => uploading'[r] = MD!Idle
  BY <1>1, MediaMover, MediaMoves, Zenon
<1>4. MediaData'
  <2>1. document' \in [Documents -> {"none", "private", "optimized"}]
    BY <1>1, Zenon DEF MediaInv, MediaTyped
  <2>2. MD!NoPublicCopy'
    BY <1>2 DEF MD!NoPublicCopy, NoneLeft
  <2>3. (media # MD!NoRow /\ media.url # "private" /\ ~media.variants => OneLeft(media.url))'
    BY <1>1 DEF MediaInv, OneLeft
  <2> QED BY <1>1, <1>2, <2>1, <2>2, <2>3, MediaMover DEF MediaInv, MediaTyped, MediaData
<1>5. solo /\ ~stopped' => MediaKept'
  <2>1. ASSUME solo, ~stopped' PROVE MediaKept'
    <3>1. media # MD!NoRow /\ media.url = "private" /\ MediaKept
      BY <1>1, <2>1, MediaMover DEF MediaAlone
    <3>2. Named(media.url)'
      BY <1>1, <3>1 DEF MediaKept, Named, MediaInv, MediaTyped
    <3> QED BY <1>1, <3>1, <3>2 DEF MediaKept
  <2> QED BY <2>1
<1> QED BY <1>3, <1>4, <1>5, MediaJoins

LEMMA MediaStepFails == ASSUME MediaInv, NEW q \in Requests, MD!StepFails(q), UNCHANGED solo
  PROVE MediaInv'
<1>1. /\ stopped' /\ UNCHANGED <<s3, media, uploaded, missing>> /\ object' \subseteq object
      /\ uploading[q] # MD!Idle
  BY DEF MD!StepFails, MD!Idle
<1>2. uploading[q] \in MediaCalls /\ MediaKnows(uploading[q]) /\ uploaded /\ object \subseteq Addresses
  BY <1>1, MediaKnown
<1>3. CASE uploading[q].op = "upload"
  <2>1. /\ uploading' = [uploading EXCEPT ![q] = MD!Idle] /\ UNCHANGED <<document>>
        /\ Unnamed
    BY <1>2, <1>3 DEF MD!StepFails, MD!End, MD!Moves, MediaKnows, MediaCalls, UploadCall, DeleteCall,
                      UpdateCall, MoveCall
  <2>2. /\ MediaCallsSound' /\ uploading'[q] = MD!Idle
        /\ \A r \in Requests : r # q => uploading'[r] = MD!Idle
    BY <1>1, <1>3, <2>1, MediaUploads, Zenon
  <2>3. MediaData'
    BY <1>1, <1>2, <2>1, MediaShrinks
  <2> QED BY <1>1, <2>2, <2>3, MediaJoins
<1>4. CASE uploading[q].op \in {"delete", "update"} \/ (MD!Moves(uploading[q].op) /\ uploading[q].pc = "record")
  <2>1. uploading' = [uploading EXCEPT ![q] = MD!Idle] /\ UNCHANGED document
    <3>1. uploading[q].pc # "prior"
      BY <1>2, <1>4, MediaCallIs DEF DeleteCall, UpdateCall
    <3> QED BY <1>4, <3>1 DEF MD!StepFails, MD!End, MD!Moves
  <2>2. /\ MediaCallsSound' /\ uploading'[q] = MD!Idle
        /\ solo => \A r \in Requests : r # q => uploading'[r] = MD!Idle
    <3>1. uploading[q].op # "upload" /\ object' \cap MD!Public \subseteq object /\ (missing => missing')
      BY <1>1, <1>4 DEF MD!Moves
    <3> QED BY <1>1, <2>1, <3>1, MediaMoves
  <2>3. MediaData'
    BY <1>1, <1>2, <2>1, MediaShrinks
  <2> QED BY <1>1, <2>2, <2>3, MediaJoins
<1>5. CASE MD!Moves(uploading[q].op) /\ uploading[q].pc # "record"
  <2>1. MD!MoveEnds(q, FALSE)
    BY <1>5, Zenon DEF MD!StepFails
  <2>2. CASE uploading[q].pc # "prior"
    <3>1. UNCHANGED document
      BY <2>2, Zenon DEF MD!StepFails
    <3> QED BY <1>1, <1>5, <2>1, <3>1, MediaFails, Zenon
  <2>3. CASE uploading[q].pc = "prior"
    <3>1. PICK which \in SUBSET Documents : MD!Rename(which, uploading[q].url)
      BY <2>3, Zenon DEF MD!StepFails
    <3>2. document' \in [Documents -> {"none", "private", "optimized"}]
      BY <3>1 DEF MD!Rename, MediaInv, MediaTyped
    <3>3. NoneLeft /\ NoneLeft'
      BY <1>1, <1>2, <1>5, <2>3 DEF MediaKnows, NoneLeft, MD!Moves
    <3>4. /\ MediaCallsSound' /\ uploading'[q] = MD!Idle
          /\ solo => \A r \in Requests : r # q => uploading'[r] = MD!Idle
      BY <1>1, <1>5, <2>1, MediaEnds, Zenon
    <3>5. MediaData'
      <4>1. MD!NoPublicCopy'
        BY <3>3 DEF MD!NoPublicCopy, NoneLeft
      <4>2. (media # MD!NoRow /\ media.url # "private" /\ ~media.variants => OneLeft(media.url))'
        BY <1>1 DEF MediaInv, OneLeft
      <4> QED BY <1>1, <1>2, <3>2, <3>3, <4>1, <4>2 DEF MediaInv, MediaTyped, MediaData
    <3> QED BY <1>1, <3>4, <3>5, MediaJoins
  <2> QED BY <2>2, <2>3
<1> QED BY <1>2, <1>3, <1>4, <1>5, MediaCallIs DEF MD!Moves

LEMMA MediaCrash == ASSUME MediaInv, MD!Crash, UNCHANGED solo PROVE MediaInv'
<1>1. /\ stopped' /\ UNCHANGED <<object, media, document, uploaded, missing>>
      /\ uploading' = [q \in Requests |-> MD!Idle]
  BY DEF MD!Crash
<1>2. \A q \in Requests : uploading'[q] = MD!Idle
  BY <1>1
<1>3. (media # MD!NoRow /\ media.url # "private" /\ ~media.variants => OneLeft(media.url))'
  BY <1>1 DEF MediaInv, OneLeft
<1>4. (media.url = "private" => NoneLeft)' /\ MD!NoPublicCopy' /\ (~uploaded => Unnamed)'
  BY <1>1 DEF MediaInv, NoneLeft, MD!NoPublicCopy, Unnamed
<1>5. MediaTyped'
  BY <1>1 DEF MediaInv, MediaTyped
<1> QED BY <1>1, <1>2, <1>3, <1>4, <1>5 DEF MediaInv

LEMMA MediaStep == ASSUME MediaInv, MD!MediaNext PROVE MediaInv'
<1>1. ASSUME NEW q \in Requests, MD!Moves(uploading[q].op), UNCHANGED solo,
             \/ uploading[q].pc = "move" /\ MD!StartMove(q)
             \/ uploading[q].pc = "copy" /\ MD!CopyObject(q)
             \/ uploading[q].pc = "unlink" /\ MD!UnlinkObject(q)
             \/ uploading[q].pc = "variants" /\ MD!MoveVariants(q)
             \/ uploading[q].pc = "row" /\ MD!MoveRow(q)
             \/ uploading[q].pc = "prior" /\ MD!MovePrior(q)
             \/ uploading[q].pc = "record" /\ MD!RecordDocument(q)
      PROVE MediaInv'
  BY <1>1, MediaStartMove, MediaCopyObject, MediaUnlinkObject, MediaMoveVariants, MediaMoveRow,
     MediaMovePrior, MediaRecordDocument
<1> QED BY <1>1, MediaUpload, MediaStoreOptimized, MediaStorePresets, MediaDropOriginal,
     MediaOptimizeFails, MediaInsertRow, MediaReadForDelete, MediaDeleteObject, MediaDeleteVariants,
     MediaDeleteRow, MediaReadForUpdate, MediaUpdateVisibility, MediaSubmit, MediaStepFails,
     MediaCrash
     DEF MD!MediaNext

LEMMA MediaSame == ASSUME MediaInv, UNCHANGED <<mdVars, solo>> PROVE MediaInv'
<1>1. UNCHANGED <<object, media, document, uploaded, missing, stopped, uploading, solo>>
  BY DEF mdVars
<1>2. /\ \A url : OneLeft(url)' = OneLeft(url)
      /\ \A url : Named(url)' = Named(url)
      /\ NoneLeft' = NoneLeft /\ Unnamed' = Unnamed /\ MediaKept' = MediaKept
      /\ MediaTyped' = MediaTyped /\ MD!NoPublicCopy' = MD!NoPublicCopy
  BY <1>1 DEF OneLeft, NoneLeft, Unnamed, Named, MediaKept, MediaTyped, MD!NoPublicCopy
<1>3. /\ \A q : MediaKnows(uploading[q])' = MediaKnows(uploading[q])
      /\ \A q : MediaAlone(uploading[q])' = MediaAlone(uploading[q])
  BY <1>1, <1>2 DEF MediaKnows, MediaAlone
<1> QED BY <1>1, <1>2, <1>3 DEF MediaInv

LEMMA MediaSafeStart == ASSUME MD!Init PROVE MediaSafeInv
<1>1. media.url # "private" /\ \A s \in Documents : document[s] \in {"none", "optimized"}
  BY DEF MD!Init, MD!NoRow
<1> QED BY <1>1 DEF MediaSafeInv, MediaSafe, MD!Init

\* A request begins, ends or goes on while no other is under way.
LEMMA MediaSafeJoins == ASSUME MediaInv, MediaSafeInv, solo, NEW q \in Requests, NEW new,
        uploading[q] # MD!Idle \/ \A r \in Requests : uploading[r] = MD!Idle,
        uploading' = [uploading EXCEPT ![q] = new],
        MediaSafe', new # MD!Idle => MediaSafely(new)', UNCHANGED solo
  PROVE MediaSafeInv'
<1>1. uploading'[q] = new /\ \A r \in Requests : r # q => uploading'[r] = uploading[r]
  BY DEF MediaInv, MediaTyped
<1>2. \A r \in Requests : r # q => uploading[r] = MD!Idle
  BY DEF MediaInv
<1> QED BY <1>1, <1>2 DEF MediaSafeInv

LEMMA MediaSafeUploads == ASSUME MediaInv, MediaSafeInv, solo, UNCHANGED solo, NEW q \in Requests,
        \/ MD!Upload(q)
        \/ MD!At(q, "upload", "optimize") /\ MD!StoreOptimized(q)
        \/ MD!At(q, "upload", "preset") /\ MD!StorePresets(q)
        \/ MD!At(q, "upload", "drop") /\ MD!DropOriginal(q)
        \/ MD!OptimizeFails(q)
        \/ MD!At(q, "upload", "insert") /\ MD!InsertRow(q)
  PROVE MediaSafeInv'
<1>1. MediaSafe
  BY DEF MediaSafeInv
<1>2. CASE MD!Upload(q)
  <2>1. PICK new : MD!Begin(q, new) /\ new.op = "upload"
    BY <1>2 DEF MD!Upload
  <2>2. UNCHANGED <<media, document>> /\ \A r \in Requests : uploading[r] = MD!Idle
    BY <1>2, <2>1 DEF MD!Upload, MD!Begin, MD!Free
  <2>3. MediaSafe' /\ MediaSafely(new)'
    BY <1>1, <2>1, <2>2 DEF MediaSafe, MediaSafely
  <2> QED BY <2>1, <2>2, <2>3, MediaSafeJoins DEF MD!Begin
<1>3. ASSUME NEW new, new.op = "upload", uploading[q].op = "upload",
             uploading' = [uploading EXCEPT ![q] = new], UNCHANGED <<media, document>>
      PROVE  MediaSafeInv'
  <2>1. uploading[q] # MD!Idle
    BY <1>3, MediaUploadKnows
  <2>2. MediaSafe' /\ MediaSafely(new)'
    BY <1>1, <1>3 DEF MediaSafe, MediaSafely
  <2> QED BY <1>3, <2>1, <2>2, MediaSafeJoins
<1>4. ASSUME NEW at, uploading[q].op = "upload",
             uploading' = [uploading EXCEPT ![q].pc = at], UNCHANGED <<media, document>>
      PROVE  MediaSafeInv'
  <2>1. uploading[q] \in UploadCall
    BY <1>4, MediaUploadKnows
  <2>2. [uploading[q] EXCEPT !.pc = at].op = "upload"
    BY <2>1 DEF UploadCall
  <2>3. uploading' = [uploading EXCEPT ![q] = [uploading[q] EXCEPT !.pc = at]]
    BY <1>4
  <2> QED BY <1>3, <1>4, <2>2, <2>3
<1>5. CASE MD!At(q, "upload", "optimize") /\ MD!StoreOptimized(q)
  BY <1>4, <1>5 DEF MD!StoreOptimized, MD!Go, MD!At
<1>6. CASE MD!At(q, "upload", "preset") /\ MD!StorePresets(q)
  BY <1>4, <1>6 DEF MD!StorePresets, MD!Go, MD!At
<1>7. CASE MD!At(q, "upload", "drop") /\ MD!DropOriginal(q)
  BY <1>3, <1>7 DEF MD!DropOriginal, MD!At
<1>8. CASE MD!OptimizeFails(q)
  <2> DEFINE new == [uploading[q] EXCEPT !.pc = "insert",
                                         !.variants = uploading[q].pc = "drop"]
  <2>1. uploading[q] \in UploadCall
    BY <1>8, MediaUploadKnows DEF MD!OptimizeFails
  <2>2. new.op = "upload"
    BY <2>1 DEF UploadCall
  <2>3. uploading' = [uploading EXCEPT ![q] = new]
    BY <1>8 DEF MD!OptimizeFails
  <2>4. uploading[q].op = "upload" /\ UNCHANGED <<media, document>>
    BY <1>8 DEF MD!OptimizeFails
  <2> HIDE DEF new
  <2> QED BY <1>3, <2>2, <2>3, <2>4
<1>9. CASE MD!At(q, "upload", "insert") /\ MD!InsertRow(q)
  <2>1. /\ uploading[q] \in UploadCall /\ uploading[q] # MD!Idle /\ Unnamed
        /\ uploading[q].url # "private"
    BY <1>9, MediaUploadKnows DEF MD!At, UploadCall, MD!Public
  <2>2. /\ media'.url = uploading[q].url /\ UNCHANGED document
        /\ uploading' = [uploading EXCEPT ![q] = MD!Idle]
    BY <1>9 DEF MD!InsertRow, MD!End
  <2>3. MediaSafe'
    BY <2>1, <2>2 DEF MediaSafe, Unnamed
  <2> QED BY <2>1, <2>2, <2>3, MediaSafeJoins
<1> QED BY <1>2, <1>5, <1>6, <1>7, <1>8, <1>9

LEMMA MediaSafeReads == ASSUME MediaInv, MediaSafeInv, solo, UNCHANGED solo, NEW q \in Requests,
        \/ MD!ReadForDelete(q) \/ MD!ReadForUpdate(q)
        \/ \E s \in Documents : MD!SubmitDocument(q, s) \/ MD!OpenDocument(q, s)
  PROVE MediaSafeInv'
<1>1. MediaSafe
  BY DEF MediaSafeInv
<1>2. UNCHANGED <<media, document>>
  BY DEF MD!ReadForDelete, MD!ReadForUpdate, MD!SubmitDocument, MD!OpenDocument, MD!mediaVars
<1>3. PICK new : MD!Begin(q, new) /\ MediaSafely(new)
  <2>1. CASE MD!ReadForDelete(q)
    <3>1. PICK new : new = [op |-> "delete", pc |-> "object", url |-> media.url,
                            variants |-> media.variants]
      BY Zenon
    <3>2. new.op = "delete" /\ \A s \in Documents : document[s] # "private"
      BY <1>1, <2>1, <3>1 DEF MD!ReadForDelete, MediaSafe
    <3> QED BY <2>1, <3>1, <3>2 DEF MD!ReadForDelete, MediaSafely
  <2>2. CASE MD!ReadForUpdate(q)
    <3>1. PICK v \in {"public", "private"} :
             /\ media.url = "private" => v = "private"
             /\ MD!Begin(q, [op |-> "update", pc |-> "write", visibility |-> v])
      BY <2>2 DEF MD!ReadForUpdate
    <3>2. MediaSafely([op |-> "update", pc |-> "write", visibility |-> v])
      BY <3>1 DEF MediaSafely
    <3> QED BY <3>1, <3>2
  <2>3. ASSUME NEW s \in Documents, NEW op \in {"submit", "open"}, MD!Want(q, op, s)
        PROVE \E new : MD!Begin(q, new) /\ MediaSafely(new)
    <3>1. PICK new : new = [op |-> op, id |-> s, url |-> media.url, variants |-> media.variants,
                            pc |-> IF media.url = "private" THEN "record" ELSE "move"]
      BY Zenon
    <3>2. MediaSafely(new)
      BY <3>1 DEF MediaSafely
    <3> QED BY <2>3, <3>1, <3>2 DEF MD!Want
  <2> QED BY <2>1, <2>2, <2>3 DEF MD!SubmitDocument, MD!OpenDocument
<1>4. MediaSafe' /\ MediaSafely(new)'
  BY <1>1, <1>2, <1>3 DEF MediaSafe, MediaSafely
<1>5. \A r \in Requests : uploading[r] = MD!Idle
  BY <1>3 DEF MD!Begin, MD!Free
<1> QED BY <1>3, <1>4, <1>5, MediaSafeJoins DEF MD!Begin

LEMMA MediaSafeDeletes == ASSUME MediaInv, MediaSafeInv, solo, UNCHANGED solo, NEW q \in Requests,
        \/ MD!At(q, "delete", "object") /\ MD!DeleteObject(q)
        \/ MD!At(q, "delete", "variants") /\ MD!DeleteVariants(q)
        \/ MD!At(q, "delete", "row") /\ MD!DeleteRow(q)
        \/ MD!At(q, "update", "write") /\ MD!UpdateVisibility(q)
  PROVE MediaSafeInv'
<1>1. MediaSafe /\ MediaSafely(uploading[q]) /\ uploading[q] # MD!Idle /\ uploading[q] \in MediaCalls
  BY DEF MediaSafeInv, MD!At, MD!Idle, MediaInv, MediaTyped
<1>2. CASE uploading[q].op = "delete" /\ (MD!DeleteObject(q) \/ MD!DeleteVariants(q))
  <2>1. PICK at \in {"variants", "row"} : MD!Go(q, at)
    BY <1>2 DEF MD!DeleteObject, MD!DeleteVariants
  <2>2. UNCHANGED <<media, document>>
    BY <1>2 DEF MD!DeleteObject, MD!DeleteVariants
  <2>3. PICK new : new = [uploading[q] EXCEPT !.pc = at]
    BY Zenon
  <2>4. new.op = "delete"
    BY <1>1, <1>2, <2>3, MediaCallIs DEF DeleteCall
  <2>5. MediaSafe' /\ MediaSafely(new)'
    BY <1>1, <1>2, <2>2, <2>4 DEF MediaSafe, MediaSafely
  <2>6. uploading' = [uploading EXCEPT ![q] = new]
    BY <2>1, <2>3 DEF MD!Go
  <2> QED BY <1>1, <2>5, <2>6, MediaSafeJoins
<1>3. CASE MD!At(q, "delete", "row") /\ MD!DeleteRow(q)
  <2>1. /\ media'.url = "none" /\ UNCHANGED document
        /\ uploading' = [uploading EXCEPT ![q] = MD!Idle]
    BY <1>3 DEF MD!DeleteRow, MD!NoRow, MD!End
  <2>2. MediaSafe'
    BY <1>1, <1>3, <2>1 DEF MediaSafe, MediaSafely, MD!At
  <2> QED BY <1>1, <2>1, <2>2, MediaSafeJoins
<1>4. CASE MD!At(q, "update", "write") /\ MD!UpdateVisibility(q)
  <2>1. /\ media' = IF media # MD!NoRow THEN [media EXCEPT !.visibility = uploading[q].visibility]
                    ELSE media
        /\ UNCHANGED document /\ uploading' = [uploading EXCEPT ![q] = MD!Idle]
    BY <1>4 DEF MD!UpdateVisibility, MD!Exists, MD!End
  <2>2. /\ media'.url = media.url
        /\ media # MD!NoRow => media'.visibility = uploading[q].visibility
    <3>1. media \in MediaRow
      BY DEF MediaInv, MediaTyped
    <3> QED BY <2>1, <3>1 DEF MediaRow
  <2>3. MediaSafe'
    BY <1>1, <1>4, <2>1, <2>2 DEF MediaSafe, MediaSafely, MD!At
  <2> QED BY <1>1, <2>1, <2>3, MediaSafeJoins
<1> QED BY <1>2, <1>3, <1>4 DEF MD!At

\* Alone, a move that ends leaves its own request and no other.
LEMMA MediaSafeEnds == ASSUME MediaInv, MediaSafeInv, solo, UNCHANGED solo, NEW q \in Requests,
        MD!Moves(uploading[q].op), NEW well \in BOOLEAN, MD!MoveEnds(q, well), MediaSafe',
        well => media'.url = "private"
  PROVE MediaSafeInv'
<1>1. uploading[q] # MD!Idle /\ uploading[q] \in MoveCall
  BY MediaMover
<1>2. \A r \in Requests : r # q => uploading[r] = MD!Idle
  BY <1>1 DEF MediaInv
<1>3. PICK new : new = IF well THEN [uploading[q] EXCEPT !.pc = "record"] ELSE MD!Idle
  BY Zenon
<1>4. uploading'[q] = new /\ \A r \in Requests : r # q => uploading'[r] = MD!Idle
  BY <1>2, <1>3 DEF MD!MoveEnds, MD!Moves, MD!Idle
<1>5. new # MD!Idle => MediaSafely(new)'
  <2>1. CASE well
    <3>1. new.op \in {"submit", "open"}
      BY <1>1, <1>3, <2>1 DEF MoveCall
    <3> QED BY <2>1, <3>1 DEF MediaSafely
  <2> QED BY <1>3, <2>1
<1>6. new # MD!Idle => MediaSafely(uploading[q])'
  BY <1>4, <1>5
<1> QED BY <1>4, <1>6 DEF MediaSafeInv

LEMMA MediaSafeMoves == ASSUME MediaInv, MediaSafeInv, solo, UNCHANGED solo, NEW q \in Requests,
        MD!Moves(uploading[q].op),
             \/ uploading[q].pc = "move" /\ MD!StartMove(q)
             \/ uploading[q].pc = "copy" /\ MD!CopyObject(q)
             \/ uploading[q].pc = "unlink" /\ MD!UnlinkObject(q)
             \/ uploading[q].pc = "variants" /\ MD!MoveVariants(q)
             \/ uploading[q].pc = "row" /\ MD!MoveRow(q)
             \/ uploading[q].pc = "prior" /\ MD!MovePrior(q)
             \/ uploading[q].pc = "record" /\ MD!RecordDocument(q)
  PROVE MediaSafeInv'
<1>1. /\ MediaSafe /\ MediaSafely(uploading[q]) /\ uploading[q] # MD!Idle
      /\ uploading[q] \in MoveCall /\ uploading[q].op \in {"submit", "open"}
  BY MediaMover DEF MediaSafeInv
<1>2. ASSUME NEW at \in {"wait", "copy", "unlink", "variants", "row", "prior"}, MD!Go(q, at),
             MediaSafe', at = "prior" => media'.url = "private"
      PROVE MediaSafeInv'
  <2>1. PICK new : new = [uploading[q] EXCEPT !.pc = at]
    BY Zenon
  <2>2. new.op \in {"submit", "open"} /\ new.pc = at
    BY <1>1, <2>1 DEF MoveCall
  <2>3. MediaSafely(new)'
    BY <1>2, <2>2 DEF MediaSafely
  <2>4. uploading' = [uploading EXCEPT ![q] = new]
    BY <1>2, <2>1 DEF MD!Go
  <2> QED BY <1>1, <1>2, <2>3, <2>4, MediaSafeJoins
<1>3. ASSUME UNCHANGED <<media, document>> PROVE MediaSafe'
  BY <1>1, <1>3 DEF MediaSafe
<1>4. CASE uploading[q].pc \in {"move", "unlink", "variants"}
  <2>1. UNCHANGED <<media, document>>
    BY <1>4 DEF MD!StartMove, MD!UnlinkObject, MD!MoveVariants
  <2>2. PICK at \in {"wait", "copy", "variants", "row"} : MD!Go(q, at)
    BY <1>4 DEF MD!StartMove, MD!UnlinkObject, MD!MoveVariants
  <2> QED BY <1>2, <1>3, <2>1, <2>2
<1>5. CASE uploading[q].pc = "copy"
  <2>1. UNCHANGED <<media, document>>
    BY <1>5 DEF MD!CopyObject
  <2>2. CASE uploading[q].url \notin object
    <3>1. MD!MoveEnds(q, FALSE)
      BY <1>5, <2>2, Zenon DEF MD!CopyObject
    <3> QED BY <1>3, <2>1, <3>1, MediaSafeEnds
  <2>3. CASE uploading[q].url \in object
    <3>1. PICK at \in {"unlink", "variants"} : MD!Go(q, at)
      BY <1>5, <2>3 DEF MD!CopyObject
    <3> QED BY <1>2, <1>3, <2>1, <3>1
  <2> QED BY <2>2, <2>3
<1>6. CASE uploading[q].pc = "row"
  <2>1. UNCHANGED document
    BY <1>6 DEF MD!MoveRow
  <2>2. CASE MD!Exists
    <3>1. PICK put : put = [url |-> "private", variants |-> FALSE, visibility |-> "private"]
      BY Zenon
    <3>2. media' = put /\ MD!Go(q, "prior") /\ put.url = "private" /\ put.visibility = "private"
      BY <1>6, <2>2, <3>1 DEF MD!MoveRow
    <3>3. MediaSafe'
      BY <3>2 DEF MediaSafe
    <3> QED BY <1>2, <3>2, <3>3
  <2>3. CASE ~MD!Exists
    <3>1. MD!MoveEnds(q, FALSE) /\ UNCHANGED media
      BY <1>6, <2>3, Zenon DEF MD!MoveRow
    <3> QED BY <1>3, <2>1, <3>1, MediaSafeEnds
  <2> QED BY <2>2, <2>3
<1>7. CASE uploading[q].pc = "prior"
  <2>1. MD!MoveEnds(q, TRUE) /\ UNCHANGED media /\ media.url = "private"
    BY <1>1, <1>7 DEF MD!MovePrior, MediaSafely
  <2>2. MediaSafe'
    BY <1>1, <2>1 DEF MediaSafe
  <2> QED BY <2>1, <2>2, MediaSafeEnds
<1>8. CASE uploading[q].pc = "record"
  <2>1. UNCHANGED media /\ media.url = "private" /\ uploading' = [uploading EXCEPT ![q] = MD!Idle]
    BY <1>1, <1>8 DEF MD!RecordDocument, MD!End, MediaSafely
  <2>2. MediaSafe'
    BY <1>1, <2>1 DEF MediaSafe
  <2> QED BY <1>1, <2>1, <2>2, MediaSafeJoins
<1> QED BY <1>4, <1>5, <1>6, <1>7, <1>8

LEMMA MediaSafeFails == ASSUME MediaInv, MediaSafeInv, solo, UNCHANGED solo, NEW q \in Requests,
        MD!StepFails(q)
  PROVE MediaSafeInv'
<1>1. uploading[q] # MD!Idle /\ UNCHANGED media /\ MediaSafe /\ MediaSafely(uploading[q])
  BY DEF MD!StepFails, MD!Idle, MediaSafeInv
<1>2. uploading[q] \in MediaCalls
  BY <1>1, MediaKnown
<1>3. MediaSafe'
  <2>1. CASE uploading[q].pc # "prior"
    <3>1. UNCHANGED document
      BY <2>1, Zenon DEF MD!StepFails
    <3> QED BY <1>1, <3>1 DEF MediaSafe
  <2>2. CASE uploading[q].pc = "prior"
    <3>1. uploading[q].op \in {"submit", "open"}
      BY <1>2, <2>2 DEF MediaCalls, UploadCall, DeleteCall, UpdateCall, MoveCall
    <3>2. media.url = "private"
      BY <1>1, <2>2, <3>1 DEF MediaSafely
    <3> QED BY <1>1, <3>2 DEF MediaSafe
  <2> QED BY <2>1, <2>2
<1>4. CASE MD!Moves(uploading[q].op) /\ uploading[q].pc # "record"
  <2>1. MD!MoveEnds(q, FALSE)
    BY <1>4, Zenon DEF MD!StepFails
  <2> QED BY <1>3, <1>4, <2>1, MediaSafeEnds
<1>5. CASE ~(MD!Moves(uploading[q].op) /\ uploading[q].pc # "record")
  <2>1. uploading' = [uploading EXCEPT ![q] = MD!Idle]
    BY <1>5, Zenon DEF MD!StepFails, MD!End
  <2> QED BY <1>1, <1>3, <2>1, MediaSafeJoins
<1> QED BY <1>4, <1>5

LEMMA MediaSafeStep == ASSUME MediaInv, MediaSafeInv, MD!MediaNext PROVE MediaSafeInv'
<1>0. UNCHANGED solo
  BY DEF MD!MediaNext
<1>1. CASE ~solo
  BY <1>0, <1>1 DEF MediaSafeInv
<1>2. CASE solo
  <2>1. ASSUME MD!Crash PROVE MediaSafeInv'
    <3>1. UNCHANGED <<media, document>> /\ \A q \in Requests : uploading'[q] = MD!Idle
      BY <2>1 DEF MD!Crash
    <3> QED BY <1>2, <3>1 DEF MediaSafeInv, MediaSafe
  <2> QED BY <1>0, <1>2, <2>1, MediaSafeUploads, MediaSafeReads, MediaSafeDeletes, MediaSafeMoves,
             MediaSafeFails DEF MD!MediaNext
<1> QED BY <1>1, <1>2

LEMMA MediaSafeSame == ASSUME MediaSafeInv, UNCHANGED <<mdVars, solo>> PROVE MediaSafeInv'
<1>1. UNCHANGED <<media, document, uploading, solo>>
  BY DEF mdVars
<1> QED BY <1>1 DEF MediaSafeInv, MediaSafe, MediaSafely
-----------------------------------------------------------------------------
(* Forms *)

SentStatus == {"submitted", "pending_approval", "approved", "rejected"}
SentRow == [version : 1..MaxEdits, answer : [Questions -> Answers], status : SentStatus,
            state : BOOLEAN]
ApprovalRow == [action : {"approved", "rejected", "noted"}, needed : Nat]
EditCall == [op : {"update"}, pc : {"drop", "add", "bump"}, fields : SUBSET Questions]
SubmitCall == [op : {"submit"}, pc : {"insert"}, id : Sent,
               row : {r \in SentRow : r.status = "submitted"}]
ApproveCall == [op : {"approve"}, pc : {"insert", "count", "write"}, id : Sent,
                action : {"approved", "rejected", "noted"}, status : SentStatus,
                state : BOOLEAN, needed : Nat]
FormCalls == EditCall \cup SubmitCall \cup ApproveCall
FormsTyped ==
    /\ form \in [version : -1..MaxEdits, steps : -1..MaxSteps]
    /\ field \subseteq Questions /\ questions \in [1..MaxEdits -> SUBSET Questions]
    /\ submission \in [Sent -> SentRow \cup {FO!NoSubmission}]
    /\ approval \in [Sent -> Seq(ApprovalRow)]
    /\ \A s \in Sent : Len(approval[s]) <= MaxApprovals
FormCallsTyped ==
    /\ DOMAIN filling = Requests
    /\ \A q \in Requests : filling[q] = FO!Idle \/ filling[q] \in FormCalls
    /\ \A q, r \in Requests : q # r /\ filling[q] # FO!Idle /\ filling[r] # FO!Idle
         => {filling[q].op, filling[r].op} \subseteq formRival

\* No edit fails, and none overlaps with a submission.
Apart == "fail" \notin formRival /\ ~({"update", "submit"} \subseteq formRival)
\* A submission passes the checks of its version; a decision has its row; the
\* last row stands.
Answered(r) == \A f \in questions[r.version] : ~FO!Refuses(f, r.answer[f])
Judged(st, rows) ==
    /\ st = "approved" => \E i \in 1..Len(rows) : /\ rows[i].action = "approved"
                                                  /\ rows[i].needed <= FO!Approvals(rows)
    /\ st = "rejected" => \E i \in 1..Len(rows) : rows[i].action = "rejected"
LastWord(st, rows) ==
    rows # <<>> =>
        /\ rows[Len(rows)].action = "rejected" => st = "rejected"
        /\ rows[Len(rows)].action = "approved" =>
             st = IF FO!Approvals(rows) >= rows[Len(rows)].needed THEN "approved"
                  ELSE "pending_approval"

FormKnows(c) ==
    /\ form.version # 0
    /\ c.op = "submit" => /\ form.version > 0 => c.row.version <= form.version
                          /\ Apart => Answered(c.row)
    /\ c.op = "approve" /\ form.version # -1 =>
         /\ submission[c.id] # FO!NoSubmission
         /\ Judged(c.status, approval[c.id])
         /\ c.pc # "insert" => \E i \in 1..Len(approval[c.id]) :
              approval[c.id][i].action = c.action /\ approval[c.id][i].needed = c.needed
\* What an approval knows that runs alone.
FormAlone(c) ==
    c.op = "approve" /\ form.version # -1 =>
        /\ c.pc \in {"insert", "count"} => c.status = submission[c.id].status
        /\ c.pc = "count" =>
             LET rows == approval[c.id] IN
             rows # <<>> /\ rows[Len(rows)].action = c.action /\ rows[Len(rows)].needed = c.needed
        /\ c.pc = "write" => LastWord(c.status, approval[c.id])
\* No approval of this submission is half way.
Undisturbed(s) == \A q \in Requests :
    filling[q].op = "approve" => filling[q].pc = "insert" \/ filling[q].id # s

FormRows ==
    \A s \in Sent :
        /\ submission[s] # FO!NoSubmission =>
             /\ form.version > 0 /\ submission[s].version <= form.version
             /\ Judged(submission[s].status, approval[s])
             /\ Apart => Answered(submission[s])
        /\ submission[s] = FO!NoSubmission => approval[s] = <<>>
FormFields ==
    ("fail" \notin formRival /\ form.version > 0
       /\ \A q \in Requests : filling[q].op # "update") => field = questions[form.version]
FormInv ==
    /\ FormsTyped /\ FormCallsTyped
    /\ \A q \in Requests : filling[q] # FO!Idle => FormKnows(filling[q])
    /\ FormRows /\ FormFields
    /\ "approve" \notin formRival =>
         /\ \A q \in Requests : filling[q] # FO!Idle => FormAlone(filling[q])
         /\ \A s \in Sent : Undisturbed(s) => LastWord(submission[s].status, approval[s])

\* The last words, when approvals do not overlap.
FormLast ==
    "approve" \notin formRival =>
         /\ \A q \in Requests : filling[q] # FO!Idle => FormAlone(filling[q])
         /\ \A s \in Sent : Undisturbed(s) => LastWord(submission[s].status, approval[s])


LEMMA FormCallIs == ASSUME NEW c \in FormCalls
  PROVE /\ c # FO!Idle /\ c.op \in {"update", "submit", "approve"}
        /\ c.op = "update" => c \in EditCall
        /\ c.op = "submit" => c \in SubmitCall
        /\ c.op = "approve" => c \in ApproveCall
<1>1. c.op # "idle"
  BY DEF FormCalls, EditCall, SubmitCall, ApproveCall
<1> QED BY <1>1 DEF FormCalls, EditCall, SubmitCall, ApproveCall, FO!Idle

LEMMA FormCounts == \A S : FO!Cardinality(S) = Cardinality(S)
  BY DEF FO!Cardinality, Cardinality

LEMMA ApprovalsType == ASSUME NEW rows \in Seq(ApprovalRow)
  PROVE FO!Approvals(rows) \in Nat
<1>1. IsFiniteSet(1..Len(rows))
  BY FS_Interval
<1>2. {i \in 1..Len(rows) : rows[i].action = "approved"} \subseteq 1..Len(rows)
  OBVIOUS
<1>3. IsFiniteSet({i \in 1..Len(rows) : rows[i].action = "approved"})
  BY <1>1, <1>2, FS_Subset
<1> QED BY <1>3, FS_CardinalityType, FormCounts DEF FO!Approvals

LEMMA ApprovalsGrow == ASSUME NEW rows \in Seq(ApprovalRow), NEW r \in ApprovalRow
  PROVE FO!Approvals(rows) <= FO!Approvals(Append(rows, r))
<1> DEFINE more == Append(rows, r)
<1> DEFINE A(rs) == {i \in 1..Len(rs) : rs[i].action = "approved"}
<1>1. IsFiniteSet(1..Len(more))
  BY FS_Interval
<1>2. A(more) \subseteq 1..Len(more)
  OBVIOUS
<1>3. IsFiniteSet(A(more))
  BY <1>1, <1>2, FS_Subset
<1>4. A(rows) \subseteq A(more)
  OBVIOUS
<1>5. Cardinality(A(rows)) <= Cardinality(A(more))
  BY <1>3, <1>4, FS_Subset
<1> QED BY <1>5, FormCounts, Zenon DEF FO!Approvals

LEMMA JudgedGrows == ASSUME NEW rows \in Seq(ApprovalRow), NEW r \in ApprovalRow, NEW st,
        Judged(st, rows)
  PROVE Judged(st, Append(rows, r))
<1>6. \A i \in 1..Len(rows) : i \in 1..Len(Append(rows, r)) /\ Append(rows, r)[i] = rows[i]
  OBVIOUS
<1>7. \A i \in 1..Len(rows) : rows[i].needed \in Nat
  <2>1. \A i \in 1..Len(rows) : rows[i] \in ApprovalRow
    OBVIOUS
  <2> QED BY <2>1 DEF ApprovalRow
<1>2. FO!Approvals(rows) \in Nat /\ Append(rows, r) \in Seq(ApprovalRow)
  BY ApprovalsType
<1>3. FO!Approvals(Append(rows, r)) \in Nat
  BY <1>2, ApprovalsType, Zenon
<1>4. FO!Approvals(rows) <= FO!Approvals(Append(rows, r))
  BY ApprovalsGrow
<1>5. \A n \in Nat : n <= FO!Approvals(rows) => n <= FO!Approvals(Append(rows, r))
  BY <1>2, <1>3, <1>4
<1> QED BY <1>5, <1>6, <1>7 DEF Judged

LEMMA FormHolds == ASSUME FormInv
  PROVE FO!TypeOK /\ FO!SubmissionsChecked /\ FO!DecisionStands
<1>1. FO!TypeOK
  <2>1. \A q \in Requests : filling[q].op \in {"idle", "update", "submit", "approve"}
    BY FormCallIs DEF FormInv, FormCallsTyped, FO!Idle
  <2>2. \A s \in Sent : submission[s].status \in FO!StatusSet
    BY DEF FormInv, FormsTyped, SentRow, SentStatus, FO!NoSubmission, FO!StatusSet
  <2> QED BY <2>1, <2>2 DEF FO!TypeOK, FormInv, FormsTyped
<1>2. FO!SubmissionsChecked
  BY DEF FormInv, FormRows, Apart, Answered, FO!SubmissionsChecked
<1>3. FO!DecisionStands
  <2>1. SUFFICES ASSUME NEW s \in Sent
        PROVE /\ Judged(submission[s].status, approval[s])
              /\ (\A q \in Requests : filling[q].op # "approve") /\ "approve" \notin formRival
                   => LastWord(submission[s].status, approval[s])
    BY DEF FO!DecisionStands, Judged, LastWord
  <2>2. Judged(submission[s].status, approval[s])
    BY DEF FormInv, FormRows, Judged, FO!NoSubmission
  <2> QED BY <2>2 DEF FormInv, Undisturbed
<1> QED BY <1>1, <1>2, <1>3

LEMMA FormStart == ASSUME FO!Init PROVE FormInv
<1>1. FormsTyped
  BY FormsAssumption DEF FO!Init, FormsTyped
<1>2. \A s \in Sent : submission[s] = FO!NoSubmission /\ approval[s] = <<>>
  BY DEF FO!Init
<1>3. \A q \in Requests : filling[q] = FO!Idle
  BY DEF FO!Init
<1>4. FormRows /\ FormFields
  BY <1>2 DEF FO!Init, FormRows, FormFields
<1>5. \A s \in Sent : LastWord(submission[s].status, approval[s])
  BY <1>2 DEF LastWord
<1> QED BY <1>1, <1>3, <1>4, <1>5 DEF FO!Init, FormInv, FormCallsTyped

LEMMA FormJoins == ASSUME NEW q \in Requests, NEW new, FormInv, FormsTyped', FormCallsTyped', FormRows',
        FormFields', FormLast', UNCHANGED formRival,
        filling'[q] = new, \A r \in Requests : r # q => filling'[r] = filling[r],
        \A r \in Requests : r # q /\ filling[r] # FO!Idle => FormKnows(filling[r])',
        new # FO!Idle => FormKnows(new)'
  PROVE FormInv'
<1>1. \A r \in Requests : filling'[r] # FO!Idle => FormKnows(filling[r])'
  <2>1. ASSUME NEW r \in Requests, filling'[r] # FO!Idle PROVE FormKnows(filling[r])'
    <3>1. CASE r = q
      <4>1. FormKnows(filling[q])'
        BY <2>1, <3>1
      <4> QED BY <3>1, <4>1
    <3>2. CASE r # q
      BY <2>1, <3>2
    <3> QED BY <3>1, <3>2
  <2> QED BY <2>1
<1> QED BY <1>1 DEF FormInv, FormLast

LEMMA FormMoves == ASSUME FormInv, NEW q \in Requests, NEW new, filling[q] # FO!Idle,
        filling' = [filling EXCEPT ![q] = new], UNCHANGED formRival,
        new = FO!Idle \/ (new \in FormCalls /\ new.op = filling[q].op)
  PROVE /\ FormCallsTyped' /\ filling'[q] = new
        /\ \A r \in Requests : r # q => filling'[r] = filling[r]
<1> QED BY DEF FormInv, FormCallsTyped

LEMMA FormBegins == ASSUME FormInv, NEW q \in Requests, NEW new \in FormCalls,
        FO!Begin(q, new), UNCHANGED formRival
  PROVE /\ FormCallsTyped' /\ filling'[q] = new /\ filling[q] = FO!Idle
        /\ \A r \in Requests : r # q => filling'[r] = filling[r]
        /\ \A r \in Requests : r # q /\ filling[r] # FO!Idle => {new.op, filling[r].op} \subseteq formRival
<1>1. /\ filling[q] = FO!Idle /\ filling' = [filling EXCEPT ![q] = new]
      /\ \A r \in Requests : filling[r] # FO!Idle => {new.op, filling[r].op} \subseteq formRival
  BY DEF FO!Begin, FO!Free
<1>2. filling'[q] = new /\ \A r \in Requests : r # q => filling'[r] = filling[r]
  BY <1>1 DEF FormInv, FormCallsTyped
<1>3. FormCallsTyped'
  BY <1>1, <1>2 DEF FormInv, FormCallsTyped
<1> QED BY <1>1, <1>2, <1>3

\* What a step keeps that leaves form, versions, submissions and approvals.
LEMMA FormQuiet == ASSUME FormInv,
        UNCHANGED <<form, questions, submission, approval, formRival>>
  PROVE /\ FormRows' /\ (field' \subseteq Questions => FormsTyped')
        /\ \A c : FormKnows(c) => FormKnows(c)'
        /\ \A c : FormAlone(c) => FormAlone(c)'
<1>1. \A r : Answered(r)' = Answered(r)
  BY DEF Answered
<1>2. FormRows'
  BY <1>1 DEF FormInv, FormRows, Apart
<1>3. field' \subseteq Questions => FormsTyped'
  BY DEF FormInv, FormsTyped
<1>4. \A c : FormKnows(c) => FormKnows(c)'
  BY <1>1 DEF FormKnows, Apart
<1>5. \A c : FormAlone(c) => FormAlone(c)'
  BY DEF FormAlone
<1> QED BY <1>2, <1>3, <1>4, <1>5

\* A step of an edit or a submission: no approval is under way beside it.
LEMMA FormNoApproval == ASSUME FormInv, NEW q \in Requests, UNCHANGED <<approval, formRival>>,
        filling[q] # FO!Idle => filling[q].op # "approve",
        filling'[q].op # "approve", \A r \in Requests : r # q => filling'[r] = filling[r],
        \A r \in Requests : r # q /\ filling[r].op = "approve" => "approve" \in formRival,
        \A s \in Sent : submission'[s].status = submission[s].status \/ approval[s] = <<>>
  PROVE FormLast'
<1>1. SUFFICES ASSUME "approve" \notin formRival PROVE FormLast'
  BY DEF FormLast
<1>2. \A r \in Requests : filling[r].op # "approve" /\ filling'[r].op # "approve"
  BY <1>1 DEF FO!Idle
<1>3. \A s \in Sent : LastWord(submission[s].status, approval[s])
  BY <1>1, <1>2 DEF FormInv, Undisturbed
<1>4. \A s \in Sent : LastWord(submission'[s].status, approval[s])
  BY <1>3 DEF LastWord
<1>5. \A s \in Sent : LastWord(submission[s].status, approval[s])'
  BY <1>4 DEF LastWord
<1>6. \A c : c.op # "approve" => FormAlone(c)'
  BY DEF FormAlone
<1> QED BY <1>2, <1>5, <1>6 DEF FormLast

LEMMA FormCreate == ASSUME FormInv, FO!CreateForm, UNCHANGED formRival PROVE FormInv'
<1>1. PICK fs \in SUBSET Questions : field' = fs /\ questions' = [questions EXCEPT ![1] = fs]
  BY Zenon DEF FO!CreateForm
<1>2. /\ form.version = 0 /\ form' = [version |-> 1, steps |-> -1]
      /\ UNCHANGED <<submission, approval, filling>>
  BY DEF FO!CreateForm
<1>3. \A q \in Requests : filling[q] = FO!Idle /\ filling'[q] = FO!Idle
  BY <1>2 DEF FormInv, FormKnows
<1>4. \A s \in Sent : submission[s] = FO!NoSubmission /\ approval[s] = <<>>
  BY <1>2 DEF FormInv, FormRows
<1>5. FormsTyped' /\ questions'[1] = fs
  BY <1>1, <1>2, FormsAssumption DEF FormInv, FormsTyped
<1>6. FormCallsTyped'
  BY <1>2 DEF FormInv, FormCallsTyped
<1>7. FormRows' /\ FormFields'
  BY <1>1, <1>2, <1>4, <1>5 DEF FormRows, FormFields
<1>8. \A s \in Sent : LastWord(submission[s].status, approval[s])'
  BY <1>2, <1>4 DEF LastWord
<1> QED BY <1>3, <1>5, <1>6, <1>7, <1>8 DEF FormInv

LEMMA FormDelete == ASSUME FormInv, FO!DeleteForm, UNCHANGED formRival PROVE FormInv'
<1>1. /\ form' = [version |-> -1, steps |-> -1] /\ field' = {}
      /\ questions' = [v \in 1..MaxEdits |-> {}]
      /\ submission' = [s \in Sent |-> FO!NoSubmission]
      /\ approval' = [s \in Sent |-> <<>>]
      /\ UNCHANGED filling
  BY DEF FO!DeleteForm
<1>2. FormsTyped'
  BY <1>1, FormsAssumption DEF FormInv, FormsTyped
<1>3. FormCallsTyped'
  BY <1>1 DEF FormInv, FormCallsTyped
<1>4. \A c : c \in FormCalls => FormKnows(c)'
  <2>1. ASSUME NEW c \in FormCalls PROVE FormKnows(c)'
    <3>1. c.op = "submit" => c.row.version \in 1..MaxEdits
      BY FormCallIs DEF SubmitCall, SentRow
    <3> QED BY <1>1, <3>1 DEF FormKnows, Answered
  <2> QED BY <2>1
<1>5. FormRows' /\ FormFields'
  BY <1>1 DEF FormRows, FormFields
<1>6. FormLast'
  BY <1>1 DEF FormLast, LastWord, FormAlone
<1> QED BY <1>1, <1>2, <1>3, <1>4, <1>5, <1>6 DEF FormInv, FormLast, FormCallsTyped

LEMMA FormWorkflow == ASSUME FormInv, FO!SetWorkflow, UNCHANGED formRival PROVE FormInv'
<1>1. PICK n \in 0..MaxSteps : form' = [form EXCEPT !.steps = n]
  BY DEF FO!SetWorkflow
<1>2. UNCHANGED <<field, questions, submission, approval, filling>>
  BY DEF FO!SetWorkflow
<1>3. form' \in [version : -1..MaxEdits, steps : -1..MaxSteps] /\ form'.version = form.version
  BY <1>1, FormsAssumption DEF FormInv, FormsTyped
<1>4. FormsTyped' /\ FormCallsTyped'
  BY <1>2, <1>3 DEF FormInv, FormsTyped, FormCallsTyped
<1>5. \A r : Answered(r)' = Answered(r)
  BY <1>2 DEF Answered
<1>6. FormRows' /\ FormFields'
  BY <1>2, <1>3, <1>5 DEF FormInv, FormRows, FormFields, Apart
<1>7. \A c : (FormKnows(c) => FormKnows(c)') /\ (FormAlone(c) => FormAlone(c)')
  BY <1>2, <1>3, <1>5 DEF FormKnows, FormAlone, Apart
<1>8. FormLast'
  BY <1>2, <1>7 DEF FormInv, FormLast, Undisturbed
<1>9. \A q \in Requests : filling'[q] # FO!Idle => FormKnows(filling[q])'
  BY <1>2, <1>7 DEF FormInv
<1> QED BY <1>4, <1>6, <1>8, <1>9 DEF FormInv, FormLast

LEMMA FormOthers == ASSUME FormInv, NEW q \in Requests,
        \A r \in Requests : r # q => filling'[r] = filling[r],
        \A c \in FormCalls : FormKnows(c) => FormKnows(c)'
  PROVE \A r \in Requests : r # q /\ filling[r] # FO!Idle => FormKnows(filling[r])'
<1>1. ASSUME NEW r \in Requests, r # q, filling[r] # FO!Idle PROVE FormKnows(filling[r])'
  <2>1. filling'[r] = filling[r] /\ FormKnows(filling[r]) /\ filling[r] \in FormCalls
    BY <1>1 DEF FormInv, FormCallsTyped
  <2>2. PICK c : c = filling[r]
    OBVIOUS
  <2>3. FormKnows(c)'
    BY <2>1, <2>2
  <2> QED BY <2>1, <2>2, <2>3
<1> QED BY <1>1

LEMMA FormRead == ASSUME FormInv, NEW q \in Requests, FO!ReadForm(q), UNCHANGED formRival
  PROVE FormInv'
<1>1. PICK fs \in SUBSET Questions :
          FO!Begin(q, [op |-> "update", pc |-> "drop", fields |-> fs])
  BY Zenon DEF FO!ReadForm
<1>2. /\ form.version # 0
      /\ UNCHANGED <<form, field, questions, submission, approval>>
  BY DEF FO!ReadForm, FO!formVars
<1>3. PICK new : new = [op |-> "update", pc |-> "drop", fields |-> fs]
  BY Zenon
<1>4. new \in FormCalls /\ new.op = "update" /\ new # FO!Idle
  BY <1>3 DEF FormCalls, EditCall, FO!Idle
<1>5. /\ FormCallsTyped' /\ filling'[q] = new /\ filling[q] = FO!Idle
      /\ \A r \in Requests : r # q => filling'[r] = filling[r]
      /\ \A r \in Requests : r # q /\ filling[r] # FO!Idle => {new.op, filling[r].op} \subseteq formRival
  BY <1>1, <1>3, <1>4, FormBegins
<1>6. FormRows' /\ FormsTyped' /\ \A c : FormKnows(c) => FormKnows(c)'
  BY <1>2, FormQuiet DEF FormInv, FormsTyped
<1>7. FormLast'
  <2>1. \A r \in Requests : r # q /\ filling[r].op = "approve" => "approve" \in formRival
    BY <1>5 DEF FO!Idle
  <2> QED BY <1>2, <1>4, <1>5, <2>1, FormNoApproval
<1>8. FormKnows(new)'
  BY <1>2, <1>4 DEF FormKnows
<1>9. FormFields'
  BY <1>4, <1>5 DEF FormFields
<1>10. \A r \in Requests : r # q /\ filling[r] # FO!Idle => FormKnows(filling[r])'
  BY <1>5, <1>6, FormOthers
<1> QED BY <1>4, <1>5, <1>6, <1>7, <1>8, <1>9, <1>10, FormJoins

LEMMA FormKnown == ASSUME FormInv, NEW q \in Requests, filling[q] # FO!Idle
  PROVE /\ filling[q] \in FormCalls /\ FormKnows(filling[q])
        /\ "approve" \notin formRival => FormAlone(filling[q])
        /\ \A r \in Requests : r # q /\ filling[r] # FO!Idle
             => {filling[q].op, filling[r].op} \subseteq formRival
        /\ filling[q].op # "approve" =>
             \A r \in Requests : r # q /\ filling[r].op = "approve" => "approve" \in formRival
<1>1. \A r \in Requests : filling[r].op = "approve" => filling[r] # FO!Idle
  BY DEF FO!Idle
<1> QED BY <1>1 DEF FormInv, FormCallsTyped

LEMMA FormEdits == ASSUME FormInv, NEW q \in Requests, NEW new, filling[q].op = "update",
        UNCHANGED <<form, questions, submission, approval, formRival>>,
        field' \subseteq Questions, filling' = [filling EXCEPT ![q] = new],
        new \in EditCall \/ (new = FO!Idle /\ ("fail" \in formRival \/ form.version = -1))
  PROVE FormInv'
<1>1. filling[q] # FO!Idle /\ filling[q].op # "approve"
  BY DEF FO!Idle
<1>2. new.op # "approve" /\ (new = FO!Idle \/ (new \in FormCalls /\ new.op = "update"))
  BY DEF FormCalls, EditCall, FO!Idle
<1>3. /\ FormCallsTyped' /\ filling'[q] = new
      /\ \A r \in Requests : r # q => filling'[r] = filling[r]
  BY <1>1, <1>2, FormMoves, Zenon
<1>4. FormRows' /\ FormsTyped' /\ \A c : FormKnows(c) => FormKnows(c)'
  BY FormQuiet
<1>5. FormLast'
  <2>1. \A r \in Requests : r # q /\ filling[r].op = "approve" => "approve" \in formRival
    BY <1>1, FormKnown
  <2>2. filling'[q].op # "approve" /\ \A s \in Sent : submission'[s].status = submission[s].status
    BY <1>2, <1>3
  <2>3. UNCHANGED <<approval, formRival>>
    OBVIOUS
  <2> QED BY <1>1, <1>3, <2>1, <2>2, <2>3, FormNoApproval
<1>6. new # FO!Idle => FormKnows(new)'
  BY <1>1, <1>2, FormKnown DEF FormKnows
<1>7. FormFields'
  <2>1. new.op = "update" \/ "fail" \in formRival \/ form.version = -1
    BY DEF EditCall
  <2>2. -1 > 0 <=> FALSE
    OBVIOUS
  <2> QED BY <1>3, <2>1, <2>2 DEF FormFields
<1>8. \A r \in Requests : r # q /\ filling[r] # FO!Idle => FormKnows(filling[r])'
  BY <1>3, <1>4, FormOthers
<1> QED BY <1>3, <1>4, <1>5, <1>6, <1>7, <1>8, FormJoins

LEMMA FormEditKnown == ASSUME FormInv, NEW q \in Requests, filling[q].op = "update"
  PROVE filling[q] \in EditCall /\ filling[q] # FO!Idle /\ form.version # 0
<1>1. filling[q] # FO!Idle
  BY DEF FO!Idle
<1> QED BY <1>1, FormKnown, FormCallIs DEF FormKnows

LEMMA FormDrop == ASSUME FormInv, NEW q \in Requests, FO!At(q, "update", "drop"), FO!DropFields(q),
        UNCHANGED formRival
  PROVE FormInv'
<1>1. filling[q].op = "update"
  BY DEF FO!At
<1>2. PICK new : new = [filling[q] EXCEPT !.pc = "add"]
  BY Zenon
<1>3. new \in EditCall
  BY <1>1, <1>2, FormEditKnown DEF EditCall
<1> QED BY <1>1, <1>2, <1>3, FormEdits, Zenon DEF FO!DropFields

LEMMA FormAdd == ASSUME FormInv, NEW q \in Requests, FO!At(q, "update", "add"), FO!AddFields(q),
        UNCHANGED formRival
  PROVE FormInv'
<1>1. filling[q].op = "update"
  BY DEF FO!At
<1>2. PICK new : new = [filling[q] EXCEPT !.pc = "bump"]
  BY Zenon
<1>3. new \in EditCall /\ filling[q].fields \subseteq Questions
  BY <1>1, <1>2, FormEditKnown DEF EditCall
<1>4. field' \subseteq Questions
  BY <1>3 DEF FormInv, FormsTyped, FO!AddFields
<1> QED BY <1>1, <1>2, <1>3, <1>4, FormEdits, Zenon DEF FO!AddFields

LEMMA FormAddFails == ASSUME FormInv, NEW q \in Requests, FO!At(q, "update", "add"),
        FO!AddFieldsFails(q), UNCHANGED formRival
  PROVE FormInv'
<1>1. filling[q].op = "update"
  BY DEF FO!At
<1>2. /\ UNCHANGED <<form, field, questions, submission, approval>>
      /\ filling' = [filling EXCEPT ![q] = FO!Idle]
      /\ "fail" \in formRival \/ form.version = -1
  BY DEF FO!AddFieldsFails, FO!formVars, FO!End
<1>3. field' \subseteq Questions
  BY <1>2 DEF FormInv, FormsTyped
<1> QED BY <1>1, <1>2, <1>3, FormEdits, Zenon

LEMMA FormBump == ASSUME FormInv, NEW q \in Requests, FO!At(q, "update", "bump"),
        FO!BumpVersion(q), UNCHANGED formRival
  PROVE FormInv'
<1>1. filling[q].op = "update" /\ filling[q].op # "approve"
  BY DEF FO!At
<1>2. /\ UNCHANGED <<field, submission, approval>>
      /\ filling' = [filling EXCEPT ![q] = FO!Idle]
  BY DEF FO!BumpVersion, FO!End
<1>3. CASE form.version = -1
  <2>1. UNCHANGED <<form, questions>>
    BY <1>3 DEF FO!BumpVersion
  <2>2. field' \subseteq Questions
    BY <1>2 DEF FormInv, FormsTyped
  <2> QED BY <1>1, <1>2, <1>3, <2>1, <2>2, FormEdits, Zenon
<1>4. CASE form.version # -1
  <2>1. PICK v : v = form.version + 1
    OBVIOUS
  <2>2. /\ form.version \in 1..MaxEdits /\ v \in 1..MaxEdits /\ v > form.version
        /\ form' = [form EXCEPT !.version = v] /\ questions' = [questions EXCEPT ![v] = field]
    <3>1. /\ form.version < MaxEdits
          /\ form' = [form EXCEPT !.version = v] /\ questions' = [questions EXCEPT ![v] = field]
      BY <1>4, <2>1 DEF FO!BumpVersion
    <3>2. form.version \in -1..MaxEdits /\ form.version # 0
      BY <1>1, FormEditKnown DEF FormInv, FormsTyped
    <3> QED BY <1>4, <2>1, <3>1, <3>2, FormsAssumption
  <2>3. form' \in [version : -1..MaxEdits, steps : -1..MaxSteps] /\ form'.version = v
    BY <2>2, FormsAssumption DEF FormInv, FormsTyped
  <2>4. /\ questions' \in [1..MaxEdits -> SUBSET Questions] /\ questions'[v] = field
        /\ \A n \in 1..MaxEdits : n <= form.version => questions'[n] = questions[n]
    BY <2>2, FormsAssumption DEF FormInv, FormsTyped
  <2>5. FormsTyped'
    BY <1>2, <2>3, <2>4 DEF FormInv, FormsTyped
  <2>6. \A r \in SentRow : r.version <= form.version /\ Answered(r) => Answered(r)'
    BY <2>4 DEF Answered, SentRow
  <2>7. \A c \in FormCalls : FormKnows(c) => FormKnows(c)'
    <3>1. ASSUME NEW c \in FormCalls, FormKnows(c) PROVE FormKnows(c)'
      <4>1. c.op = "submit" => c.row \in SentRow /\ c.row.version \in 1..MaxEdits
        BY FormCallIs DEF SubmitCall, SentRow
      <4>2. c.op = "submit" => c.row.version <= form.version /\ (Apart => Answered(c.row))
        BY <2>2, <3>1, FormsAssumption DEF FormKnows
      <4>3. c.op = "submit" => c.row.version <= v /\ (Apart => Answered(c.row)')
        BY <2>2, <2>6, <4>1, <4>2, FormsAssumption
      <4> QED BY <1>2, <2>2, <2>3, <3>1, <4>3, FormsAssumption DEF FormKnows, Apart
    <3> QED BY <3>1
  <2>8. FormRows'
    <3>1. ASSUME NEW s \in Sent, submission[s] # FO!NoSubmission
          PROVE submission[s].version <= v /\ (Apart => Answered(submission[s])')
      <4>1. submission[s] \in SentRow
        BY <3>1 DEF FormInv, FormsTyped
      <4>2. submission[s].version \in 1..MaxEdits
        BY <4>1 DEF SentRow
      <4>3. submission[s].version <= form.version /\ (Apart => Answered(submission[s]))
        BY <3>1 DEF FormInv, FormRows
      <4>4. PICK r : r = submission[s]
        OBVIOUS
      <4>5. Apart => Answered(r)'
        BY <2>6, <4>1, <4>3, <4>4
      <4> QED BY <1>2, <2>2, <4>2, <4>3, <4>4, <4>5, FormsAssumption
    <3>2. v > 0
      BY <2>2
    <3> QED BY <1>2, <2>3, <3>1, <3>2 DEF FormInv, FormRows, Apart
  <2>9. /\ FormCallsTyped' /\ filling'[q] = FO!Idle
        /\ \A r \in Requests : r # q => filling'[r] = filling[r]
    BY <1>1, <1>2, FormEditKnown, FormMoves, Zenon
  <2>10. FormLast'
    <3>1. FO!Idle.op # "approve"
      BY DEF FO!Idle
    <3> QED BY <1>1, <1>2, <2>9, <3>1, FormKnown, FormEditKnown, FormNoApproval
  <2>11. FormFields'
    BY <1>2, <2>3, <2>4 DEF FormFields
  <2>12. \A r \in Requests : r # q /\ filling[r] # FO!Idle => FormKnows(filling[r])'
    BY <2>7, <2>9, FormOthers
  <2> QED BY <2>5, <2>8, <2>9, <2>10, <2>11, <2>12, FormJoins
<1> QED BY <1>3, <1>4

LEMMA FormReadSubmit == ASSUME FormInv, NEW q \in Requests, NEW s \in Sent,
        FO!ReadForSubmit(q, s), UNCHANGED formRival
  PROVE FormInv'
<1>1. PICK a \in [Questions -> Answers] :
         /\ \A f \in field : ~FO!Refuses(f, a[f])
         /\ FO!Begin(q, [op |-> "submit", pc |-> "insert", id |-> s,
                      row |-> [version |-> form.version, answer |-> a,
                               status |-> "submitted",
                               state |-> form.steps # -1]])
  BY Zenon DEF FO!ReadForSubmit
<1>2. /\ form.version > 0
      /\ UNCHANGED <<form, field, questions, submission, approval>>
  BY DEF FO!ReadForSubmit, FO!formVars
<1>3. PICK put : put = [version |-> form.version, answer |-> a, status |-> "submitted",
                        state |-> form.steps # -1]
  BY Zenon
<1>4. form.version \in 1..MaxEdits
  BY <1>2, FormsAssumption DEF FormInv, FormsTyped
<1>5. put \in SentRow /\ put.version = form.version /\ put.answer = a /\ put.status = "submitted"
  BY <1>3, <1>4 DEF SentRow, SentStatus
<1>6. PICK new : new = [op |-> "submit", pc |-> "insert", id |-> s, row |-> put]
  BY Zenon
<1>7. new \in FormCalls /\ new.op = "submit" /\ new # FO!Idle /\ new.row = put
  BY <1>5, <1>6 DEF FormCalls, SubmitCall, FO!Idle
<1>8. FO!Begin(q, new)
  BY <1>1, <1>3, <1>6
<1>9. /\ FormCallsTyped' /\ filling'[q] = new /\ filling[q] = FO!Idle
      /\ \A r \in Requests : r # q => filling'[r] = filling[r]
      /\ \A r \in Requests : r # q /\ filling[r] # FO!Idle => {new.op, filling[r].op} \subseteq formRival
  BY <1>7, <1>8, FormBegins
<1>10. FormRows' /\ FormsTyped' /\ \A c : FormKnows(c) => FormKnows(c)'
  BY <1>2, FormQuiet DEF FormInv, FormsTyped
<1>11. FormLast'
  <2>1. \A r \in Requests : r # q /\ filling[r].op = "approve" => "approve" \in formRival
    BY <1>9 DEF FO!Idle
  <2> QED BY <1>2, <1>7, <1>9, <2>1, FormNoApproval
<1>12. FormKnows(new)'
  <2>1. Apart => Answered(put)
    <3>1. SUFFICES ASSUME Apart PROVE Answered(put)
      OBVIOUS
    <3>2. \A r \in Requests : filling[r].op # "update"
      BY <1>7, <1>9, <3>1 DEF Apart, FO!Idle
    <3>3. field = questions[form.version]
      BY <1>2, <3>1, <3>2 DEF FormInv, FormFields, Apart
    <3> QED BY <1>1, <1>5, <3>3 DEF Answered
  <2>2. Answered(put)' = Answered(put)
    BY <1>2 DEF Answered
  <2> QED BY <1>2, <1>4, <1>5, <1>7, <2>1, <2>2, FormsAssumption DEF FormKnows, Apart
<1>13. FormFields'
  <2>1. \A r \in Requests : r # q => filling'[r].op = filling[r].op
    BY <1>9
  <2>2. filling[q].op # "update" /\ filling'[q].op # "update"
    BY <1>7, <1>9 DEF FO!Idle
  <2>3. (\A r \in Requests : filling'[r].op # "update") => \A r \in Requests : filling[r].op # "update"
    BY <2>1, <2>2
  <2> QED BY <1>2, <2>3 DEF FormInv, FormFields
<1>14. \A r \in Requests : r # q /\ filling[r] # FO!Idle => FormKnows(filling[r])'
  BY <1>9, <1>10, FormOthers
<1> QED BY <1>7, <1>9, <1>10, <1>11, <1>12, <1>13, <1>14, FormJoins

\* A request other than an edit ends or goes on.
LEMMA FormFieldsKept == ASSUME FormInv, NEW q \in Requests, UNCHANGED <<form, field, questions, formRival>>,
        filling[q].op # "update", filling'[q].op # "update",
        \A r \in Requests : r # q => filling'[r] = filling[r]
  PROVE FormFields'
<1>1. (\A r \in Requests : filling'[r].op # "update") => \A r \in Requests : filling[r].op # "update"
  OBVIOUS
<1> QED BY <1>1 DEF FormInv, FormFields

LEMMA FormInsert == ASSUME FormInv, NEW q \in Requests, FO!At(q, "submit", "insert"),
        FO!InsertSubmission(q), UNCHANGED formRival
  PROVE FormInv'
<1>1. filling[q].op = "submit" /\ filling[q] # FO!Idle
  BY DEF FO!At, FO!Idle
<1>2. filling[q] \in SubmitCall /\ FormKnows(filling[q])
  BY <1>1, FormKnown, FormCallIs
<1>3. PICK s, put : s = filling[q].id /\ put = filling[q].row
  OBVIOUS
<1>4. s \in Sent /\ put \in SentRow /\ put.status = "submitted"
  BY <1>2, <1>3 DEF SubmitCall
<1>5. /\ UNCHANGED <<form, field, questions, approval>>
      /\ filling' = [filling EXCEPT ![q] = FO!Idle]
      /\ IF form.version = -1 \/ submission[s] # FO!NoSubmission THEN UNCHANGED submission
         ELSE submission' = [submission EXCEPT ![s] = put]
  BY <1>3 DEF FO!InsertSubmission, FO!End
<1>6. /\ FormCallsTyped' /\ filling'[q] = FO!Idle
      /\ \A r \in Requests : r # q => filling'[r] = filling[r]
  BY <1>1, <1>5, FormMoves, Zenon
<1>7. /\ \A r \in Sent : submission'[r] = submission[r] \/ (submission[r] = FO!NoSubmission /\ approval[r] = <<>>)
      /\ submission' \in [Sent -> SentRow \cup {FO!NoSubmission}]
  BY <1>4, <1>5 DEF FormInv, FormsTyped, FormRows
<1>8. FormsTyped'
  BY <1>5, <1>7 DEF FormInv, FormsTyped
<1>9. \A r : Answered(r)' = Answered(r)
  BY <1>5 DEF Answered
<1>10. FormRows'
  <2>1. CASE form.version = -1 \/ submission[s] # FO!NoSubmission
    BY <1>5, <1>9, <2>1 DEF FormInv, FormRows, Apart
  <2>2. CASE ~(form.version = -1 \/ submission[s] # FO!NoSubmission)
    <3>1. form.version \in -1..MaxEdits /\ form.version # 0 /\ form.version # -1
      BY <1>2, <2>2 DEF FormKnows, FormInv, FormsTyped
    <3>2. form.version > 0
      BY <3>1, FormsAssumption
    <3>3. put.version <= form.version /\ (Apart => Answered(put))
      BY <1>1, <1>2, <1>3, <3>2 DEF FormKnows
    <3>4. submission'[s] = put /\ \A r \in Sent : r # s => submission'[r] = submission[r]
      BY <1>4, <1>5, <2>2 DEF FormInv, FormsTyped
    <3>5. put # FO!NoSubmission
      BY <1>4 DEF SentRow, SentStatus, FO!NoSubmission
    <3>6. Judged(put.status, approval[s])
      BY <1>4 DEF Judged
    <3> QED BY <1>5, <1>9, <3>2, <3>3, <3>4, <3>5, <3>6 DEF FormInv, FormRows, Apart
  <2> QED BY <2>1, <2>2
<1>11. FormLast'
  <2>1. \A r \in Requests : r # q /\ filling[r].op = "approve" => "approve" \in formRival
    BY <1>1, FormKnown
  <2>2. FO!Idle.op # "approve"
    BY DEF FO!Idle
  <2> QED BY <1>1, <1>5, <1>6, <1>7, <2>1, <2>2, FormNoApproval
<1>12. FormFields'
  BY <1>1, <1>5, <1>6, FormFieldsKept DEF FO!Idle
<1>13. \A c \in FormCalls : FormKnows(c) => FormKnows(c)'
  <2>1. \A r \in Sent : submission[r] # FO!NoSubmission => submission'[r] # FO!NoSubmission
    BY <1>7
  <2>2. \A c \in FormCalls : c.op = "approve" => c.id \in Sent
    BY FormCallIs DEF ApproveCall
  <2> QED BY <1>5, <1>9, <2>1, <2>2 DEF FormKnows, Apart
<1>14. \A r \in Requests : r # q /\ filling[r] # FO!Idle => FormKnows(filling[r])'
  BY <1>6, <1>13, FormOthers
<1> QED BY <1>6, <1>8, <1>10, <1>11, <1>12, <1>14, FormJoins

\* A step of an approval that runs alone.
LEMMA FormLastOf == ASSUME NEW q \in Requests, NEW new, filling'[q] = new,
        "approve" \notin formRival' =>
          /\ \A r \in Requests : r # q => filling'[r] = FO!Idle
          /\ new # FO!Idle => FormAlone(new)'
          /\ \A s \in Sent : (new.op = "approve" /\ new.pc # "insert" => new.id # s)
               => LastWord(submission'[s].status, approval'[s])
  PROVE FormLast'
<1>1. SUFFICES ASSUME "approve" \notin formRival' PROVE FormLast'
  BY DEF FormLast
<1>2. \A r \in Requests : filling'[r] # FO!Idle => r = q
  BY <1>1
<1>3. FormAlone(filling[q])' \/ new = FO!Idle
  BY <1>1
<1>4. ASSUME NEW r \in Requests, filling'[r] # FO!Idle PROVE FormAlone(filling[r])'
  <2>1. r = q /\ FormAlone(filling[q])'
    BY <1>2, <1>3, <1>4
  <2> QED BY <2>1
<1>5. ASSUME NEW s \in Sent, Undisturbed(s)' PROVE LastWord(submission[s].status, approval[s])'
  <2>1. new.op = "approve" /\ new.pc # "insert" => new.id # s
    BY <1>5 DEF Undisturbed
  <2>2. LastWord(submission'[s].status, approval'[s])
    BY <1>1, <2>1
  <2> QED BY <2>2 DEF LastWord
<1> QED BY <1>4, <1>5 DEF FormLast

LEMMA FormReadSubmission == ASSUME FormInv, NEW q \in Requests, NEW s \in Sent,
        FO!ReadSubmission(q, s), UNCHANGED formRival
  PROVE FormInv'
<1>1. PICK action \in {"approved", "rejected", "noted"} :
         FO!Begin(q, [op |-> "approve", pc |-> "insert", id |-> s,
                   action |-> action, status |-> submission[s].status,
                   state |-> submission[s].state,
                   needed |-> FO!Required(form.steps)])
  BY DEF FO!ReadSubmission
<1>2. /\ submission[s] # FO!NoSubmission
      /\ UNCHANGED <<form, field, questions, submission, approval>>
  BY DEF FO!ReadSubmission, FO!formVars
<1>3. PICK new : new = [op |-> "approve", pc |-> "insert", id |-> s,
                   action |-> action, status |-> submission[s].status,
                   state |-> submission[s].state,
                   needed |-> FO!Required(form.steps)]
  BY Zenon
<1>4. submission[s] \in SentRow /\ form.steps \in -1..MaxSteps
  BY <1>2 DEF FormInv, FormsTyped
<1>5. FO!Required(form.steps) \in Nat
  BY <1>4, FormsAssumption DEF FO!Required
<1>6. /\ new \in FormCalls /\ new # FO!Idle /\ new.op = "approve" /\ new.pc = "insert" /\ new.id = s
      /\ new.status = submission[s].status
  <2>1. new \in ApproveCall
    BY <1>3, <1>4, <1>5 DEF ApproveCall, SentRow
  <2> QED BY <1>3, <2>1 DEF FormCalls, FO!Idle
<1>7. FO!Begin(q, new)
  BY <1>1, <1>3
<1>8. /\ FormCallsTyped' /\ filling'[q] = new /\ filling[q] = FO!Idle
      /\ \A r \in Requests : r # q => filling'[r] = filling[r]
      /\ \A r \in Requests : r # q /\ filling[r] # FO!Idle => {new.op, filling[r].op} \subseteq formRival
  BY <1>6, <1>7, FormBegins
<1>9. FormRows' /\ FormsTyped' /\ \A c : FormKnows(c) => FormKnows(c)'
  BY <1>2, FormQuiet DEF FormInv, FormsTyped
<1>10. FormKnows(new)'
  <2>1. form.version > 0 /\ Judged(submission[s].status, approval[s])
    BY <1>2 DEF FormInv, FormRows
  <2>2. form.version # 0
    BY <2>1
  <2> QED BY <1>2, <1>6, <2>1, <2>2 DEF FormKnows
<1>11. FormFields'
  BY <1>2, <1>6, <1>8, FormFieldsKept DEF FO!Idle
<1>12. FormLast'
  <2>1. ASSUME "approve" \notin formRival'
        PROVE /\ \A r \in Requests : r # q => filling'[r] = FO!Idle
              /\ FormAlone(new)'
              /\ \A r \in Sent : LastWord(submission'[r].status, approval'[r])
    <3>1. \A r \in Requests : filling[r] = FO!Idle
      BY <1>6, <1>8, <2>1
    <3>2. \A r \in Sent : Undisturbed(r)
      BY <3>1 DEF Undisturbed, FO!Idle
    <3>3. \A r \in Sent : LastWord(submission[r].status, approval[r])
      BY <2>1, <3>2 DEF FormInv
    <3>4. FormAlone(new)'
      BY <1>2, <1>6 DEF FormAlone
    <3> QED BY <1>2, <1>8, <3>1, <3>3, <3>4
  <2> QED BY <1>6, <1>8, <2>1, FormLastOf
<1>13. \A r \in Requests : r # q /\ filling[r] # FO!Idle => FormKnows(filling[r])'
  BY <1>8, <1>9, FormOthers
<1> QED BY <1>6, <1>8, <1>9, <1>10, <1>11, <1>12, <1>13, FormJoins

\* What an approval under way knows.
LEMMA FormApproval == ASSUME FormInv, NEW q \in Requests, filling[q].op = "approve"
  PROVE /\ filling[q] # FO!Idle /\ filling[q] \in ApproveCall /\ FormKnows(filling[q])
        /\ form.version # 0 /\ approval[filling[q].id] \in Seq(ApprovalRow)
        /\ form.version # -1 => form.version > 0
        /\ form.version = -1 =>
             /\ submission[filling[q].id] = FO!NoSubmission
             /\ \A s \in Sent : approval[s] = <<>>
        /\ "approve" \notin formRival =>
             /\ FormAlone(filling[q])
             /\ \A r \in Requests : r # q => filling[r] = FO!Idle
             /\ \A s \in Sent : filling[q].pc = "insert" \/ filling[q].id # s
                  => LastWord(submission[s].status, approval[s])
<1>1. filling[q] # FO!Idle
  BY DEF FO!Idle
<1>2. filling[q] \in ApproveCall /\ FormKnows(filling[q])
  BY <1>1, FormKnown, FormCallIs
<1>3. filling[q].id \in Sent
  BY <1>2 DEF ApproveCall
<1>4. form.version # 0 /\ form.version \in -1..MaxEdits
  BY <1>2 DEF FormKnows, FormInv, FormsTyped
<1>5. approval[filling[q].id] \in Seq(ApprovalRow)
  BY <1>3 DEF FormInv, FormsTyped
<1>6. (form.version # -1 => form.version > 0) /\ ~(-1 > 0)
  BY <1>4, FormsAssumption
<1>7. form.version = -1 => \A s \in Sent : submission[s] = FO!NoSubmission /\ approval[s] = <<>>
  BY <1>6 DEF FormInv, FormRows
<1>8. ASSUME "approve" \notin formRival
      PROVE /\ FormAlone(filling[q])
            /\ \A r \in Requests : r # q => filling[r] = FO!Idle
            /\ \A s \in Sent : filling[q].pc = "insert" \/ filling[q].id # s
                  => LastWord(submission[s].status, approval[s])
  <2>1. \A r \in Requests : r # q => filling[r] = FO!Idle
    BY <1>1, <1>8, FormKnown
  <2>2. \A s \in Sent : filling[q].pc = "insert" \/ filling[q].id # s => Undisturbed(s)
    BY <2>1 DEF Undisturbed, FO!Idle
  <2> QED BY <1>1, <1>8, <2>1, <2>2, FormKnown DEF FormInv
<1> QED BY <1>1, <1>2, <1>3, <1>4, <1>5, <1>6, <1>7, <1>8

LEMMA FormInsertApproval == ASSUME FormInv, NEW q \in Requests, FO!At(q, "approve", "insert"),
        FO!InsertApproval(q), UNCHANGED formRival
  PROVE FormInv'
<1>1. filling[q].op = "approve" /\ filling[q].pc = "insert"
  BY DEF FO!At
<1>2. filling[q] # FO!Idle /\ filling[q] \in ApproveCall /\ FormKnows(filling[q]) /\ form.version # 0
  BY <1>1, FormApproval
<1>3. PICK s : s = filling[q].id
  OBVIOUS
<1>4. s \in Sent /\ UNCHANGED <<form, field, questions, submission>>
  BY <1>2, <1>3 DEF ApproveCall, FO!InsertApproval
<1>5. CASE submission[s] = FO!NoSubmission
  <2>1. filling' = [filling EXCEPT ![q] = FO!Idle] /\ UNCHANGED approval
    BY <1>3, <1>5 DEF FO!InsertApproval, FO!End
  <2>2. /\ FormCallsTyped' /\ filling'[q] = FO!Idle
        /\ \A r \in Requests : r # q => filling'[r] = filling[r]
    BY <1>2, <2>1, FormMoves, Zenon
  <2>3. FormRows' /\ FormsTyped' /\ \A c : FormKnows(c) => FormKnows(c)'
    BY <1>4, <2>1, FormQuiet DEF FormInv, FormsTyped
  <2>4. FormFields'
    BY <1>1, <1>4, <2>2, FormFieldsKept DEF FO!Idle
  <2>5. FormLast'
    <3>1. ASSUME "approve" \notin formRival'
          PROVE /\ \A r \in Requests : r # q => filling'[r] = FO!Idle
                /\ \A r \in Sent : LastWord(submission'[r].status, approval'[r])
      BY <1>1, <1>4, <2>1, <2>2, <3>1, FormApproval
    <3> QED BY <2>2, <3>1, FormLastOf
  <2>6. \A r \in Requests : r # q /\ filling[r] # FO!Idle => FormKnows(filling[r])'
    BY <2>2, <2>3, FormOthers
  <2> QED BY <2>2, <2>3, <2>4, <2>5, <2>6, FormJoins
<1>6. CASE submission[s] # FO!NoSubmission
  <2>1. PICK put : put = [action |-> filling[q].action, needed |-> filling[q].needed]
    BY Zenon
  <2>2. PICK new : new = [filling[q] EXCEPT !.pc = "count"]
    BY Zenon
  <2>3. PICK rows : rows = approval[s]
    OBVIOUS
  <2>4. /\ Len(rows) < MaxApprovals
        /\ approval' = [approval EXCEPT ![s] = Append(rows, put)]
        /\ filling' = [filling EXCEPT ![q] = new]
    BY <1>3, <1>6, <2>1, <2>2, <2>3 DEF FO!InsertApproval
  <2>5. put \in ApprovalRow /\ put.action = filling[q].action /\ put.needed = filling[q].needed
    BY <1>2, <2>1 DEF ApproveCall, ApprovalRow
  <2>6. /\ new \in ApproveCall /\ new \in FormCalls /\ new # FO!Idle /\ new.op = "approve"
        /\ new.pc = "count" /\ new.id = s /\ new.status = filling[q].status
        /\ new.action = put.action /\ new.needed = put.needed
    BY <1>1, <1>2, <1>3, <2>2, <2>5 DEF FormCalls, ApproveCall, FO!Idle
  <2>7. /\ FormCallsTyped' /\ filling'[q] = new
        /\ \A r \in Requests : r # q => filling'[r] = filling[r]
    BY <1>1, <1>2, <2>4, <2>6, FormMoves, Zenon
  <2>8. rows \in Seq(ApprovalRow) /\ form.version > 0 /\ form.version # -1
    BY <1>1, <1>3, <1>6, <2>3, FormApproval
  <2>9. PICK more : more = Append(rows, put)
    BY Zenon
  <2>10. /\ more \in Seq(ApprovalRow) /\ Len(more) = Len(rows) + 1 /\ more[Len(more)] = put
         /\ \A i \in 1..Len(rows) : i \in 1..Len(more) /\ more[i] = rows[i]
         /\ more # <<>> /\ Len(more) \in 1..Len(more) /\ Len(more) <= MaxApprovals
    BY <2>4, <2>5, <2>8, <2>9, FormsAssumption
  <2>11. /\ approval'[s] = more /\ \A r \in Sent : r # s => approval'[r] = approval[r]
         /\ approval' \in [Sent -> Seq(ApprovalRow)]
    BY <1>4, <2>4, <2>9, <2>10 DEF FormInv, FormsTyped
  <2>12. FormsTyped'
    BY <1>4, <2>10, <2>11, Zenon DEF FormInv, FormsTyped
  <2>13. \A st : Judged(st, rows) => Judged(st, more)
    BY <2>5, <2>8, <2>9, JudgedGrows
  <2>14. \A st : \A r \in Sent : Judged(st, approval[r]) => Judged(st, approval'[r])
    BY <2>3, <2>11, <2>13
  <2>15. \A r : Answered(r)' = Answered(r)
    BY <1>4 DEF Answered
  <2>16. FormRows'
    <3>1. ASSUME NEW r \in Sent
          PROVE /\ submission[r] # FO!NoSubmission =>
                     Judged(submission[r].status, approval'[r])
                /\ submission[r] = FO!NoSubmission => approval'[r] = <<>>
      BY <1>6, <2>11, <2>14 DEF FormInv, FormRows
    <3>2. \A st, r : Judged(st, r)' = Judged(st, r)
      BY DEF Judged
    <3>3. \A r \in Sent : Judged(submission[r].status, approval[r])' = Judged(submission[r].status, approval'[r])
      BY <1>4 DEF Judged
    <3> QED BY <1>4, <2>15, <3>1, <3>3 DEF FormInv, FormRows, Apart
  <2>17. \A c \in FormCalls : FormKnows(c) => FormKnows(c)'
    <3>1. ASSUME NEW c \in FormCalls, FormKnows(c) PROVE FormKnows(c)'
      <4>1. CASE c.op = "approve" /\ form.version # -1
        <5>1. c.id \in Sent
          BY <4>1, FormCallIs DEF ApproveCall
        <5>2. Judged(c.status, approval'[c.id])
          BY <2>14, <3>1, <4>1, <5>1 DEF FormKnows
        <5>3. c.pc # "insert" => \E i \in 1..Len(approval'[c.id]) :
              approval'[c.id][i].action = c.action /\ approval'[c.id][i].needed = c.needed
          BY <2>3, <2>10, <2>11, <3>1, <4>1, <5>1 DEF FormKnows
        <5>4. Judged(c.status, approval[c.id])' = Judged(c.status, approval'[c.id])
          BY DEF Judged
        <5> QED BY <1>4, <3>1, <4>1, <5>2, <5>3, <5>4 DEF FormKnows
      <4>2. CASE ~(c.op = "approve" /\ form.version # -1)
        BY <1>4, <2>15, <3>1, <4>2 DEF FormKnows, Apart
      <4> QED BY <4>1, <4>2
    <3> QED BY <3>1
  <2>18. FormKnows(new)'
    <3>1. Judged(new.status, approval'[s])
      <4>1. Judged(new.status, approval[s])
        BY <1>1, <1>2, <1>3, <2>6, <2>8 DEF FormKnows
      <4> QED BY <1>4, <2>14, <4>1
    <3>2. Judged(new.status, approval[new.id])' = Judged(new.status, approval'[s])
      BY <2>6 DEF Judged
    <3> QED BY <1>2, <1>4, <1>6, <2>6, <2>10, <2>11, <3>1, <3>2 DEF FormKnows
  <2>19. FormFields'
    BY <1>1, <1>4, <2>6, <2>7, FormFieldsKept
  <2>20. FormLast'
    <3>1. ASSUME "approve" \notin formRival'
          PROVE /\ \A r \in Requests : r # q => filling'[r] = FO!Idle
                /\ FormAlone(new)'
                /\ \A r \in Sent : r # s => LastWord(submission'[r].status, approval'[r])
      <4>1. FormAlone(new)'
        <5>1. filling[q].status = submission[s].status
          BY <1>1, <1>3, <2>8, <3>1, FormApproval DEF FormAlone
        <5> QED BY <1>4, <2>6, <2>10, <2>11, <5>1 DEF FormAlone
      <4> QED BY <1>1, <1>4, <2>7, <2>11, <3>1, <4>1, FormApproval, Zenon
    <3> QED BY <2>6, <2>7, <3>1, FormLastOf
  <2>21. \A r \in Requests : r # q /\ filling[r] # FO!Idle => FormKnows(filling[r])'
    BY <2>7, <2>17, FormOthers
  <2> QED BY <2>6, <2>7, <2>12, <2>16, <2>18, <2>19, <2>20, <2>21, FormJoins
<1> QED BY <1>5, <1>6

LEMMA FormCount == ASSUME FormInv, NEW q \in Requests, FO!At(q, "approve", "count"),
        FO!CountApprovals(q), UNCHANGED formRival
  PROVE FormInv'
<1>1. filling[q].op = "approve" /\ filling[q].pc = "count"
  BY DEF FO!At
<1>2. /\ filling[q] # FO!Idle /\ filling[q] \in ApproveCall /\ FormKnows(filling[q])
      /\ form.version # 0
  BY <1>1, FormApproval
<1>3. PICK s, rows, st : s = filling[q].id /\ rows = approval[s] /\ st = FO!NewStatus(filling[q], rows)
  OBVIOUS
<1>4. s \in Sent /\ UNCHANGED <<form, field, questions, submission, approval>>
  BY <1>2, <1>3 DEF ApproveCall, FO!CountApprovals, FO!formVars
<1>5. PICK new : new = IF st = filling[q].status THEN FO!Idle
                       ELSE [filling[q] EXCEPT !.pc = "write", !.status = st]
  OBVIOUS
<1>6. filling' = [filling EXCEPT ![q] = new]
  BY <1>3, <1>5 DEF FO!CountApprovals, FO!End
<1>7. rows \in Seq(ApprovalRow)
  BY <1>1, <1>3, FormApproval
<1>8. /\ filling[q].action \in {"approved", "rejected", "noted"} /\ filling[q].needed \in Nat
      /\ filling[q].status \in SentStatus
      /\ FO!Approvals(rows) \in Nat
  BY <1>2, <1>7, ApprovalsType DEF ApproveCall
<1>9. /\ filling[q].action = "approved" =>
            st = IF FO!Approvals(rows) >= filling[q].needed THEN "approved" ELSE "pending_approval"
      /\ filling[q].action = "rejected" => st = "rejected"
      /\ filling[q].action = "noted" => st = filling[q].status
  BY <1>3, <1>8 DEF FO!NewStatus
<1>10. st \in SentStatus
  BY <1>8, <1>9 DEF SentStatus
<1>11. new # FO!Idle =>
         /\ new \in ApproveCall /\ new \in FormCalls /\ new.op = "approve" /\ new.pc = "write"
         /\ new.id = s /\ new.status = st /\ new.action = filling[q].action
         /\ new.needed = filling[q].needed
  BY <1>1, <1>2, <1>3, <1>5, <1>10, Zenon DEF FormCalls, ApproveCall
<1>12. /\ FormCallsTyped' /\ filling'[q] = new
       /\ \A r \in Requests : r # q => filling'[r] = filling[r]
  BY <1>1, <1>2, <1>6, <1>11, FormMoves, Zenon
<1>13. FormRows' /\ FormsTyped' /\ \A c : FormKnows(c) => FormKnows(c)'
  BY <1>4, FormQuiet DEF FormInv, FormsTyped
<1>14. form.version # -1 => Judged(st, rows)
  <2>1. SUFFICES ASSUME form.version # -1 PROVE Judged(st, rows)
    OBVIOUS
  <2>2. PICK i \in 1..Len(rows) :
           rows[i].action = filling[q].action /\ rows[i].needed = filling[q].needed
    BY <1>1, <1>2, <1>3, <2>1 DEF FormKnows
  <2>3. Judged(filling[q].status, rows)
    BY <1>1, <1>2, <1>3, <2>1 DEF FormKnows
  <2>4. FO!Approvals(rows) >= filling[q].needed => filling[q].needed <= FO!Approvals(rows)
    BY <1>8
  <2> QED BY <1>8, <1>9, <2>2, <2>3, <2>4 DEF Judged
<1>15. new # FO!Idle => FormKnows(new)'
  <2>1. SUFFICES ASSUME new # FO!Idle PROVE FormKnows(new)'
    OBVIOUS
  <2>2. Judged(new.status, approval[new.id])' = Judged(st, rows)
    BY <1>3, <1>4, <1>11, <2>1
  <2> QED BY <1>1, <1>2, <1>3, <1>4, <1>11, <1>14, <2>1, <2>2 DEF FormKnows
<1>16. FormFields'
  BY <1>1, <1>4, <1>11, <1>12, FormFieldsKept DEF FO!Idle
<1>17. FormLast'
  <2>1. ASSUME "approve" \notin formRival'
        PROVE /\ \A r \in Requests : r # q => filling'[r] = FO!Idle
              /\ \A r \in Sent : r # s => LastWord(submission'[r].status, approval'[r])
              /\ new # FO!Idle => FormAlone(new)'
              /\ new = FO!Idle => LastWord(submission'[s].status, approval'[s])
    <3>1. /\ FormAlone(filling[q]) /\ \A r \in Requests : r # q => filling[r] = FO!Idle
          /\ \A r \in Sent : r # s => LastWord(submission[r].status, approval[r])
      BY <1>1, <1>3, <1>4, <2>1, FormApproval
    <3>2. form.version # -1 =>
            /\ rows # <<>> /\ rows[Len(rows)].action = filling[q].action
            /\ rows[Len(rows)].needed = filling[q].needed
            /\ filling[q].status = submission[s].status
      BY <1>1, <1>3, <3>1 DEF FormAlone
    <3>3. form.version # -1 => LastWord(st, rows)
      BY <1>9, <3>2 DEF LastWord
    <3>4. new # FO!Idle => FormAlone(new)'
      <4>1. SUFFICES ASSUME new # FO!Idle PROVE FormAlone(new)'
        OBVIOUS
      <4>2. LastWord(new.status, approval[new.id])' = LastWord(st, rows)
        BY <1>3, <1>4, <1>11, <4>1
      <4> QED BY <1>4, <1>11, <3>3, <4>1, <4>2 DEF FormAlone
    <3>5. new = FO!Idle => LastWord(submission[s].status, approval[s])
      <4>1. CASE form.version = -1
        BY <1>1, <1>4, <4>1, FormApproval DEF LastWord
      <4>2. CASE form.version # -1 /\ new = FO!Idle
        <5>1. st = filling[q].status
          BY <1>2, <1>5, <4>2, Zenon DEF FO!Idle, ApproveCall
        <5> QED BY <1>3, <3>2, <3>3, <4>2, <5>1
      <4> QED BY <4>1, <4>2
    <3> QED BY <1>4, <1>12, <3>1, <3>4, <3>5
  <2> QED BY <1>11, <1>12, <2>1, FormLastOf
<1>18. \A r \in Requests : r # q /\ filling[r] # FO!Idle => FormKnows(filling[r])'
  BY <1>12, <1>13, FormOthers
<1> QED BY <1>12, <1>13, <1>15, <1>16, <1>17, <1>18, FormJoins

LEMMA FormWrite == ASSUME FormInv, NEW q \in Requests, FO!At(q, "approve", "write"),
        FO!WriteStatus(q), UNCHANGED formRival
  PROVE FormInv'
<1>1. filling[q].op = "approve" /\ filling[q].pc = "write"
  BY DEF FO!At
<1>2. /\ filling[q] # FO!Idle /\ filling[q] \in ApproveCall /\ FormKnows(filling[q])
      /\ form.version # 0
  BY <1>1, FormApproval
<1>3. PICK s, st, held : /\ s = filling[q].id /\ st = filling[q].status
                        /\ held = (filling[q].status # "approved" /\ filling[q].state)
  OBVIOUS
<1>4. /\ s \in Sent /\ st \in SentStatus /\ held \in BOOLEAN
      /\ UNCHANGED <<form, field, questions, approval>>
      /\ filling' = [filling EXCEPT ![q] = FO!Idle]
  BY <1>2, <1>3 DEF ApproveCall, FO!WriteStatus, FO!End
<1>5. /\ FormCallsTyped' /\ filling'[q] = FO!Idle
      /\ \A r \in Requests : r # q => filling'[r] = filling[r]
  BY <1>2, <1>4, FormMoves, Zenon
<1>6. FormFields'
  BY <1>1, <1>4, <1>5, FormFieldsKept DEF FO!Idle
<1>7. /\ submission' \in [Sent -> SentRow \cup {FO!NoSubmission}]
      /\ \A r \in Sent : r # s => submission'[r] = submission[r]
      /\ submission[s] = FO!NoSubmission => submission'[s] = FO!NoSubmission
      /\ submission[s] # FO!NoSubmission =>
            /\ submission'[s] \in SentRow /\ submission'[s] # FO!NoSubmission
            /\ submission'[s].version = submission[s].version
            /\ submission'[s].answer = submission[s].answer
            /\ submission'[s].status = st
  <2>1. CASE submission[s] = FO!NoSubmission
    BY <1>3, <2>1 DEF FO!WriteStatus, FormInv, FormsTyped
  <2>2. CASE submission[s] # FO!NoSubmission
    <3>1. submission[s] \in SentRow
      BY <1>4, <2>2 DEF FormInv, FormsTyped
    <3>2. PICK put : put = [submission[s] EXCEPT !.status = st, !.state = held]
      OBVIOUS
    <3>3. /\ put \in SentRow /\ put.version = submission[s].version
          /\ put.answer = submission[s].answer /\ put.status = st
      BY <1>4, <3>1, <3>2, Zenon DEF SentRow
    <3>4. put # FO!NoSubmission
      BY <3>3 DEF SentRow, SentStatus, FO!NoSubmission
    <3>5. submission' = [submission EXCEPT ![s] = put]
      BY <1>3, <2>2, <3>2, Zenon DEF FO!WriteStatus
    <3> QED BY <1>4, <2>2, <3>3, <3>4, <3>5 DEF FormInv, FormsTyped
  <2> QED BY <2>1, <2>2
<1>8. FormsTyped'
  BY <1>4, <1>7 DEF FormInv, FormsTyped
<1>9. \A r : Answered(r)' = Answered(r)
  BY <1>4 DEF Answered
<1>10. submission[s] # FO!NoSubmission =>
          /\ Judged(st, approval[s])
          /\ Answered(submission'[s]) = Answered(submission[s])
  <2>1. submission[s] # FO!NoSubmission => form.version # -1
    BY <1>1, <1>3, FormApproval
  <2> QED BY <1>1, <1>2, <1>3, <1>7, <2>1 DEF FormKnows, Answered
<1>11. FormRows'
  <2>1. ASSUME NEW r \in Sent
        PROVE /\ submission'[r] # FO!NoSubmission =>
                   /\ form.version > 0 /\ submission'[r].version <= form.version
                   /\ Judged(submission'[r].status, approval[r])
                   /\ Apart => Answered(submission'[r])
              /\ submission'[r] = FO!NoSubmission => approval[r] = <<>>
    <3>1. CASE r = s
      BY <1>4, <1>7, <1>10, <3>1 DEF FormInv, FormRows
    <3>2. CASE r # s
      BY <1>7, <3>2 DEF FormInv, FormRows
    <3> QED BY <3>1, <3>2
  <2>2. \A r : Answered(submission'[r]) => Answered(submission[r])'
    BY <1>4 DEF Answered
  <2>3. \A r : Judged(submission'[r].status, approval[r]) => Judged(submission[r].status, approval[r])'
    BY <1>4 DEF Judged
  <2> QED BY <1>4, <2>1, <2>2, <2>3 DEF FormRows, Apart
<1>12. \A c \in FormCalls : FormKnows(c) => FormKnows(c)'
  <2>1. \A r \in Sent : submission[r] # FO!NoSubmission => submission'[r] # FO!NoSubmission
    BY <1>7
  <2>2. \A c \in FormCalls : c.op = "approve" => c.id \in Sent
    BY FormCallIs DEF ApproveCall
  <2> QED BY <1>4, <1>9, <2>1, <2>2 DEF FormKnows, Apart
<1>13. FormLast'
  <2>1. ASSUME "approve" \notin formRival'
        PROVE /\ \A r \in Requests : r # q => filling'[r] = FO!Idle
              /\ \A r \in Sent : LastWord(submission'[r].status, approval'[r])
    <3>1. /\ FormAlone(filling[q]) /\ \A r \in Requests : r # q => filling[r] = FO!Idle
          /\ \A r \in Sent : r # s => LastWord(submission[r].status, approval[r])
      BY <1>1, <1>3, <1>4, <2>1, FormApproval
    <3>2. LastWord(submission'[s].status, approval[s])
      <4>1. CASE form.version = -1
        BY <1>1, <1>4, <4>1, FormApproval DEF LastWord
      <4>2. CASE form.version # -1
        <5>1. LastWord(st, approval[s]) /\ submission[s] # FO!NoSubmission
          BY <1>1, <1>2, <1>3, <3>1, <4>2 DEF FormAlone, FormKnows
        <5> QED BY <1>7, <5>1
      <4> QED BY <4>1, <4>2
    <3> QED BY <1>4, <1>5, <1>7, <3>1, <3>2
  <2> QED BY <1>5, <2>1, FormLastOf
<1>14. \A r \in Requests : r # q /\ filling[r] # FO!Idle => FormKnows(filling[r])'
  BY <1>5, <1>12, FormOthers
<1> QED BY <1>5, <1>6, <1>8, <1>11, <1>13, <1>14, FormJoins

LEMMA FormStep == ASSUME FormInv, FO!FormNext PROVE FormInv'
<1> QED BY FormCreate, FormDelete, FormWorkflow, FormRead, FormDrop, FormAdd, FormAddFails,
     FormBump, FormReadSubmit, FormInsert, FormReadSubmission, FormInsertApproval, FormCount,
     FormWrite DEF FO!FormNext

LEMMA FormSame == ASSUME FormInv, UNCHANGED foVars PROVE FormInv'
<1>1. UNCHANGED <<form, field, questions, submission, approval, formRival, filling>>
  BY DEF foVars
<1>2. /\ FormsTyped' = FormsTyped /\ FormCallsTyped' = FormCallsTyped
      /\ \A r : Answered(r)' = Answered(r)
  BY <1>1 DEF FormsTyped, FormCallsTyped, Answered
<1>3. FormRows' = FormRows /\ FormFields' = FormFields
  BY <1>1, <1>2 DEF FormRows, FormFields, Apart
<1>4. \A q \in Requests : FormKnows(filling[q])' = FormKnows(filling[q])
  BY <1>1, <1>2 DEF FormKnows, Apart
<1>5. FormLast' = FormLast
  BY <1>1 DEF FormLast, FormAlone, Undisturbed
<1> QED BY <1>1, <1>2, <1>3, <1>4, <1>5 DEF FormInv, FormLast

-----------------------------------------------------------------------------
(* Drafts *)

DraftSection == [of : DraftPages, active : BOOLEAN] \cup {DR!Gone}
DraftPart == [of : DraftSections, active : BOOLEAN] \cup {DR!Gone}
DraftsTyped ==
    /\ page \in [DraftPages -> {"none", "active", "hidden"}]
    /\ section \in [DraftSections -> DraftSection] /\ part \in [DraftParts -> DraftPart]
    /\ version \in 0..MaxDrafts /\ edited \in BOOLEAN /\ failed \in BOOLEAN
PageEdits == {"updatePage", "deletePage", "addSection"}
SectionEdits == {"updateSection", "deleteSection", "addComponent"}
PartEdits == {"updateComponent", "deleteComponent"}
CopyCall == [op : {"copy"}, pc : {"page", "section", "part", "version"}, left : SUBSET Live,
             page : DraftPages \cup {"none"}, section : DraftSections \cup {"none"}]
DiscardCall == [op : {"discard"}, pc : {"parts", "sections", "pages", "version"}]
EditPage == [op : PageEdits, pc : {"write", "sections", "row"}, id : DraftPages]
EditSection == [op : SectionEdits, pc : {"write", "row"}, id : DraftSections]
EditPart == [op : PartEdits, pc : {"write"}, id : DraftParts]
EditRows == EditPage \cup EditSection \cup EditPart
DraftCalls == CopyCall \cup DiscardCall \cup EditRows
DraftCallsTyped ==
    /\ DOMAIN building = Requests
    /\ \A q \in Requests : building[q] = DR!Idle \/ building[q] \in DraftCalls
    /\ \A q \in Requests : building[q] \in CopyCall =>
         /\ building[q].pc \in {"section", "part"} => building[q].page \in DraftPages
         /\ building[q].pc = "part" => building[q].section \in DraftSections
    /\ draftRival = {} => \A q, r \in Requests :
         q # r => building[q] = DR!Idle \/ building[r] = DR!Idle

\* The pages there are, and the ones that show a component.
Only(pages) == \A p \in DraftPages : page[p] = IF p \in pages THEN "active" ELSE "none"
Filled(p) == \E s \in DraftSections, c \in DraftParts :
    section[s] = [of |-> p, active |-> TRUE] /\ part[c] = [of |-> s, active |-> TRUE]
WholeApp == Only(Live) /\ \A p \in Live : Filled(p)
DraftsShow ==
    ~edited => /\ version > 0 => WholeApp
               /\ version = 0 => Only({})
\* What a request that nothing overlaps finds.
DraftFinds(c) ==
    /\ c.op = "copy" =>
         /\ Only(Live \ c.left)
         /\ c.pc \in {"page", "version"} => \A p \in Live \ c.left : Filled(p)
         /\ c.pc \in {"section", "part"} => \A p \in Live \ c.left : p = c.page \/ Filled(p)
         /\ c.pc = "part" => section[c.section] = [of |-> c.page, active |-> TRUE]
         /\ c.pc = "version" => c.left = {}
    /\ c.op = "discard" /\ c.pc = "version" => Only({})
    /\ c.op \in DR!Edits => DraftsShow

DraftInv ==
    /\ DraftsTyped /\ DraftCallsTyped /\ DR!NoOrphans
    /\ draftRival = {} /\ ~failed =>
         /\ \A q \in Requests : building[q] # DR!Idle => DraftFinds(building[q])
         /\ (\A q \in Requests : building[q] = DR!Idle) => DraftsShow


LEMMA DraftCallIs == ASSUME NEW c \in DraftCalls
  PROVE /\ c # DR!Idle /\ c.op \in {"copy", "discard"} \cup DR!Edits
        /\ c.op = "copy" <=> c \in CopyCall
        /\ c.op = "discard" <=> c \in DiscardCall
        /\ c.op \in PageEdits => c \in EditPage
        /\ c.op \in SectionEdits => c \in EditSection
        /\ c.op \in PartEdits => c \in EditPart
<1>1. c.op # "idle"
  BY DEF DraftCalls, CopyCall, DiscardCall, EditRows, EditPage, EditSection, EditPart,
         PageEdits, SectionEdits, PartEdits
<1>2. c \in CopyCall \/ c \in DiscardCall \/ c \in EditPage \/ c \in EditSection \/ c \in EditPart
  BY DEF DraftCalls, EditRows
<1>3. /\ c \in CopyCall => c.op = "copy"
      /\ c \in DiscardCall => c.op = "discard"
      /\ c \in EditPage => c.op \in PageEdits
      /\ c \in EditSection => c.op \in SectionEdits
      /\ c \in EditPart => c.op \in PartEdits
  BY DEF CopyCall, DiscardCall, EditPage, EditSection, EditPart
<1>4. c # DR!Idle
  BY <1>1 DEF DR!Idle
<1> QED BY <1>2, <1>3, <1>4 DEF DR!Edits, PageEdits, SectionEdits, PartEdits

LEMMA DraftHolds == ASSUME DraftInv
  PROVE DR!TypeOK /\ DR!DraftsWhole /\ DR!NoOrphans
<1>1. DR!TypeOK
  BY DEF DraftInv, DraftsTyped, DraftSection, DraftPart, DR!TypeOK, DR!Gone
<1>2. DR!DraftsWhole
  <2>1. SUFFICES ASSUME draftRival = {}, ~failed, ~edited, \A q \in Requests : building[q] = DR!Idle
        PROVE /\ version > 0 => {t[1] : t \in DR!Compiled} = Live
              /\ version = 0 => DR!Compiled = {} /\ DR!PagesThere = {}
    BY DEF DR!DraftsWhole
  <2>2. (version > 0 => WholeApp) /\ (version = 0 => Only({}))
    BY <2>1 DEF DraftInv, DraftsShow
  <2>3. ASSUME WholeApp PROVE {t[1] : t \in DR!Compiled} = Live
    <3>1. \A t \in DR!Compiled : t[1] \in Live
      BY <2>3 DEF DR!Compiled, WholeApp, Only
    <3>2. ASSUME NEW p \in Live PROVE \E t \in DR!Compiled : t[1] = p
      <4>1. PICK s \in DraftSections, c \in DraftParts :
              section[s] = [of |-> p, active |-> TRUE] /\ part[c] = [of |-> s, active |-> TRUE]
        BY <2>3, <3>2, Zenon DEF WholeApp, Filled
      <4>2. p \in DraftPages /\ page[p] = "active"
        BY <2>3, <3>2, DraftsAssumption DEF WholeApp, Only
      <4>3. <<p, s, c>> \in DR!Compiled
        BY <4>1, <4>2, Zenon DEF DR!Compiled
      <4> QED BY <4>3
    <3> QED BY <3>1, <3>2
  <2>4. ASSUME Only({}) PROVE DR!Compiled = {} /\ DR!PagesThere = {}
    BY <2>4 DEF Only, DR!Compiled, DR!PagesThere
  <2> QED BY <2>2, <2>3, <2>4
<1> QED BY <1>1, <1>2 DEF DraftInv

LEMMA DraftStart == ASSUME DR!Init PROVE DraftInv
<1>1. DraftsTyped
  <2>1. version \in 0..MaxDrafts
    BY DraftsAssumption DEF DR!Init
  <2>2. DR!Gone \in DraftSection /\ DR!Gone \in DraftPart
    BY DEF DraftSection, DraftPart
  <2> QED BY <2>1, <2>2, Zenon DEF DR!Init, DraftsTyped
<1>2. \A q \in Requests : building[q] = DR!Idle
  BY DEF DR!Init
<1>3. DraftCallsTyped
  BY <1>2 DEF DR!Init, DraftCallsTyped, CopyCall, DR!Idle
<1>4. DR!NoOrphans
  BY DraftsAssumption DEF DR!Init, DR!NoOrphans, DR!Gone
<1>5. DraftsShow
  BY DEF DR!Init, DraftsShow, Only
<1> QED BY <1>1, <1>2, <1>3, <1>4, <1>5 DEF DraftInv

LEMMA DraftKnown == ASSUME DraftInv, NEW q \in Requests, building[q] # DR!Idle
  PROVE /\ building[q] \in DraftCalls
        /\ draftRival = {} => \A r \in Requests : r # q => building[r] = DR!Idle
        /\ draftRival = {} /\ ~failed => DraftFinds(building[q])
<1> QED BY DEF DraftInv, DraftCallsTyped

LEMMA DraftMoves == ASSUME DraftInv, NEW q \in Requests, NEW new, building[q] # DR!Idle,
        building' = [building EXCEPT ![q] = new], UNCHANGED draftRival,
        new = DR!Idle \/ new \in DraftCalls,
        new \in CopyCall =>
         /\ new.pc \in {"section", "part"} => new.page \in DraftPages
         /\ new.pc = "part" => new.section \in DraftSections
  PROVE /\ DraftCallsTyped' /\ building'[q] = new
        /\ draftRival' = {} => \A r \in Requests : r # q => building'[r] = DR!Idle
<1>1. /\ DOMAIN building' = Requests /\ building'[q] = new
      /\ \A r \in Requests : r # q => building'[r] = building[r]
  BY DEF DraftInv, DraftCallsTyped
<1>2. \A r \in Requests : building'[r] \in CopyCall =>
         /\ building'[r].pc \in {"section", "part"} => building'[r].page \in DraftPages
         /\ building'[r].pc = "part" => building'[r].section \in DraftSections
  BY <1>1 DEF DraftInv, DraftCallsTyped
<1>3. draftRival' = {} => \A r \in Requests : r # q => building'[r] = DR!Idle
  BY <1>1, DraftKnown
<1> QED BY <1>1, <1>2, <1>3 DEF DraftInv, DraftCallsTyped

LEMMA DraftBegins == ASSUME DraftInv, NEW q \in Requests, NEW new \in DraftCalls,
        DR!Begin(q, new), UNCHANGED draftRival,
        new \in CopyCall => new.pc = "page"
  PROVE /\ DraftCallsTyped' /\ building'[q] = new
        /\ draftRival' = {} => \A r \in Requests : r # q => building'[r] = DR!Idle
        /\ draftRival' = {} => \A r \in Requests : building[r] = DR!Idle
<1>1. /\ building[q] = DR!Idle /\ building' = [building EXCEPT ![q] = new]
      /\ DR!Busy # {} => DR!Busy \cup {new.op} \subseteq draftRival
  BY DEF DR!Begin
<1>2. /\ DOMAIN building' = Requests /\ building'[q] = new
      /\ \A r \in Requests : r # q => building'[r] = building[r]
  BY <1>1 DEF DraftInv, DraftCallsTyped
<1>3. ASSUME draftRival = {}, NEW r \in Requests PROVE building[r] = DR!Idle
  <2>1. DR!Busy = {}
    BY <1>1, <1>3
  <2>2. building[r].op = "idle"
    BY <2>1 DEF DR!Busy
  <2>3. building[r] = DR!Idle \/ building[r] \in DraftCalls
    BY DEF DraftInv, DraftCallsTyped
  <2> QED BY <2>2, <2>3, DraftCallIs DEF DR!Edits
<1>4. \A r \in Requests : building'[r] \in CopyCall =>
         /\ building'[r].pc \in {"section", "part"} => building'[r].page \in DraftPages
         /\ building'[r].pc = "part" => building'[r].section \in DraftSections
  BY <1>2 DEF DraftInv, DraftCallsTyped
<1>5. draftRival' = {} => \A r \in Requests : r # q => building'[r] = DR!Idle
  BY <1>2, <1>3
<1> QED BY <1>2, <1>3, <1>4, <1>5 DEF DraftInv, DraftCallsTyped

LEMMA DraftJoins == ASSUME NEW q \in Requests, NEW new, DraftsTyped', DraftCallsTyped',
        DR!NoOrphans', building'[q] = new,
        draftRival' = {} => \A r \in Requests : r # q => building'[r] = DR!Idle,
        draftRival' = {} /\ ~failed' /\ new # DR!Idle => DraftFinds(new)',
        draftRival' = {} /\ ~failed' /\ new = DR!Idle => DraftsShow'
  PROVE DraftInv'
<1>1. ASSUME draftRival' = {}, ~failed'
      PROVE /\ \A r \in Requests : building'[r] # DR!Idle => DraftFinds(building[r])'
            /\ (\A r \in Requests : building'[r] = DR!Idle) => DraftsShow'
  <2>1. ASSUME NEW r \in Requests, building'[r] # DR!Idle PROVE DraftFinds(building[r])'
    <3>1. r = q
      BY <1>1, <2>1
    <3>2. DraftFinds(building[q])'
      BY <1>1, <2>1, <3>1
    <3> QED BY <3>1, <3>2
  <2> QED BY <1>1, <2>1
<1> QED BY <1>1 DEF DraftInv

\* Rows that stay keep what a request found.
LEMMA DraftSameRows == ASSUME DraftInv, UNCHANGED <<page, section, part, version, edited, failed>>
  PROVE /\ DraftsTyped' /\ DR!NoOrphans' /\ DraftsShow' = DraftsShow
        /\ \A c : DraftFinds(c)' = DraftFinds(c)
        /\ \A S : Only(S)' = Only(S)
        /\ \A p : Filled(p)' = Filled(p)
<1>1. \A S : Only(S)' = Only(S)
  BY DEF Only
<1>2. \A p : Filled(p)' = Filled(p)
  BY DEF Filled
<1>3. WholeApp' = WholeApp
  BY <1>1, <1>2 DEF WholeApp
<1>4. DraftsShow' = DraftsShow
  BY <1>1, <1>3 DEF DraftsShow
<1>5. \A c : DraftFinds(c)' = DraftFinds(c)
  BY <1>1, <1>2, <1>4 DEF DraftFinds
<1>6. DraftsTyped' /\ DR!NoOrphans'
  BY DEF DraftInv, DraftsTyped, DR!NoOrphans
<1> QED BY <1>1, <1>2, <1>4, <1>5, <1>6

LEMMA DraftInitialize == ASSUME DraftInv, NEW q \in Requests, DR!InitializeDrafts(q), UNCHANGED draftRival
  PROVE DraftInv'
<1>1. PICK new : new = [op |-> "copy", pc |-> "page", left |-> Live, page |-> "none",
                        section |-> "none"]
  BY Zenon
<1>2. /\ DR!PagesThere = {} /\ DR!Begin(q, new)
      /\ UNCHANGED <<page, section, part, version, edited, failed>>
  BY <1>1 DEF DR!InitializeDrafts, DR!draftVars
<1>3. /\ new \in CopyCall /\ new \in DraftCalls /\ new # DR!Idle /\ new.pc = "page"
      /\ new.op = "copy" /\ new.left = Live
  BY <1>1 DEF CopyCall, DraftCalls, DR!Idle
<1>4. DraftsTyped' /\ DR!NoOrphans' /\ DraftFinds(new)' = DraftFinds(new)
  BY <1>2, DraftSameRows
<1>5. DraftFinds(new)
  BY <1>2, <1>3 DEF DraftFinds, Only, DR!PagesThere, DR!Edits
<1> QED BY <1>2, <1>3, <1>4, <1>5, DraftBegins, DraftJoins, Zenon

LEMMA DraftCopying == ASSUME DraftInv, NEW q \in Requests, building[q].op = "copy"
  PROVE /\ building[q] # DR!Idle /\ building[q] \in CopyCall /\ building[q] \in DraftCalls
        /\ building[q].pc \in {"section", "part"} => building[q].page \in DraftPages
        /\ building[q].pc = "part" => building[q].section \in DraftSections
        /\ building[q].left \subseteq Live
        /\ draftRival = {} => \A r \in Requests : r # q => building[r] = DR!Idle
        /\ draftRival = {} /\ ~failed => DraftFinds(building[q])
<1>1. building[q] # DR!Idle
  BY DEF DR!Idle
<1>2. building[q] \in CopyCall
  BY <1>1, DraftKnown, DraftCallIs
<1> QED BY <1>1, <1>2, DraftKnown DEF DraftInv, DraftCallsTyped, CopyCall

\* A request that ends where it stands.
LEMMA DraftStops == ASSUME DraftInv, NEW q \in Requests, building[q] # DR!Idle,
        building' = [building EXCEPT ![q] = DR!Idle], failed' \in BOOLEAN,
        UNCHANGED <<page, section, part, version, edited, draftRival>>,
        failed' \/ (building[q].op \in DR!Edits /\ failed' = failed)
  PROVE DraftInv'
<1>1. /\ DraftCallsTyped' /\ building'[q] = DR!Idle
      /\ draftRival' = {} => \A r \in Requests : r # q => building'[r] = DR!Idle
  BY DraftMoves, Zenon DEF CopyCall, DR!Idle
<1>2. DraftsTyped' /\ DR!NoOrphans'
  BY DEF DraftInv, DraftsTyped, DR!NoOrphans
<1>3. ASSUME draftRival = {}, ~failed' PROVE DraftsShow'
  <2>1. building[q].op \in DR!Edits /\ ~failed
    BY <1>3
  <2>2. DraftsShow
    BY <1>3, <2>1, DraftKnown, Zenon DEF DraftFinds
  <2> QED BY <2>1, <2>2 DEF DraftsShow, WholeApp, Only, Filled
<1> QED BY <1>1, <1>2, <1>3, DraftJoins

LEMMA DraftCopyPage == ASSUME DraftInv, NEW q \in Requests, NEW p \in DraftPages, DR!CopyPage(q, p),
        UNCHANGED draftRival
  PROVE DraftInv'
<1>1. /\ building[q].op = "copy" /\ building[q].pc = "page" /\ p \in building[q].left
      /\ UNCHANGED <<section, part, version, edited>>
  BY DEF DR!CopyPage, DR!At
<1>2. CASE page[p] # "none"
  <2>1. building' = [building EXCEPT ![q] = DR!Idle] /\ failed' /\ failed' \in BOOLEAN /\ UNCHANGED page
    BY <1>2 DEF DR!CopyPage, DR!End
  <2> QED BY <1>1, <2>1, DraftStops, DraftCopying, Zenon
<1>3. CASE page[p] = "none"
  <2>1. PICK new : new = [building[q] EXCEPT !.pc = "section", !.page = p,
                                             !.left = building[q].left \ {p}]
    OBVIOUS
  <2>2. page' = [page EXCEPT ![p] = "active"] /\ building' = [building EXCEPT ![q] = new] /\ UNCHANGED failed
    BY <1>3, <2>1 DEF DR!CopyPage
  <2>3. /\ new \in CopyCall /\ new.pc = "section" /\ new.page = p /\ new.op = "copy"
        /\ new.left = building[q].left \ {p} /\ new # DR!Idle /\ new \in DraftCalls
    <3>1. PICK l : l = building[q].left \ {p}
      BY Zenon
    <3>2. l \in SUBSET Live /\ building[q] \in CopyCall
      BY <1>1, <3>1, DraftCopying
    <3>3. new = [building[q] EXCEPT !.pc = "section", !.page = p, !.left = l]
      BY <2>1, <3>1
    <3>4. /\ new \in CopyCall /\ new.pc = "section" /\ new.page = p /\ new.op = "copy"
          /\ new.left = l
      BY <3>2, <3>3, Zenon DEF CopyCall
    <3> QED BY <3>1, <3>4 DEF DR!Idle, DraftCalls
  <2>4. /\ DraftCallsTyped' /\ building'[q] = new
        /\ draftRival' = {} => \A r \in Requests : r # q => building'[r] = DR!Idle
    BY <1>1, <2>2, <2>3, DraftCopying, DraftMoves, Zenon
  <2>5. DraftsTyped' /\ DR!NoOrphans'
    BY <1>1, <2>2, DraftsAssumption DEF DraftInv, DraftsTyped, DR!NoOrphans
  <2>6. ASSUME draftRival = {}, ~failed PROVE DraftFinds(new)'
    <3>1. /\ Only(Live \ building[q].left) /\ \A r \in Live \ building[q].left : Filled(r)
          /\ building[q].left \subseteq Live
      BY <1>1, <2>6, DraftCopying, Zenon DEF DraftFinds
    <3>2. \A r : Filled(r) => Filled(r)'
      BY <1>1, Zenon DEF Filled
    <3>3. Only(Live \ new.left)'
      BY <1>1, <2>2, <2>3, <3>1 DEF Only, DraftInv, DraftsTyped
    <3> QED BY <2>3, <3>1, <3>2, <3>3 DEF DraftFinds, DR!Edits
  <2> QED BY <2>2, <2>3, <2>4, <2>5, <2>6, DraftJoins
<1> QED BY <1>2, <1>3

LEMMA DraftFresh == ASSUME NEW rows, DR!Spare(rows) # {}
  PROVE DR!Fresh(rows) \in DOMAIN rows /\ rows[DR!Fresh(rows)] = DR!Gone
<1>1. DR!Fresh(rows) \in DR!Spare(rows)
  BY DEF DR!Fresh
<1> QED BY <1>1 DEF DR!Spare

\* A section is added to a page that is there, a component to a section.
LEMMA DraftAddsSection == ASSUME DraftInv, NEW s \in DraftSections, section[s] = DR!Gone,
        NEW p \in DraftPages, page[p] # "none", NEW put, put = [of |-> p, active |-> TRUE],
        section' = [section EXCEPT ![s] = put], edited' \in BOOLEAN,
        UNCHANGED <<page, part, version, failed>>
  PROVE /\ DraftsTyped' /\ DR!NoOrphans' /\ section'[s] = put
        /\ \A r : Filled(r) => Filled(r)'
<1>1. put \in DraftSection /\ put.of = p /\ put # DR!Gone
  BY DEF DraftSection, DR!Gone
<1>2. /\ section' \in [DraftSections -> DraftSection] /\ section'[s] = put
      /\ \A r \in DraftSections : r # s => section'[r] = section[r]
  BY <1>1 DEF DraftInv, DraftsTyped
<1>3. DraftsTyped'
  BY <1>2 DEF DraftInv, DraftsTyped
<1>4. DR!NoOrphans'
  BY <1>1, <1>2 DEF DraftInv, DR!NoOrphans
<1>5. \A r : Filled(r) => Filled(r)'
  <2>1. ASSUME NEW r, Filled(r) PROVE Filled(r)'
    <3>1. PICK t \in DraftSections, c \in DraftParts :
              section[t] = [of |-> r, active |-> TRUE] /\ part[c] = [of |-> t, active |-> TRUE]
      BY <2>1, Zenon DEF Filled
    <3>2. [of |-> r, active |-> TRUE].active # DR!Gone.active
      BY DEF DR!Gone
    <3>3. t # s
      BY <3>1, <3>2, Zenon
    <3> QED BY <1>2, <3>1, <3>3, Zenon DEF Filled
  <2> QED BY <2>1
<1> QED BY <1>2, <1>3, <1>4, <1>5

LEMMA DraftAddsPart == ASSUME DraftInv, NEW c \in DraftParts, part[c] = DR!Gone,
        NEW s \in DraftSections, section[s] # DR!Gone, NEW put, put = [of |-> s, active |-> TRUE],
        part' = [part EXCEPT ![c] = put], edited' \in BOOLEAN,
        UNCHANGED <<page, section, version, failed>>
  PROVE /\ DraftsTyped' /\ DR!NoOrphans' /\ part'[c] = put
        /\ \A r : Filled(r) => Filled(r)'
        /\ \A r : section[s] = [of |-> r, active |-> TRUE] => Filled(r)'
<1>1. put \in DraftPart /\ put.of = s /\ section[s].of \in DraftPages
  BY DEF DraftPart, DraftInv, DraftsTyped, DraftSection
<1>2. /\ part' \in [DraftParts -> DraftPart] /\ part'[c] = put
      /\ \A r \in DraftParts : r # c => part'[r] = part[r]
  BY <1>1 DEF DraftInv, DraftsTyped
<1>3. DraftsTyped'
  BY <1>2 DEF DraftInv, DraftsTyped
<1>4. DR!NoOrphans'
  BY <1>1, <1>2 DEF DraftInv, DR!NoOrphans
<1>5. \A r : Filled(r) => Filled(r)'
  <2>1. ASSUME NEW r, Filled(r) PROVE Filled(r)'
    <3>1. PICK t \in DraftSections, d \in DraftParts :
              section[t] = [of |-> r, active |-> TRUE] /\ part[d] = [of |-> t, active |-> TRUE]
      BY <2>1, Zenon DEF Filled
    <3>2. [of |-> t, active |-> TRUE].active # DR!Gone.active
      BY DEF DR!Gone
    <3>3. d # c
      BY <3>1, <3>2, Zenon
    <3> QED BY <1>2, <3>1, <3>3, Zenon DEF Filled
  <2> QED BY <2>1
<1>6. \A r : section[s] = [of |-> r, active |-> TRUE] => Filled(r)'
  BY <1>2, Zenon DEF Filled
<1> QED BY <1>2, <1>3, <1>4, <1>5, <1>6

LEMMA DraftCopySection == ASSUME DraftInv, NEW q \in Requests, DR!CopySection(q), UNCHANGED draftRival
  PROVE DraftInv'
<1>1. /\ building[q].op = "copy" /\ building[q].pc = "section" /\ page[building[q].page] # "none"
      /\ DR!Spare(section) # {} /\ UNCHANGED <<page, part, version, edited, failed>>
  BY DEF DR!CopySection, DR!At
<1>2. PICK s : s = DR!Fresh(section)
  OBVIOUS
<1>3. s \in DraftSections /\ section[s] = DR!Gone
  BY <1>1, <1>2, DraftFresh DEF DraftInv, DraftsTyped
<1>4. PICK p, put, new : /\ p = building[q].page /\ put = [of |-> p, active |-> TRUE]
                        /\ new = [building[q] EXCEPT !.pc = "part", !.section = s]
  BY Zenon
<1>5. section' = [section EXCEPT ![s] = put] /\ building' = [building EXCEPT ![q] = new]
  BY <1>2, <1>4 DEF DR!CopySection
<1>6. p \in DraftPages /\ building[q] \in CopyCall /\ building[q] # DR!Idle
  BY <1>1, <1>4, DraftCopying
<1>7. /\ new \in CopyCall /\ new.pc = "part" /\ new.op = "copy" /\ new.page = p /\ new.section = s
      /\ new.left = building[q].left /\ new # DR!Idle /\ new \in DraftCalls
  BY <1>3, <1>4, <1>6, Zenon DEF CopyCall, DraftCalls, DR!Idle
<1>8. /\ DraftCallsTyped' /\ building'[q] = new
      /\ draftRival' = {} => \A r \in Requests : r # q => building'[r] = DR!Idle
  BY <1>3, <1>5, <1>6, <1>7, DraftMoves, Zenon
<1>9. edited' \in BOOLEAN
  BY <1>1 DEF DraftInv, DraftsTyped
<1>10. /\ DraftsTyped' /\ DR!NoOrphans' /\ section'[s] = put
       /\ \A r : Filled(r) => Filled(r)'
  BY <1>1, <1>3, <1>4, <1>5, <1>6, <1>9, DraftAddsSection, Zenon
<1>11. ASSUME draftRival = {}, ~failed PROVE DraftFinds(new)'
  <2>1. Only(Live \ building[q].left) /\ \A r \in Live \ building[q].left : r = p \/ Filled(r)
    BY <1>1, <1>4, <1>11, DraftCopying DEF DraftFinds
  <2>2. Only(Live \ new.left)'
    BY <1>1, <1>7, <2>1 DEF Only
  <2> QED BY <1>4, <1>7, <1>10, <2>1, <2>2 DEF DraftFinds, DR!Edits
<1> QED BY <1>1, <1>7, <1>8, <1>10, <1>11, DraftJoins

LEMMA DraftCopyPart == ASSUME DraftInv, NEW q \in Requests, DR!CopyPart(q), UNCHANGED draftRival
  PROVE DraftInv'
<1>1. /\ building[q].op = "copy" /\ building[q].pc = "part" /\ section[building[q].section] # DR!Gone
      /\ DR!Spare(part) # {} /\ UNCHANGED <<page, section, version, edited, failed>>
  BY DEF DR!CopyPart, DR!At
<1>2. PICK c, s, at : /\ c = DR!Fresh(part) /\ s = building[q].section
                     /\ at = IF building[q].left = {} THEN "version" ELSE "page"
  OBVIOUS
<1>3. c \in DraftParts /\ part[c] = DR!Gone
  BY <1>1, <1>2, DraftFresh DEF DraftInv, DraftsTyped
<1>4. PICK put, new : /\ put = [of |-> s, active |-> TRUE]
                     /\ new = [building[q] EXCEPT !.pc = at]
  BY Zenon
<1>5. part' = [part EXCEPT ![c] = put] /\ building' = [building EXCEPT ![q] = new]
  BY <1>2, <1>4 DEF DR!CopyPart, DR!Go
<1>6. s \in DraftSections /\ building[q] \in CopyCall /\ building[q] # DR!Idle
  BY <1>1, <1>2, DraftCopying
<1>7. /\ new \in CopyCall /\ new.pc = at /\ new.op = "copy" /\ at \in {"version", "page"}
      /\ new.left = building[q].left /\ new # DR!Idle /\ new \in DraftCalls
  BY <1>2, <1>4, <1>6 DEF CopyCall, DraftCalls, DR!Idle
<1>8. /\ DraftCallsTyped' /\ building'[q] = new
      /\ draftRival' = {} => \A r \in Requests : r # q => building'[r] = DR!Idle
  BY <1>5, <1>6, <1>7, DraftMoves, Zenon
<1>9. edited' \in BOOLEAN
  BY <1>1 DEF DraftInv, DraftsTyped
<1>10. /\ DraftsTyped' /\ DR!NoOrphans'
       /\ \A r : Filled(r) => Filled(r)'
       /\ \A r : section[s] = [of |-> r, active |-> TRUE] => Filled(r)'
  BY <1>1, <1>2, <1>3, <1>4, <1>5, <1>6, <1>9, DraftAddsPart, Zenon
<1>11. ASSUME draftRival = {}, ~failed PROVE DraftFinds(new)'
  <2>1. /\ Only(Live \ building[q].left)
        /\ \A r \in Live \ building[q].left : r = building[q].page \/ Filled(r)
        /\ section[s] = [of |-> building[q].page, active |-> TRUE]
    BY <1>1, <1>2, <1>11, DraftCopying DEF DraftFinds
  <2>2. Only(Live \ new.left)'
    BY <1>1, <1>7, <2>1 DEF Only
  <2>3. \A r \in Live \ new.left : Filled(r)'
    BY <1>7, <1>10, <2>1
  <2> QED BY <1>2, <1>7, <2>2, <2>3 DEF DraftFinds, DR!Edits
<1> QED BY <1>1, <1>7, <1>8, <1>10, <1>11, DraftJoins

LEMMA DraftFails == ASSUME DraftInv, NEW q \in Requests,
        DR!CopyFails(q) \/ DR!DiscardFails(q) \/ DR!EditFails(q), UNCHANGED draftRival
  PROVE DraftInv'
<1>1. building[q] # DR!Idle /\ building' = [building EXCEPT ![q] = DR!Idle]
  BY DEF DR!CopyFails, DR!DiscardFails, DR!EditFails, DR!End, DR!Idle, DR!Edits
<1>2. /\ UNCHANGED <<page, section, part, version, edited>>
      /\ failed' \/ (building[q].op \in DR!Edits /\ failed' = failed)
  BY DEF DR!CopyFails, DR!DiscardFails, DR!EditFails, DR!draftVars
<1>3. failed' \in BOOLEAN
  BY Zenon DEF DraftInv, DraftsTyped, DR!CopyFails, DR!DiscardFails, DR!EditFails, DR!draftVars
<1> QED BY <1>1, <1>2, <1>3, DraftStops, Zenon

LEMMA DraftCountVersion == ASSUME DraftInv, NEW q \in Requests, DR!CountVersion(q), UNCHANGED draftRival
  PROVE DraftInv'
<1>1. /\ building[q].op = "copy" /\ building[q].pc = "version" /\ version < MaxDrafts
      /\ version' = version + 1 /\ edited' = FALSE /\ UNCHANGED <<page, section, part, failed>>
      /\ building' = [building EXCEPT ![q] = DR!Idle]
  BY DEF DR!CountVersion, DR!At, DR!End
<1>2. building[q] # DR!Idle
  BY <1>1, DraftCopying
<1>3. /\ DraftCallsTyped' /\ building'[q] = DR!Idle
      /\ draftRival' = {} => \A r \in Requests : r # q => building'[r] = DR!Idle
  BY <1>1, <1>2, DraftMoves, Zenon DEF CopyCall, DR!Idle
<1>4. version' \in 0..MaxDrafts /\ version' # 0
  BY <1>1, DraftsAssumption DEF DraftInv, DraftsTyped
<1>5. DraftsTyped' /\ DR!NoOrphans'
  BY <1>1, <1>4, Zenon DEF DraftInv, DraftsTyped, DR!NoOrphans
<1>6. ASSUME draftRival = {}, ~failed PROVE DraftsShow'
  <2>1. Only(Live \ building[q].left) /\ (\A p \in Live \ building[q].left : Filled(p)) /\ building[q].left = {}
    BY <1>1, <1>6, DraftCopying, Zenon DEF DraftFinds
  <2>2. Only(Live) /\ \A p \in Live : Filled(p)
    BY <2>1 DEF Only
  <2>3. WholeApp'
    BY <1>1, <2>2 DEF WholeApp, Only, Filled
  <2> QED BY <1>4, <2>3 DEF DraftsShow
<1> QED BY <1>1, <1>3, <1>5, <1>6, DraftJoins

LEMMA DraftDiscard == ASSUME DraftInv, NEW q \in Requests, DR!DiscardDrafts(q), UNCHANGED draftRival
  PROVE DraftInv'
<1>1. PICK new : new = [op |-> "discard", pc |-> "parts"]
  BY Zenon
<1>2. DR!Begin(q, new) /\ UNCHANGED <<page, section, part, version, edited, failed>>
  BY <1>1 DEF DR!DiscardDrafts, DR!draftVars
<1>3. new \in DraftCalls /\ new # DR!Idle /\ new \notin CopyCall /\ new.op = "discard" /\ new.pc = "parts"
  BY <1>1 DEF DraftCalls, DiscardCall, CopyCall, DR!Idle
<1>4. DraftsTyped' /\ DR!NoOrphans'
  BY <1>2, DraftSameRows
<1>5. DraftFinds(new)'
  BY <1>3 DEF DraftFinds, DR!Edits
<1> QED BY <1>2, <1>3, <1>4, <1>5, DraftBegins, DraftJoins

LEMMA DraftDiscardStep == ASSUME DraftInv, NEW q \in Requests, DR!DiscardStep(q), UNCHANGED draftRival
  PROVE DraftInv'
<1>1. building[q].op = "discard" /\ edited' = FALSE /\ UNCHANGED failed /\ building[q] # DR!Idle
  BY DEF DR!DiscardStep, DR!Idle
<1>2. building[q] \in DiscardCall
  BY <1>1, DraftKnown, DraftCallIs
<1>3. /\ building[q].pc \in {"parts", "sections", "pages", "version"}
      /\ building[q].pc = "parts" => /\ part' = [c \in DraftParts |-> DR!Gone]
                                     /\ DR!Go(q, "sections") /\ UNCHANGED <<page, section, version>>
      /\ building[q].pc = "sections" => /\ DR!WithoutSections(DraftSections)
                                        /\ DR!Go(q, "pages") /\ UNCHANGED <<page, version>>
      /\ building[q].pc = "pages" => /\ DR!WithoutSections(DraftSections)
                                     /\ page' = [p \in DraftPages |-> "none"]
                                     /\ DR!Go(q, "version") /\ UNCHANGED version
      /\ building[q].pc = "version" => version' = 0 /\ DR!End(q) /\ UNCHANGED <<page, section, part>>
  BY <1>2, Zenon DEF DR!DiscardStep, DiscardCall
<1>4. PICK new : new = CASE building[q].pc = "parts" -> [building[q] EXCEPT !.pc = "sections"]
                         [] building[q].pc = "sections" -> [building[q] EXCEPT !.pc = "pages"]
                         [] building[q].pc = "pages" -> [building[q] EXCEPT !.pc = "version"]
                         [] OTHER -> DR!Idle
  BY Zenon
<1>5. building' = [building EXCEPT ![q] = new]
  BY <1>3, <1>4 DEF DR!Go, DR!End
<1>6. /\ building[q].pc # "version" =>
             new \in DiscardCall /\ new.op = "discard" /\ (new.pc = "version" => building[q].pc = "pages")
      /\ building[q].pc = "version" => new = DR!Idle
      /\ new \notin CopyCall /\ (new = DR!Idle \/ new \in DraftCalls)
      /\ new = DR!Idle => building[q].pc = "version"
  <2>1. CASE building[q].pc = "version"
    BY <1>4, <2>1 DEF CopyCall, DR!Idle
  <2>2. CASE building[q].pc # "version"
    <3>1. new \in DiscardCall /\ new.op = "discard" /\ (new.pc = "version" => building[q].pc = "pages")
      BY <1>2, <1>3, <1>4, <2>2 DEF DiscardCall
    <3> QED BY <2>2, <3>1 DEF DraftCalls, CopyCall, DR!Idle
  <2> QED BY <2>1, <2>2
<1>7. /\ DraftCallsTyped' /\ building'[q] = new
      /\ draftRival' = {} => \A r \in Requests : r # q => building'[r] = DR!Idle
  BY <1>1, <1>5, <1>6, DraftMoves, Zenon
<1>8. /\ page' \in [DraftPages -> {"none", "active", "hidden"}]
      /\ section' \in [DraftSections -> DraftSection] /\ part' \in [DraftParts -> DraftPart]
      /\ version' \in 0..MaxDrafts
      /\ \A c \in DraftParts : part'[c] = part[c] \/ part'[c] = DR!Gone
      /\ building[q].pc \in {"sections", "pages"} => \A s \in DraftSections : section'[s] = DR!Gone
      /\ building[q].pc \in {"sections", "pages"} => \A c \in DraftParts : part'[c] = DR!Gone
      /\ building[q].pc \in {"parts"} => \A c \in DraftParts : part'[c] = DR!Gone
      /\ building[q].pc \notin {"sections", "pages"} => UNCHANGED <<page, section>>
  <2>1. DR!Gone \in DraftSection /\ DR!Gone \in DraftPart
    BY DEF DraftSection, DraftPart
  <2>2. \A c \in DraftParts : part[c] = DR!Gone \/ part[c].of \in DraftSections
    BY DEF DraftInv, DraftsTyped, DraftPart
  <2>3. version' \in 0..MaxDrafts
    BY <1>3, DraftsAssumption DEF DraftInv, DraftsTyped
  <2>4. CASE building[q].pc = "parts"
    BY <1>3, <2>1, <2>3, <2>4 DEF DraftInv, DraftsTyped
  <2>5. CASE building[q].pc = "sections"
    BY <1>3, <2>1, <2>2, <2>3, <2>5 DEF DraftInv, DraftsTyped, DR!WithoutSections
  <2>6. CASE building[q].pc = "pages"
    BY <1>3, <2>1, <2>2, <2>3, <2>6 DEF DraftInv, DraftsTyped, DR!WithoutSections
  <2>7. CASE building[q].pc = "version"
    BY <1>3, <2>1, <2>3, <2>7 DEF DraftInv, DraftsTyped
  <2> QED BY <1>3, <2>4, <2>5, <2>6, <2>7
<1>9. DraftsTyped'
  BY <1>1, <1>8, Zenon DEF DraftInv, DraftsTyped
<1>10. DR!NoOrphans'
  <2>1. DR!Gone.of \notin DraftPages /\ DR!Gone.of \notin DraftSections
    BY DraftsAssumption DEF DR!Gone
  <2> QED BY <1>3, <1>8, <2>1 DEF DraftInv, DR!NoOrphans
<1>11. ASSUME draftRival = {}, ~failed, new # DR!Idle PROVE DraftFinds(new)'
  <2>1. new.pc = "version" => Only({})'
    BY <1>3, <1>6, <1>11 DEF Only
  <2> QED BY <1>6, <1>11, <2>1 DEF DraftFinds, DR!Edits
<1>12. ASSUME draftRival = {}, ~failed, new = DR!Idle PROVE DraftsShow'
  <2>1. Only({})
    BY <1>1, <1>6, <1>12, DraftKnown, Zenon DEF DraftFinds
  <2>2. Only({})' /\ version' = 0
    BY <1>3, <1>6, <1>12, <2>1 DEF Only
  <2> QED BY <2>2 DEF DraftsShow
<1> QED BY <1>1, <1>7, <1>9, <1>10, <1>11, <1>12, DraftJoins

LEMMA DraftEdit == ASSUME DraftInv, NEW q \in Requests, NEW op \in DR!Edits,
        NEW id \in DraftPages \cup DraftSections \cup DraftParts, DR!Edit(q, op, id), UNCHANGED draftRival
  PROVE DraftInv'
<1>1. PICK new : new = [op |-> op, pc |-> "write", id |-> id]
  BY Zenon
<1>2. /\ DR!Begin(q, new) /\ UNCHANGED <<page, section, part, version, edited, failed>>
      /\ op \in PageEdits => id \in DraftPages
      /\ op \in SectionEdits => id \in DraftSections
      /\ op \in PartEdits => id \in DraftParts
  BY <1>1 DEF DR!Edit, DR!draftVars, DR!PagesThere, PageEdits, SectionEdits, PartEdits
<1>3. op \in PageEdits \/ op \in SectionEdits \/ op \in PartEdits
  BY DEF DR!Edits, PageEdits, SectionEdits, PartEdits
<1>4. new \in EditRows /\ new.op = op
  BY <1>1, <1>2, <1>3 DEF EditRows, EditPage, EditSection, EditPart
<1>5. new \in DraftCalls /\ new # DR!Idle /\ new \notin CopyCall
  <2>1. op \notin {"copy", "idle", "discard"}
    BY DEF DR!Edits
  <2> QED BY <1>4, <2>1 DEF DraftCalls, CopyCall, DR!Idle
<1>6. DraftsTyped' /\ DR!NoOrphans' /\ DraftsShow' = DraftsShow
  BY <1>2, DraftSameRows
<1>7. /\ DraftCallsTyped' /\ building'[q] = new
      /\ draftRival' = {} => \A r \in Requests : r # q => building'[r] = DR!Idle
      /\ draftRival' = {} => \A r \in Requests : building[r] = DR!Idle
  BY <1>2, <1>5, DraftBegins
<1>8. ASSUME draftRival = {}, ~failed PROVE DraftFinds(new)'
  <2>1. DraftsShow
    BY <1>7, <1>8 DEF DraftInv
  <2>2. op \notin {"copy", "discard"}
    BY DEF DR!Edits
  <2> QED BY <1>4, <1>6, <2>1, <2>2 DEF DraftFinds
<1> QED BY <1>2, <1>5, <1>6, <1>7, <1>8, DraftJoins

LEMMA DraftEditing == ASSUME DraftInv, NEW q \in Requests, building[q].op \in DR!Edits
  PROVE /\ building[q] # DR!Idle /\ building[q] \in DraftCalls /\ building[q] \notin CopyCall
        /\ building[q].op \in PageEdits => building[q] \in EditPage /\ building[q].id \in DraftPages
        /\ building[q].op \in SectionEdits => building[q] \in EditSection /\ building[q].id \in DraftSections
        /\ building[q].op \in PartEdits => building[q] \in EditPart /\ building[q].id \in DraftParts
<1>1. building[q].op \notin {"copy", "idle", "discard"}
  BY DEF DR!Edits
<1>2. building[q] # DR!Idle
  BY <1>1 DEF DR!Idle
<1>3. building[q] \in DraftCalls
  BY <1>2, DraftKnown
<1> QED BY <1>1, <1>2, <1>3, DraftCallIs DEF EditPage, EditSection, EditPart

\* An edit that wrote: the drafts differ from the copy.
LEMMA DraftEdited == ASSUME DraftInv, NEW q \in Requests, building[q].op \in DR!Edits,
        NEW new, building' = [building EXCEPT ![q] = new], edited' = TRUE, UNCHANGED draftRival,
        new = DR!Idle \/ (new \in EditRows /\ new.op \in DR!Edits),
        DraftsTyped', DR!NoOrphans'
  PROVE DraftInv'
<1>1. new \notin CopyCall /\ (new = DR!Idle \/ new \in DraftCalls)
  BY DEF CopyCall, DR!Idle, DR!Edits, DraftCalls
<1>2. /\ DraftCallsTyped' /\ building'[q] = new
      /\ draftRival' = {} => \A r \in Requests : r # q => building'[r] = DR!Idle
  BY <1>1, DraftEditing, DraftMoves, Zenon
<1>3. DraftsShow'
  BY DEF DraftsShow
<1>4. new.op \in DR!Edits => DraftFinds(new)'
  BY <1>3 DEF DraftFinds, DR!Edits
<1> QED BY <1>2, <1>3, <1>4, DraftJoins

LEMMA DraftUpdatePage == ASSUME DraftInv, NEW q \in Requests, NEW state \in {"active", "hidden"},
        DR!UpdatePage(q, state), UNCHANGED draftRival
  PROVE DraftInv'
<1>1. PICK p : p = building[q].id
  OBVIOUS
<1>2. /\ building[q].op = "updatePage" /\ page[p] # "none" /\ page' = [page EXCEPT ![p] = state]
      /\ edited' = TRUE /\ building' = [building EXCEPT ![q] = DR!Idle]
      /\ UNCHANGED <<section, part, version, failed>>
  BY <1>1 DEF DR!UpdatePage, DR!End
<1>3. building[q].op \in DR!Edits /\ building[q].op \in PageEdits
  BY <1>2 DEF DR!Edits, PageEdits
<1>4. p \in DraftPages
  BY <1>1, <1>3, DraftEditing
<1>5. DraftsTyped' /\ DR!NoOrphans'
  BY <1>2, <1>4 DEF DraftInv, DraftsTyped, DR!NoOrphans
<1> QED BY <1>2, <1>3, <1>5, DraftEdited, Zenon

LEMMA DraftAddSection == ASSUME DraftInv, NEW q \in Requests, DR!AddSection(q), UNCHANGED draftRival
  PROVE DraftInv'
<1>1. PICK p, s, put : /\ p = building[q].id /\ s = DR!Fresh(section)
                      /\ put = [of |-> p, active |-> TRUE]
  BY Zenon
<1>2. /\ building[q].op = "addSection" /\ page[p] # "none" /\ DR!Spare(section) # {}
      /\ section' = [section EXCEPT ![s] = put]
      /\ edited' = TRUE /\ building' = [building EXCEPT ![q] = DR!Idle]
      /\ UNCHANGED <<page, part, version, failed>>
  BY <1>1 DEF DR!AddSection, DR!End
<1>3. building[q].op \in DR!Edits /\ building[q].op \in PageEdits
  BY <1>2 DEF DR!Edits, PageEdits
<1>4. p \in DraftPages /\ s \in DraftSections /\ section[s] = DR!Gone
  BY <1>1, <1>2, <1>3, DraftEditing, DraftFresh DEF DraftInv, DraftsTyped
<1>5. DraftsTyped' /\ DR!NoOrphans'
  BY <1>1, <1>2, <1>4, DraftAddsSection, Zenon
<1> QED BY <1>2, <1>3, <1>5, DraftEdited, Zenon

LEMMA DraftAddComponent == ASSUME DraftInv, NEW q \in Requests, DR!AddComponent(q), UNCHANGED draftRival
  PROVE DraftInv'
<1>1. PICK s, c, put : /\ s = building[q].id /\ c = DR!Fresh(part)
                      /\ put = [of |-> s, active |-> TRUE]
  BY Zenon
<1>2. /\ building[q].op = "addComponent" /\ section[s] # DR!Gone /\ DR!Spare(part) # {}
      /\ part' = [part EXCEPT ![c] = put]
      /\ edited' = TRUE /\ building' = [building EXCEPT ![q] = DR!Idle]
      /\ UNCHANGED <<page, section, version, failed>>
  BY <1>1 DEF DR!AddComponent, DR!End
<1>3. building[q].op \in DR!Edits /\ building[q].op \in SectionEdits
  BY <1>2 DEF DR!Edits, SectionEdits
<1>4. s \in DraftSections /\ c \in DraftParts /\ part[c] = DR!Gone
  BY <1>1, <1>2, <1>3, DraftEditing, DraftFresh DEF DraftInv, DraftsTyped
<1>5. DraftsTyped' /\ DR!NoOrphans'
  BY <1>1, <1>2, <1>4, DraftAddsPart, Zenon
<1> QED BY <1>2, <1>3, <1>5, DraftEdited, Zenon

LEMMA DraftUpdateSection == ASSUME DraftInv, NEW q \in Requests, NEW active \in BOOLEAN,
        DR!UpdateSection(q, active), UNCHANGED draftRival
  PROVE DraftInv'
<1>1. PICK s, put : s = building[q].id /\ put = [section[s] EXCEPT !.active = active]
  BY Zenon
<1>2. /\ building[q].op = "updateSection" /\ section[s] # DR!Gone
      /\ section' = [section EXCEPT ![s] = put]
      /\ edited' = TRUE /\ building' = [building EXCEPT ![q] = DR!Idle]
      /\ UNCHANGED <<page, part, version, failed>>
  BY <1>1 DEF DR!UpdateSection, DR!End
<1>3. building[q].op \in DR!Edits /\ building[q].op \in SectionEdits
  BY <1>2 DEF DR!Edits, SectionEdits
<1>4. s \in DraftSections
  BY <1>1, <1>3, DraftEditing
<1>5. section[s] \in [of : DraftPages, active : BOOLEAN]
  BY <1>2, <1>4 DEF DraftInv, DraftsTyped, DraftSection
<1>6. put \in [of : DraftPages, active : BOOLEAN] /\ put.of = section[s].of
  BY <1>1, <1>5
<1>7. /\ section' \in [DraftSections -> DraftSection]
      /\ \A t \in DraftSections : section'[t].of = section[t].of
  BY <1>2, <1>4, <1>6 DEF DraftInv, DraftsTyped, DraftSection
<1>8. DraftsTyped' /\ DR!NoOrphans'
  BY <1>2, <1>7 DEF DraftInv, DraftsTyped, DR!NoOrphans
<1> QED BY <1>2, <1>3, <1>8, DraftEdited, Zenon

LEMMA DraftUpdateComponent == ASSUME DraftInv, NEW q \in Requests, NEW active \in BOOLEAN,
        DR!UpdateComponent(q, active), UNCHANGED draftRival
  PROVE DraftInv'
<1>1. PICK c, put : c = building[q].id /\ put = [part[c] EXCEPT !.active = active]
  BY Zenon
<1>2. /\ building[q].op = "updateComponent" /\ part[c] # DR!Gone
      /\ part' = [part EXCEPT ![c] = put]
      /\ edited' = TRUE /\ building' = [building EXCEPT ![q] = DR!Idle]
      /\ UNCHANGED <<page, section, version, failed>>
  BY <1>1 DEF DR!UpdateComponent, DR!End
<1>3. building[q].op \in DR!Edits /\ building[q].op \in PartEdits
  BY <1>2 DEF DR!Edits, PartEdits
<1>4. c \in DraftParts
  BY <1>1, <1>3, DraftEditing
<1>5. part[c] \in [of : DraftSections, active : BOOLEAN]
  BY <1>2, <1>4 DEF DraftInv, DraftsTyped, DraftPart
<1>6. put \in [of : DraftSections, active : BOOLEAN] /\ put.of = part[c].of
  BY <1>1, <1>5
<1>7. /\ part' \in [DraftParts -> DraftPart]
      /\ \A t \in DraftParts : part'[t].of = part[t].of
  BY <1>2, <1>4, <1>6 DEF DraftInv, DraftsTyped, DraftPart
<1>8. DraftsTyped' /\ DR!NoOrphans'
  BY <1>2, <1>7 DEF DraftInv, DraftsTyped, DR!NoOrphans
<1> QED BY <1>2, <1>3, <1>8, DraftEdited, Zenon

\* Rows that go, with those below them.
LEMMA DraftRemoves == ASSUME DraftInv, edited' \in BOOLEAN, UNCHANGED <<version, failed>>,
        NEW gone, page' \in [DraftPages -> {"none", "active", "hidden"}],
        \A p \in DraftPages : page'[p] # page[p] => \A s \in DraftSections : section[s].of = p => s \in gone,
        section' = [s \in DraftSections |-> IF s \in gone THEN DR!Gone ELSE section[s]],
        part' = [c \in DraftParts |-> IF part[c].of \in gone THEN DR!Gone ELSE part[c]]
  PROVE DraftsTyped' /\ DR!NoOrphans'
<1>1. /\ DR!Gone \in DraftSection /\ DR!Gone \in DraftPart
      /\ DR!Gone.of \notin DraftPages /\ DR!Gone.of \notin DraftSections
  BY DraftsAssumption DEF DraftSection, DraftPart, DR!Gone
<1>2. DraftsTyped'
  BY <1>1 DEF DraftInv, DraftsTyped
<1>3. \A s \in DraftSections : section'[s].of \in DraftPages =>
        section'[s] = section[s] /\ s \notin gone /\ page'[section'[s].of] = page[section[s].of]
  BY <1>1
<1>4. \A c \in DraftParts : part'[c].of \in DraftSections =>
        part'[c] = part[c] /\ section'[part[c].of] = section[part[c].of]
  BY <1>1
<1>5. DR!NoOrphans'
  BY <1>3, <1>4, Zenon DEF DraftInv, DR!NoOrphans
<1> QED BY <1>2, <1>5

\* DraftParts that go by themselves.
LEMMA DraftRemovesParts == ASSUME DraftInv, edited' \in BOOLEAN,
        UNCHANGED <<page, section, version, failed>>, DOMAIN part' = DraftParts,
        part' \in [DraftParts -> DraftPart],
        \A c \in DraftParts : part'[c] = part[c] \/ part'[c] = DR!Gone
  PROVE DraftsTyped' /\ DR!NoOrphans'
<1>1. DR!Gone.of \notin DraftSections
  BY DraftsAssumption DEF DR!Gone
<1>2. DraftsTyped'
  BY DEF DraftInv, DraftsTyped
<1>3. DR!NoOrphans'
  BY <1>1 DEF DraftInv, DR!NoOrphans
<1> QED BY <1>2, <1>3

LEMMA DraftDeleteComponent == ASSUME DraftInv, NEW q \in Requests, DR!DeleteComponent(q),
        UNCHANGED draftRival
  PROVE DraftInv'
<1>1. /\ building[q].op = "deleteComponent" /\ part' = [part EXCEPT ![building[q].id] = DR!Gone]
      /\ edited' = TRUE /\ building' = [building EXCEPT ![q] = DR!Idle]
      /\ UNCHANGED <<page, section, version, failed>>
  BY DEF DR!DeleteComponent, DR!End
<1>2. building[q].op \in DR!Edits
  BY <1>1 DEF DR!Edits
<1>3. /\ part' \in [DraftParts -> DraftPart]
      /\ \A c \in DraftParts : part'[c] = part[c] \/ part'[c] = DR!Gone
  BY <1>1, Zenon DEF DraftInv, DraftsTyped, DraftPart
<1>4. DraftsTyped' /\ DR!NoOrphans'
  BY <1>1, <1>3, DraftRemovesParts
<1> QED BY <1>1, <1>2, <1>4, DraftEdited, Zenon

LEMMA DraftDeleteSection == ASSUME DraftInv, NEW q \in Requests, DR!DeleteSection(q),
        UNCHANGED draftRival
  PROVE DraftInv'
<1>1. PICK s : s = building[q].id
  OBVIOUS
<1>2. /\ building[q].op = "deleteSection" /\ edited' = TRUE /\ UNCHANGED <<page, version, failed>>
      /\ building[q].pc = "write" =>
           /\ part' = [c \in DraftParts |-> IF part[c].of = s THEN DR!Gone ELSE part[c]]
           /\ DR!Go(q, "row") /\ UNCHANGED section
      /\ building[q].pc # "write" => DR!WithoutSections({s}) /\ DR!End(q)
  BY <1>1 DEF DR!DeleteSection
<1>3. building[q].op \in DR!Edits /\ building[q].op \in SectionEdits
  BY <1>2 DEF DR!Edits, SectionEdits
<1>4. building[q] \in EditSection
  BY <1>3, DraftEditing
<1>5. CASE building[q].pc = "write"
  <2>1. PICK new : new = [building[q] EXCEPT !.pc = "row"]
    BY Zenon
  <2>2. building' = [building EXCEPT ![q] = new]
    BY <1>2, <1>5, <2>1 DEF DR!Go
  <2>3. new \in EditRows /\ new.op \in DR!Edits
    BY <1>3, <1>4, <2>1 DEF EditRows, EditSection
  <2>4. /\ part' \in [DraftParts -> DraftPart]
        /\ \A c \in DraftParts : part'[c] = part[c] \/ part'[c] = DR!Gone
    BY <1>2, <1>5 DEF DraftInv, DraftsTyped, DraftPart
  <2>5. DraftsTyped' /\ DR!NoOrphans'
    BY <1>2, <1>5, <2>4, DraftRemovesParts
  <2> QED BY <1>2, <1>3, <2>2, <2>3, <2>5, DraftEdited, Zenon
<1>6. CASE building[q].pc # "write"
  <2>1. /\ building' = [building EXCEPT ![q] = DR!Idle]
        /\ section' = [t \in DraftSections |-> IF t \in {s} THEN DR!Gone ELSE section[t]]
        /\ part' = [c \in DraftParts |-> IF part[c].of \in {s} THEN DR!Gone ELSE part[c]]
    BY <1>2, <1>6 DEF DR!End, DR!WithoutSections
  <2>2. page' \in [DraftPages -> {"none", "active", "hidden"}] /\ \A p \in DraftPages : page'[p] = page[p]
    BY <1>2 DEF DraftInv, DraftsTyped
  <2>3. DraftsTyped' /\ DR!NoOrphans'
    BY <1>2, <2>1, <2>2, DraftRemoves, Zenon
  <2> QED BY <1>2, <1>3, <2>1, <2>3, DraftEdited, Zenon
<1> QED BY <1>5, <1>6

LEMMA DraftDeletePage == ASSUME DraftInv, NEW q \in Requests, DR!DeletePage(q),
        UNCHANGED draftRival
  PROVE DraftInv'
<1>1. PICK p, gone : p = building[q].id /\ gone = DR!SectionsOf(p)
  OBVIOUS
<1>2. /\ building[q].op = "deletePage" /\ edited' = TRUE /\ UNCHANGED <<version, failed>>
      /\ building[q].pc = "write" =>
           /\ part' = [c \in DraftParts |-> IF part[c].of \in gone THEN DR!Gone ELSE part[c]]
           /\ DR!Go(q, "sections") /\ UNCHANGED <<page, section>>
      /\ building[q].pc = "sections" => DR!WithoutSections(gone) /\ DR!Go(q, "row") /\ UNCHANGED page
      /\ building[q].pc \notin {"write", "sections"} =>
           DR!WithoutSections(gone) /\ page' = [page EXCEPT ![p] = "none"] /\ DR!End(q)
  BY <1>1 DEF DR!DeletePage
<1>3. building[q].op \in DR!Edits /\ building[q].op \in PageEdits
  BY <1>2 DEF DR!Edits, PageEdits
<1>4. building[q] \in EditPage
  BY <1>3, DraftEditing
<1>5. CASE building[q].pc = "write"
  <2>1. PICK new : new = [building[q] EXCEPT !.pc = "sections"]
    BY Zenon
  <2>2. building' = [building EXCEPT ![q] = new]
    BY <1>2, <1>5, <2>1 DEF DR!Go
  <2>3. new \in EditRows /\ new.op \in DR!Edits
    BY <1>3, <1>4, <2>1 DEF EditRows, EditPage
  <2>4. /\ part' \in [DraftParts -> DraftPart]
        /\ \A c \in DraftParts : part'[c] = part[c] \/ part'[c] = DR!Gone
    BY <1>2, <1>5 DEF DraftInv, DraftsTyped, DraftPart
  <2>5. DraftsTyped' /\ DR!NoOrphans'
    BY <1>2, <1>5, <2>4, DraftRemovesParts
  <2> QED BY <1>2, <1>3, <2>2, <2>3, <2>5, DraftEdited, Zenon
<1>6. CASE building[q].pc # "write"
  <2>1. PICK new : new = IF building[q].pc = "sections" THEN [building[q] EXCEPT !.pc = "row"]
                         ELSE DR!Idle
    BY Zenon
  <2>2. /\ building' = [building EXCEPT ![q] = new]
        /\ section' = [t \in DraftSections |-> IF t \in gone THEN DR!Gone ELSE section[t]]
        /\ part' = [c \in DraftParts |-> IF part[c].of \in gone THEN DR!Gone ELSE part[c]]
    BY <1>2, <1>6, <2>1 DEF DR!End, DR!Go, DR!WithoutSections
  <2>3. new = DR!Idle \/ (new \in EditRows /\ new.op \in DR!Edits)
    BY <1>3, <1>4, <2>1 DEF EditRows, EditPage
  <2>4. /\ page' \in [DraftPages -> {"none", "active", "hidden"}]
        /\ \A r \in DraftPages : r # p => page'[r] = page[r]
    BY <1>2, <1>6 DEF DraftInv, DraftsTyped
  <2>5. \A s \in DraftSections : section[s].of = p => s \in gone
    BY <1>1 DEF DR!SectionsOf
  <2>6. DraftsTyped' /\ DR!NoOrphans'
    BY <1>2, <2>2, <2>4, <2>5, DraftRemoves, Zenon
  <2> QED BY <1>2, <1>3, <2>2, <2>3, <2>6, DraftEdited, Zenon
<1> QED BY <1>5, <1>6

LEMMA DraftStep == ASSUME DraftInv, DR!BuilderNext, UNCHANGED draftRival PROVE DraftInv'
<1> QED BY DraftInitialize, DraftCopyPage, DraftCopySection, DraftCopyPart, DraftFails,
     DraftCountVersion, DraftDiscard, DraftDiscardStep, DraftEdit, DraftUpdatePage, DraftAddSection,
     DraftAddComponent, DraftUpdateSection, DraftUpdateComponent, DraftDeleteComponent,
     DraftDeleteSection, DraftDeletePage DEF DR!BuilderNext

LEMMA DraftSame == ASSUME DraftInv, UNCHANGED drVars PROVE DraftInv'
<1>1. UNCHANGED <<page, section, part, version, edited, failed, draftRival, building>>
  BY DEF drVars
<1>2. /\ DraftsTyped' /\ DR!NoOrphans' /\ DraftsShow' = DraftsShow
      /\ \A c : DraftFinds(c)' = DraftFinds(c)
  BY <1>1, DraftSameRows
<1>3. DraftCallsTyped'
  BY <1>1 DEF DraftInv, DraftCallsTyped
<1>4. \A q \in Requests : DraftFinds(building[q])' = DraftFinds(building[q])
  BY <1>1, <1>2 DEF DraftFinds, Only, Filled
<1> QED BY <1>1, <1>2, <1>3, <1>4 DEF DraftInv

-----------------------------------------------------------------------------
(* Plugins and templates *)

Styles == [there : BOOLEAN, color : MK!Writers, logo : MK!Writers]
Installs == [op : {"install"}, t : Tenants, id : 1..MaxListings, version : 1..MaxListings]
Applies == [op : {"pages", "page", "navigation", "media", "copy"}, at : Nat \ {0},
            kept : Styles]
InstallingTyped ==
    /\ DOMAIN installing = Requests
    /\ \A q \in Requests : installing[q] = MK!Idle \/ installing[q] \in Installs \cup Applies

Installed == [there : {TRUE}, id : 1..MaxListings, version : 1..MaxListings,
              active : BOOLEAN, configured : BOOLEAN]
Listings == [there : BOOLEAN, id : 0..MaxListings, version : 0..MaxListings,
             published : BOOLEAN, downloads : 0..MaxListings]
PluginsTyped ==
    /\ listing \in Listings
    /\ listing.there => listing.id # 0 /\ listing.version # 0
    /\ released \subseteq (1..MaxListings) \X (1..MaxListings)
    /\ installation \in [Tenants -> {MK!NotInstalled} \cup Installed]
\* What is published, installed or about to be, was published in its version.
PluginsPublished ==
    /\ listing.there /\ listing.published => <<listing.id, listing.version>> \in released
    /\ \A t \in Tenants : installation[t].there =>
          /\ <<installation[t].id, installation[t].version>> \in released
          /\ listing.there /\ installation[t].id = listing.id
    /\ \A q \in Requests : MK!Is(q, "install") =>
          <<installing[q].id, installing[q].version>> \in released

TemplatesTyped ==
    /\ slug \in [MK!Slugs -> MK!Writers]
    /\ style \in Styles /\ (~style.there => style = MK!NoTheme)
    /\ navigation \in MK!Writers
    /\ copies \in [MK!Hashes -> Nat]
    /\ applied \in {"no", "yes", "dropped"}
\* What a request that applies the template has done so far.
TemplateKnows(c) ==
    /\ c.op \in {"pages", "page"} =>
         /\ applied = "no" =>
              \A i \in DOMAIN Template.pages : i < c.at => slug[Template.pages[i].slug] # "none"
         /\ c.op = "page" => c.at \in DOMAIN Template.pages
         /\ solo => c.kept = style
    /\ c.op \in {"navigation", "media", "copy"} /\ applied = "no" =>
         \A s \in MK!Slugs : slug[s] # "none"
    /\ c.op \in {"media", "copy"} =>
         /\ Template.navigation => navigation # "none"
         /\ applied = "no" =>
              \A i \in DOMAIN Template.media : i < c.at => copies[Template.media[i]] > 0
    /\ c.op = "copy" =>
         /\ c.at \in DOMAIN Template.media
         /\ solo => copies[Template.media[c.at]] = 0
\* The requests about to add a row for a hash.
Copying(h) ==
    {q \in Requests : installing[q].op = "copy" /\ Template.media[installing[q].at] = h}
CopiesCounted == \A h \in MK!Hashes : copies[h] + Cardinality(Copying(h)) <= Cardinality(Requests)
TemplatesInv ==
    /\ TemplatesTyped /\ MK!TemplateApplied /\ CopiesCounted
    /\ \A q \in Requests : installing[q] # MK!Idle => TemplateKnows(installing[q])
    /\ solo => \A q, r \in Requests : q # r => installing[q] = MK!Idle \/ installing[r] = MK!Idle

MarketInv ==
    /\ solo \in BOOLEAN
    /\ InstallingTyped /\ PluginsTyped /\ PluginsPublished /\ TemplatesInv

LEMMA CopyingFinite == ASSUME NEW h PROVE
    /\ IsFiniteSet(Copying(h)) /\ IsFiniteSet(Requests)
    /\ Cardinality(Copying(h)) \in Nat /\ Cardinality(Requests) \in Nat
    /\ Cardinality(Copying(h)) <= Cardinality(Requests)
<1>1. IsFiniteSet(Requests)
  BY MarketAssumption
<1>2. Copying(h) \subseteq Requests
  BY DEF Copying
<1> QED BY <1>1, <1>2, FS_Subset, FS_CardinalityType

LEMMA TemplateRanges ==
    /\ \A i \in DOMAIN Template.pages : Template.pages[i].slug \in MK!Slugs
    /\ \A s \in MK!Slugs : \E i \in DOMAIN Template.pages : s = Template.pages[i].slug
    /\ \A i \in DOMAIN Template.media : Template.media[i] \in MK!Hashes
    /\ \A h \in MK!Hashes : \E i \in DOMAIN Template.media : h = Template.media[i]
    /\ DOMAIN Template.pages = 1..Len(Template.pages) /\ Len(Template.pages) \in Nat
    /\ DOMAIN Template.media = 1..Len(Template.media) /\ Len(Template.media) \in Nat
  BY MarketAssumption DEF MK!Slugs, MK!Hashes

LEMMA MarketHolds == ASSUME MarketInv
  PROVE MK!TypeOK /\ MK!InstalledWasPublished /\ MK!TemplateApplied
<1>1. MK!TypeOK
  <2>1. listing.version \in 0..MaxListings /\ listing.downloads \in 0..MaxListings
        /\ released \subseteq (1..MaxListings) \X (1..MaxListings)
    BY DEF MarketInv, PluginsTyped, Listings
  <2>2. ASSUME NEW t \in Tenants
        PROVE MK!InstalledPlugins(t) # {} <=> installation[t] # MK!NotInstalled
    <3>1. installation[t] = MK!NotInstalled \/ installation[t].there = TRUE
      BY Zenon DEF MarketInv, PluginsTyped, Installed
    <3>2. MK!NotInstalled.there = FALSE
      BY DEF MK!NotInstalled
    <3> QED BY <3>1, <3>2 DEF MK!InstalledPlugins
  <2>3. copies \in [MK!Hashes -> 0..MK!Cardinality(Requests)]
    <3>1. MK!Cardinality(Requests) = Cardinality(Requests)
      BY DEF MK!Cardinality, Cardinality
    <3>2. ASSUME NEW h \in MK!Hashes PROVE copies[h] \in 0..Cardinality(Requests)
      <4>1. copies[h] \in Nat /\ copies[h] + Cardinality(Copying(h)) <= Cardinality(Requests)
        BY DEF MarketInv, TemplatesInv, TemplatesTyped, CopiesCounted
      <4> QED BY <4>1, CopyingFinite
    <3> QED BY <3>1, <3>2 DEF MarketInv, TemplatesInv, TemplatesTyped
  <2> QED BY <2>1, <2>2, <2>3 DEF MarketInv, TemplatesInv, TemplatesTyped, Styles, MK!TypeOK
<1>2. MK!InstalledWasPublished
  <2>1. MK!PluginStats.installs > 0 => MK!PluginStats.listings = 1
    <3>1. MK!PluginStats.installs = MK!Cardinality({t \in Tenants : installation[t].there})
          /\ MK!PluginStats.listings = IF listing.there THEN 1 ELSE 0
      BY DEF MK!PluginStats
    <3>2. MK!Cardinality({t \in Tenants : installation[t].there})
            = Cardinality({t \in Tenants : installation[t].there})
      BY DEF MK!Cardinality, Cardinality
    <3>3. CASE \E t \in Tenants : installation[t].there
      BY <3>1, <3>3, Zenon DEF MarketInv, PluginsPublished
    <3>4. CASE ~\E t \in Tenants : installation[t].there
      <4>1. {t \in Tenants : installation[t].there} = {}
        BY <3>4
      <4>2. MK!PluginStats.installs = 0
        BY <3>1, <3>2, <4>1, FS_EmptySet
      <4> QED BY <4>2
    <3> QED BY <3>3, <3>4
  <2> QED BY <2>1 DEF MarketInv, PluginsPublished, MK!InstalledWasPublished, MK!PublishedListings
<1> QED BY <1>1, <1>2 DEF MarketInv, TemplatesInv

LEMMA MarketStart == ASSUME MK!Init PROVE MarketInv
<1>1. InstallingTyped
  BY DEF MK!Init, InstallingTyped
<1>2. PluginsTyped
  <2>1. listing = [there |-> FALSE, id |-> 0, version |-> 0, published |-> FALSE, downloads |-> 0]
    BY DEF MK!Init, MK!NoListing
  <2>2. 0 \in 0..MaxListings
    BY MarketAssumption
  <2>3. listing \in Listings
    BY <2>1, <2>2 DEF Listings
  <2>4. listing.there = FALSE
    BY <2>1
  <2> QED BY <2>3, <2>4 DEF MK!Init, PluginsTyped
<1>3. PluginsPublished
  BY DEF MK!Init, MK!NoListing, MK!NotInstalled, PluginsPublished, MK!Is, MK!Idle
<1>4. TemplatesTyped
  BY Zenon DEF MK!Init, TemplatesTyped, MK!NoTheme, MK!Writers, Styles
<1>5. CopiesCounted
  <2>1. \A h \in MK!Hashes : copies[h] = 0
    BY DEF MK!Init
  <2> QED BY <2>1, CopyingFinite DEF CopiesCounted
<1>6. MK!TemplateApplied
  BY DEF MK!Init, MK!TemplateApplied
<1> QED BY <1>1, <1>2, <1>3, <1>4, <1>5, <1>6 DEF MarketInv, TemplatesInv, MK!Init

-----------------------------------------------------------------------------
\* A step of the listings that leaves the requests alone.
LEMMA PluginRows == ASSUME MarketInv,
        UNCHANGED <<installing, slug, style, navigation, copies, applied, solo>>,
        PluginsTyped',
        released \subseteq released',
        listing'.there /\ listing'.published => <<listing'.id, listing'.version>> \in released',
        \A t \in Tenants : installation'[t].there =>
          /\ <<installation'[t].id, installation'[t].version>> \in released'
          /\ listing'.there /\ installation'[t].id = listing'.id
  PROVE MarketInv'
<1>1. PluginsPublished'
  BY DEF MarketInv, PluginsPublished, MK!Is
<1>2. InstallingTyped'
  BY DEF MarketInv, InstallingTyped
<1>3. TemplatesInv'
  <2>1. TemplatesTyped' /\ CopiesCounted' /\ MK!TemplateApplied'
    BY DEF MarketInv, TemplatesInv, TemplatesTyped, CopiesCounted, Copying, MK!TemplateApplied
  <2>2. \A c : TemplateKnows(c) => TemplateKnows(c)'
    BY DEF TemplateKnows
  <2> QED BY <2>1, <2>2 DEF MarketInv, TemplatesInv
<1> QED BY <1>1, <1>2, <1>3 DEF MarketInv

LEMMA ListingWritten == ASSUME MarketInv,
        UNCHANGED <<installing, slug, style, navigation, copies, applied, solo>>,
        NEW new \in [there : {TRUE}, id : 1..MaxListings, version : 1..MaxListings,
                     published : BOOLEAN, downloads : 0..MaxListings],
        listing' = new, released' = MK!Publish(new), UNCHANGED installation,
        listing.there => new.id = listing.id
  PROVE MarketInv'
<1>0. \A t \in Tenants : installation[t].there => listing.there /\ installation[t].id = listing.id
  BY Zenon DEF MarketInv, PluginsPublished
<1>1. /\ released \subseteq released'
      /\ new.published => <<new.id, new.version>> \in released'
      /\ released' \subseteq (1..MaxListings) \X (1..MaxListings)
  BY DEF MK!Publish, MarketInv, PluginsTyped
<1>2. listing' \in Listings /\ listing'.there /\ listing'.id # 0 /\ listing'.version # 0
  <2>1. 1..MaxListings \subseteq 0..MaxListings /\ 0 \notin 1..MaxListings
    BY MarketAssumption
  <2> QED BY <2>1, Zenon DEF Listings
<1>3. PluginsTyped'
  BY <1>1, <1>2 DEF MarketInv, PluginsTyped
<1>4. \A t \in Tenants : installation'[t].there =>
          /\ <<installation'[t].id, installation'[t].version>> \in released'
          /\ listing'.there /\ installation'[t].id = listing'.id
  BY <1>0, <1>1, <1>2 DEF MarketInv, PluginsPublished
<1> QED BY <1>1, <1>3, <1>4, PluginRows

LEMMA ListingSteps == ASSUME MarketInv,
        UNCHANGED <<slug, style, navigation, copies, applied, solo>>,
        \/ \E published \in BOOLEAN : MK!CreateListing(published)
        \/ \E v \in 1..MaxListings : \E published \in BOOLEAN : MK!UpdateListing(v, published)
        \/ MK!RecordDownload
  PROVE MarketInv'
<1>0. listing \in Listings
      /\ (listing.there => listing.id # 0 /\ listing.version # 0)
  BY DEF MarketInv, PluginsTyped
<1>1. ASSUME NEW published \in BOOLEAN, MK!CreateListing(published) PROVE MarketInv'
  <2>1. PICK new : new = [there |-> TRUE, id |-> listing.id + 1, version |-> 1,
                          published |-> published, downloads |-> 0]
    BY Zenon
  <2>2. new \in [there : {TRUE}, id : 1..MaxListings, version : 1..MaxListings,
                 published : BOOLEAN, downloads : 0..MaxListings]
    <3>1. listing.id + 1 \in 1..MaxListings /\ 1 \in 1..MaxListings /\ 0 \in 0..MaxListings
      BY <1>0, <1>1, MarketAssumption DEF Listings, MK!CreateListing
    <3> QED BY <2>1, <3>1
  <2>3. listing' = new /\ released' = MK!Publish(new) /\ UNCHANGED <<installation, installing>>
    BY <1>1, <2>1 DEF MK!CreateListing, MK!Publish
  <2>4. ~listing.there
    BY <1>1 DEF MK!CreateListing
  <2> QED BY <2>2, <2>3, <2>4, ListingWritten, Zenon
<1>2. ASSUME NEW v \in 1..MaxListings, NEW published \in BOOLEAN, MK!UpdateListing(v, published)
      PROVE MarketInv'
  <2>1. PICK new : new = [listing EXCEPT !.version = v, !.published = published]
    OBVIOUS
  <2>2. new \in [there : {TRUE}, id : 1..MaxListings, version : 1..MaxListings,
                 published : BOOLEAN, downloads : 0..MaxListings]
    <3>1. listing.there = TRUE /\ listing.id \in 1..MaxListings /\ listing.downloads \in 0..MaxListings
      <4>1. listing.there /\ listing.there \in BOOLEAN
        BY <1>0, <1>2, Zenon DEF MK!UpdateListing, Listings
      <4>2. listing.id \in 0..MaxListings /\ listing.downloads \in 0..MaxListings
        BY <1>0 DEF Listings
      <4> QED BY <1>0, <4>1, <4>2, MarketAssumption
    <3>2. new = [there |-> listing.there, id |-> listing.id, version |-> v,
                 published |-> published, downloads |-> listing.downloads]
      BY <1>0, <2>1, Zenon DEF Listings
    <3> QED BY <3>1, <3>2, Zenon
  <2>3. listing' = new /\ released' = MK!Publish(new) /\ UNCHANGED <<installation, installing>>
    BY <1>2, <2>1, Zenon DEF MK!UpdateListing, MK!Publish
  <2>4. new.id = listing.id
    BY <1>0, <2>1 DEF Listings
  <2> QED BY <2>2, <2>3, <2>4, ListingWritten, Zenon
<1>3. ASSUME MK!RecordDownload PROVE MarketInv'
  <2>1. listing' = [listing EXCEPT !.downloads = @ + 1] /\ listing.downloads < MaxListings
        /\ listing.there /\ UNCHANGED <<released, installation, installing>>
    BY <1>3 DEF MK!RecordDownload
  <2>2. listing.downloads + 1 \in 0..MaxListings
    BY <1>0, <2>1, MarketAssumption DEF Listings
  <2>3. /\ listing' \in Listings
        /\ listing'.there = listing.there /\ listing'.id = listing.id
        /\ listing'.version = listing.version /\ listing'.published = listing.published
    BY <1>0, <2>1, <2>2, Zenon DEF Listings
  <2>4. PluginsTyped'
    BY <1>0, <2>1, <2>3 DEF MarketInv, PluginsTyped
  <2> QED BY <2>1, <2>3, <2>4, PluginRows DEF MarketInv, PluginsPublished
<1> QED BY <1>1, <1>2, <1>3

LEMMA InstallationSteps == ASSUME MarketInv,
        UNCHANGED <<slug, style, navigation, copies, applied, solo>>,
        \/ MK!DeleteListing
        \/ \E t \in Tenants : MK!UpdatePluginConfig(t) \/ MK!UninstallPlugin(t)
        \/ \E t \in Tenants : \E active \in BOOLEAN : MK!TogglePlugin(t, active)
  PROVE MarketInv'
<1>0. MK!NotInstalled.there = FALSE
  BY DEF MK!NotInstalled
<1>1. CASE MK!DeleteListing
  <2>1. /\ listing' = [there |-> FALSE, id |-> listing.id, version |-> 0,
                       published |-> FALSE, downloads |-> 0]
        /\ installation' = [t \in Tenants |-> MK!NotInstalled]
        /\ UNCHANGED <<released, installing>>
    BY <1>1 DEF MK!DeleteListing, MK!NoListing
  <2>2. 0 \in 0..MaxListings
    BY MarketAssumption
  <2>3. PluginsTyped'
    BY <2>1, <2>2 DEF MarketInv, PluginsTyped, Listings
  <2> QED BY <1>0, <2>1, <2>3, PluginRows
<1>2. ASSUME NEW t \in Tenants, installation[t].there, NEW new,
             \/ new = MK!NotInstalled
             \/ new \in Installed /\ new.id = installation[t].id /\ new.version = installation[t].version,
             installation' = [installation EXCEPT ![t] = new],
             UNCHANGED <<listing, released, installing>>
      PROVE MarketInv'
  <2>1. PluginsTyped'
    BY <1>2 DEF MarketInv, PluginsTyped
  <2>2. \A u \in Tenants : installation'[u].there =>
          /\ <<installation'[u].id, installation'[u].version>> \in released
          /\ listing.there /\ installation'[u].id = listing.id
    <3>1. \A u \in Tenants : installation'[u] = IF u = t THEN new ELSE installation[u]
      BY <1>2 DEF MarketInv, PluginsTyped
    <3>2. /\ <<installation[t].id, installation[t].version>> \in released
          /\ listing.there /\ installation[t].id = listing.id
      BY <1>2 DEF MarketInv, PluginsPublished
    <3>3. new.there => new.id = installation[t].id /\ new.version = installation[t].version
      BY <1>0, <1>2
    <3> QED BY <3>1, <3>2, <3>3 DEF MarketInv, PluginsPublished
  <2>3. listing.there /\ listing.published => <<listing.id, listing.version>> \in released
    BY DEF MarketInv, PluginsPublished
  <2> QED BY <1>2, <2>1, <2>2, <2>3, PluginRows
<1>3. ASSUME NEW t \in Tenants, installation[t].there PROVE installation[t] \in Installed
  BY <1>0, <1>3 DEF MarketInv, PluginsTyped
<1>4. ASSUME NEW t \in Tenants, MK!UpdatePluginConfig(t) PROVE MarketInv'
  <2>1. PICK new : new = [installation[t] EXCEPT !.configured = TRUE]
    BY Zenon
  <2>2. installation[t].there
    BY <1>4 DEF MK!UpdatePluginConfig
  <2>3. new \in Installed /\ new.id = installation[t].id /\ new.version = installation[t].version
    BY <1>3, <2>1, <2>2, Zenon DEF Installed
  <2>4. installation' = [installation EXCEPT ![t] = new] /\ UNCHANGED <<listing, released, installing>>
    BY <1>4, <2>1 DEF MK!UpdatePluginConfig
  <2> QED BY <1>2, <2>2, <2>3, <2>4, Zenon
<1>5. ASSUME NEW t \in Tenants, NEW active \in BOOLEAN, MK!TogglePlugin(t, active) PROVE MarketInv'
  <2>1. PICK new : new = [installation[t] EXCEPT !.active = active]
    BY Zenon
  <2>2. installation[t].there
    BY <1>5 DEF MK!TogglePlugin
  <2>3. new \in Installed /\ new.id = installation[t].id /\ new.version = installation[t].version
    BY <1>3, <2>1, <2>2, Zenon DEF Installed
  <2>4. installation' = [installation EXCEPT ![t] = new] /\ UNCHANGED <<listing, released, installing>>
    BY <1>5, <2>1 DEF MK!TogglePlugin
  <2> QED BY <1>2, <2>2, <2>3, <2>4, Zenon
<1>6. ASSUME NEW t \in Tenants, MK!UninstallPlugin(t) PROVE MarketInv'
  BY <1>2, <1>6, Zenon DEF MK!UninstallPlugin
<1> QED BY <1>1, <1>4, <1>5, <1>6

-----------------------------------------------------------------------------
\* One request moves on: the others, and what its plugins say, stay.
LEMMA InstallingMoves == ASSUME MarketInv, NEW q \in Requests, NEW new,
        installing' = [installing EXCEPT ![q] = new],
        new = MK!Idle \/ new \in Applies
                      \/ (new \in Installs /\ <<new.id, new.version>> \in released),
        MK!Free(q) \/ installing[q] # MK!Idle,
        UNCHANGED <<listing, released, solo>>,
        UNCHANGED installation
  PROVE /\ InstallingTyped' /\ PluginsTyped' /\ PluginsPublished'
        /\ installing'[q] = new
        /\ \A r \in Requests : r # q => installing'[r] = installing[r]
        /\ solo => \A r \in Requests : r # q => installing[r] = MK!Idle
<1>1. /\ installing'[q] = new /\ DOMAIN installing' = Requests
      /\ \A r \in Requests : r # q => installing'[r] = installing[r]
  BY DEF MarketInv, InstallingTyped
<1>2. InstallingTyped' /\ PluginsTyped'
  BY <1>1 DEF MarketInv, InstallingTyped, PluginsTyped
<1>3. new.op = "install" => <<new.id, new.version>> \in released
  <2>1. new = MK!Idle => new.op # "install"
    BY DEF MK!Idle
  <2>2. new \in Applies => new.op # "install"
    BY DEF Applies
  <2> QED BY <2>1, <2>2
<1>4. PluginsPublished'
  BY <1>1, <1>3 DEF MarketInv, PluginsPublished, MK!Is
<1>5. solo => \A r \in Requests : r # q => installing[r] = MK!Idle
  BY DEF MK!Free, MarketInv, TemplatesInv
<1> QED BY <1>1, <1>2, <1>4, <1>5

\* What the other requests did stays done.
LEMMA KnowsKept == ASSUME UNCHANGED solo, ~solo,
        applied' = "no" =>
            /\ applied = "no"
            /\ \A s \in MK!Slugs : slug[s] # "none" => slug'[s] # "none"
            /\ \A h \in MK!Hashes : copies[h] > 0 => copies'[h] > 0,
        navigation # "none" => navigation' # "none",
        NEW c, TemplateKnows(c)
  PROVE TemplateKnows(c)'
<1>1. (c.op \in {"pages", "page"} =>
         /\ applied = "no" =>
              \A i \in DOMAIN Template.pages : i < c.at => slug[Template.pages[i].slug] # "none"
         /\ c.op = "page" => c.at \in DOMAIN Template.pages
         /\ solo => c.kept = style)'
  BY TemplateRanges DEF TemplateKnows
<1>2. (c.op \in {"navigation", "media", "copy"} /\ applied = "no" =>
         \A s \in MK!Slugs : slug[s] # "none")'
  BY DEF TemplateKnows
<1>3. (c.op \in {"media", "copy"} =>
         /\ Template.navigation => navigation # "none"
         /\ applied = "no" =>
              \A i \in DOMAIN Template.media : i < c.at => copies[Template.media[i]] > 0)'
  BY TemplateRanges DEF TemplateKnows
<1>4. (c.op = "copy" =>
         /\ c.at \in DOMAIN Template.media
         /\ solo => copies[Template.media[c.at]] = 0)'
  BY DEF TemplateKnows
<1> QED BY <1>1, <1>2, <1>3, <1>4 DEF TemplateKnows

LEMMA TemplateJoins == ASSUME MarketInv, NEW q \in Requests, NEW new,
        installing' = [installing EXCEPT ![q] = new],
        new = MK!Idle \/ new \in Applies
                      \/ (new \in Installs /\ <<new.id, new.version>> \in released),
        MK!Free(q) \/ installing[q] # MK!Idle,
        UNCHANGED <<listing, released, solo>>, UNCHANGED installation,
        TemplatesTyped', MK!TemplateApplied', CopiesCounted',
        new # MK!Idle => TemplateKnows(new)',
        applied' = "no" =>
            applied = "no" /\ \A s \in MK!Slugs : slug[s] # "none" => slug'[s] # "none",
        navigation' \in {navigation, "template"},
        \A h \in MK!Hashes : copies[h] > 0 => copies'[h] > 0
  PROVE MarketInv'
<1>1. /\ InstallingTyped' /\ PluginsTyped' /\ PluginsPublished'
      /\ installing'[q] = new
      /\ \A r \in Requests : r # q => installing'[r] = installing[r]
      /\ solo => \A r \in Requests : r # q => installing[r] = MK!Idle
  BY InstallingMoves, Zenon
<1>2. ASSUME NEW r \in Requests, installing'[r] # MK!Idle PROVE TemplateKnows(installing[r])'
  <2>1. CASE r = q
    BY <1>1, <1>2, <2>1
  <2>2. CASE r # q
    <3>1. ~solo /\ TemplateKnows(installing[r])
      BY <1>1, <1>2, <2>2 DEF MarketInv, TemplatesInv
    <3>2. \A c : TemplateKnows(c) => TemplateKnows(c)'
      BY <3>1, KnowsKept
    <3>3. TemplateKnows(installing'[r])
      BY <1>1, <2>2, <3>1
    <3> QED BY <1>1, <2>2, <3>1, <3>2, <3>3 DEF TemplateKnows
  <2> QED BY <2>1, <2>2
<1>3. solo' => \A r, s \in Requests : r # s => installing'[r] = MK!Idle \/ installing'[s] = MK!Idle
  BY <1>1
<1> QED BY <1>1, <1>2, <1>3 DEF MarketInv, TemplatesInv

\* Nobody new is about to copy, and nothing was copied.
LEMMA CopiesSame == ASSUME MarketInv, NEW q \in Requests, NEW new,
        installing' = [installing EXCEPT ![q] = new], new.op # "copy", UNCHANGED copies
  PROVE CopiesCounted'
<1> SUFFICES ASSUME NEW h \in MK!Hashes
             PROVE copies[h] + Cardinality(Copying(h)') <= Cardinality(Requests)
  BY DEF CopiesCounted
<1>1. Copying(h)' \subseteq Copying(h)
  <2>1. \A r \in Requests : installing'[r] = IF r = q THEN new ELSE installing[r]
    BY DEF MarketInv, InstallingTyped
  <2> QED BY <2>1 DEF Copying
<1>2. Cardinality(Copying(h)') <= Cardinality(Copying(h)) /\ Cardinality(Copying(h)') \in Nat
  BY <1>1, CopyingFinite, FS_Subset, FS_CardinalityType
<1>3. copies[h] \in Nat /\ copies[h] + Cardinality(Copying(h)) <= Cardinality(Requests)
  BY DEF MarketInv, TemplatesInv, TemplatesTyped, CopiesCounted
<1> QED BY <1>2, <1>3, CopyingFinite

\* What a request that is at one of the steps of a template has.
LEMMA Applying == ASSUME MarketInv, NEW q \in Requests,
        NEW op \in {"pages", "page", "navigation", "media", "copy"}, MK!Is(q, op)
  PROVE /\ installing[q] \in Applies /\ installing[q] # MK!Idle /\ installing[q].op = op
        /\ TemplateKnows(installing[q])
        /\ installing[q].at \in Nat \ {0} /\ installing[q].kept \in Styles
<1>1. installing[q] # MK!Idle /\ installing[q].op = op
  BY DEF MK!Is, MK!Idle
<1>2. installing[q] \in Applies
  BY <1>1 DEF MarketInv, InstallingTyped, Installs
<1> QED BY <1>1, <1>2 DEF MarketInv, TemplatesInv, Applies

LEMMA IdleNoCopy == MK!Idle.op # "copy"
  BY DEF MK!Idle

TemplateRows == <<slug, style, navigation, copies, applied>>
\* A step that changes one request and no row.
LEMMA TemplateWaits == ASSUME MarketInv, NEW q \in Requests, NEW new,
        installing' = [installing EXCEPT ![q] = new],
        new = MK!Idle \/ (new \in Applies /\ TemplateKnows(new)),
        MK!Free(q) \/ installing[q] # MK!Idle,
        UNCHANGED <<listing, released, solo>>, UNCHANGED installation, UNCHANGED TemplateRows,
        new.op = "copy" => copies[Template.media[new.at]] = 0
  PROVE MarketInv'
<1> USE DEF TemplateRows
<1>1. TemplatesTyped' /\ MK!TemplateApplied'
  BY DEF MarketInv, TemplatesInv, TemplatesTyped, MK!TemplateApplied
<1>2. CopiesCounted'
  <2>1. CASE new.op # "copy"
    BY <2>1, CopiesSame, Zenon
  <2>2. CASE new.op = "copy"
    <3> SUFFICES ASSUME NEW h \in MK!Hashes
                 PROVE copies[h] + Cardinality(Copying(h)') <= Cardinality(Requests)
      BY DEF CopiesCounted
    <3>1. \A r \in Requests : installing'[r] = IF r = q THEN new ELSE installing[r]
      BY DEF MarketInv, InstallingTyped
    <3>2. copies[h] \in Nat /\ copies[h] + Cardinality(Copying(h)) <= Cardinality(Requests)
      BY DEF MarketInv, TemplatesInv, TemplatesTyped, CopiesCounted
    <3>3. IsFiniteSet(Requests) /\ Copying(h)' \subseteq Requests
      BY CopyingFinite, Zenon DEF Copying
    <3>4. CASE h = Template.media[new.at]
      <4>1. Cardinality(Copying(h)') <= Cardinality(Requests) /\ Cardinality(Copying(h)') \in Nat
        BY <3>3, FS_Subset, FS_CardinalityType
      <4> QED BY <2>2, <3>4, <4>1
    <3>5. CASE h # Template.media[new.at]
      <4>1. Copying(h)' \subseteq Copying(h)
        BY <3>1, <3>5 DEF Copying
      <4>2. Cardinality(Copying(h)') <= Cardinality(Copying(h)) /\ Cardinality(Copying(h)') \in Nat
        BY <4>1, CopyingFinite, FS_Subset, FS_CardinalityType
      <4> QED BY <3>2, <4>2, CopyingFinite
    <3> QED BY <3>4, <3>5
  <2> QED BY <2>1, <2>2
<1>3. new # MK!Idle => TemplateKnows(new)'
  BY DEF TemplateKnows
<1> QED BY <1>1, <1>2, <1>3, TemplateJoins, Zenon

\* The state of the tenant while its own rows change.
LEMMA TenantEdits == ASSUME MarketInv,
        \/ \E s \in MK!Slugs : MK!SeedPage(s)
        \/ MK!EditTheme \/ MK!EditNavigation
        \/ \E h \in MK!Hashes : MK!DeleteAsset(h),
        \A q \in Requests : solo => installing[q] = MK!Idle,
        UNCHANGED installing,
        UNCHANGED <<listing, released, solo>>, UNCHANGED installation
  PROVE MarketInv'
<1>1. InstallingTyped' /\ PluginsTyped' /\ PluginsPublished'
  BY DEF MarketInv, InstallingTyped, PluginsTyped, PluginsPublished, MK!Is
<1>0. TemplatesTyped
  BY DEF MarketInv, TemplatesInv
<1> DEFINE Kept ==
      /\ TemplatesTyped'
      /\ applied' = "no" => applied = "no"
      /\ applied' = "yes" => applied = "yes"
      /\ applied' # "dropped" =>
           /\ \A s \in MK!Slugs : slug[s] # "none" => slug'[s] # "none"
           /\ \A h \in MK!Hashes : copies[h] > 0 => copies'[h] > 0
      /\ navigation # "none" => navigation' # "none"
      /\ \A h \in MK!Hashes : copies'[h] <= copies[h]
<1>2. Kept
  <2>0. \A h \in MK!Hashes : copies[h] \in Nat /\ copies[h] <= copies[h]
    BY <1>0 DEF TemplatesTyped
  <2>1. ASSUME NEW s \in MK!Slugs, MK!SeedPage(s) PROVE Kept
    <3>1. /\ UNCHANGED <<style, navigation, copies, applied>>
          /\ slug' = [slug EXCEPT ![s] = "own"]
      BY <2>1 DEF MK!SeedPage
    <3>2. slug' \in [MK!Slugs -> MK!Writers]
      BY <1>0, <3>1 DEF TemplatesTyped, MK!Writers
    <3> QED BY <1>0, <2>0, <3>1, <3>2 DEF TemplatesTyped
  <2>2. CASE MK!EditTheme
    BY <1>0, <2>0, <2>2 DEF MK!EditTheme, TemplatesTyped, Styles, MK!Writers
  <2>3. CASE MK!EditNavigation
    BY <1>0, <2>0, <2>3 DEF MK!EditNavigation, TemplatesTyped, MK!Writers
  <2>4. ASSUME NEW h \in MK!Hashes, MK!DeleteAsset(h) PROVE Kept
    <3>1. /\ UNCHANGED <<slug, style, navigation>> /\ applied' = "dropped"
          /\ copies' = [copies EXCEPT ![h] = @ - 1] /\ copies[h] > 0
      BY <2>4 DEF MK!DeleteAsset
    <3>2. copies' \in [MK!Hashes -> Nat] /\ \A g \in MK!Hashes : copies'[g] <= copies[g]
      BY <1>0, <2>0, <3>1 DEF TemplatesTyped
    <3>3. TemplatesTyped'
      BY <1>0, <3>1, <3>2 DEF TemplatesTyped
    <3> QED BY <3>1, <3>2, <3>3
  <2> QED BY <2>1, <2>2, <2>3, <2>4
<1>3. MK!TemplateApplied'
  <2>1. applied' = "yes" =>
          /\ \A s \in MK!Slugs : slug'[s] # "none"
          /\ \A h \in MK!Hashes : copies'[h] > 0
          /\ Template.navigation => navigation' # "none"
    BY <1>2 DEF MarketInv, TemplatesInv, MK!TemplateApplied
  <2>2. \A h \in MK!Hashes : copies[h] \in Nat /\ copies'[h] \in Nat
    BY <1>0, <1>2 DEF TemplatesTyped
  <2>3. solo' => \A h \in MK!Hashes : copies'[h] <= 1
    BY <1>2, <2>2 DEF MarketInv, TemplatesInv, MK!TemplateApplied
  <2> QED BY <2>1, <2>3 DEF MK!TemplateApplied
<1>4. CopiesCounted'
  <2> SUFFICES ASSUME NEW h \in MK!Hashes
               PROVE copies'[h] + Cardinality(Copying(h)') <= Cardinality(Requests)
    BY DEF CopiesCounted
  <2>1. Copying(h)' = Copying(h)
    BY DEF Copying
  <2>2. copies[h] \in Nat /\ copies'[h] \in Nat /\ copies'[h] <= copies[h]
    BY <1>0, <1>2 DEF TemplatesTyped
  <2>3. copies[h] + Cardinality(Copying(h)) <= Cardinality(Requests)
    BY DEF MarketInv, TemplatesInv, CopiesCounted
  <2> QED BY <2>1, <2>2, <2>3, CopyingFinite
<1>5. \A q \in Requests : installing[q] # MK!Idle => TemplateKnows(installing[q])'
  <2>1. ASSUME NEW q \in Requests, installing[q] # MK!Idle PROVE TemplateKnows(installing[q])'
    <3>1. ~solo /\ TemplateKnows(installing[q])
      BY <2>1 DEF MarketInv, TemplatesInv
    <3>2. \A c : TemplateKnows(c) => TemplateKnows(c)'
      BY <1>2, <3>1, KnowsKept
    <3> QED BY <3>1, <3>2 DEF TemplateKnows
  <2> QED BY <2>1
<1> HIDE DEF Kept
<1>6. TemplatesTyped'
  BY <1>2 DEF Kept
<1> QED BY <1>1, <1>3, <1>4, <1>5, <1>6 DEF MarketInv, TemplatesInv

LEMMA PluginCalls == ASSUME MarketInv, UNCHANGED TemplateRows, UNCHANGED solo,
        \/ \E q \in Requests : \E t \in Tenants : MK!ReadPublished(q, t)
        \/ \E q \in Requests : MK!Is(q, "install") /\ MK!InstallPlugin(q)
  PROVE MarketInv'
<1> USE DEF TemplateRows
<1>1. ASSUME NEW q \in Requests, NEW t \in Tenants, MK!ReadPublished(q, t) PROVE MarketInv'
  <2>1. PICK new : new = [op |-> "install", t |-> t, id |-> listing.id, version |-> listing.version]
    BY Zenon
  <2>2. /\ MK!Free(q) /\ installing' = [installing EXCEPT ![q] = new]
        /\ UNCHANGED <<listing, released, installation>>
        /\ listing.there /\ listing.published
    BY <1>1, <2>1 DEF MK!ReadPublished, MK!Begin, MK!pluginVars
  <2>3. new \in Installs /\ <<new.id, new.version>> \in released /\ new.op = "install"
    <3>1. listing.id \in 1..MaxListings /\ listing.version \in 1..MaxListings
      <4>1. listing.id \in 0..MaxListings /\ listing.version \in 0..MaxListings
            /\ listing.id # 0 /\ listing.version # 0
        BY <2>2 DEF MarketInv, PluginsTyped, Listings
      <4> QED BY <4>1, MarketAssumption
    <3>2. <<listing.id, listing.version>> \in released
      BY <2>2 DEF MarketInv, PluginsPublished
    <3> QED BY <2>1, <3>1, <3>2 DEF Installs
  <2>4. TemplatesTyped' /\ MK!TemplateApplied'
    BY DEF MarketInv, TemplatesInv, TemplatesTyped, MK!TemplateApplied
  <2>5. CopiesCounted'
    BY <2>2, <2>3, CopiesSame, Zenon
  <2>6. TemplateKnows(new)'
    BY <2>3 DEF TemplateKnows
  <2> QED BY <2>2, <2>3, <2>4, <2>5, <2>6, TemplateJoins, Zenon
<1>2. ASSUME NEW q \in Requests, MK!Is(q, "install"), MK!InstallPlugin(q) PROVE MarketInv'
  <2>1. /\ installing' = [installing EXCEPT ![q] = MK!Idle]
        /\ UNCHANGED <<listing, released>>
    BY <1>2 DEF MK!InstallPlugin, MK!End
  <2>2. installing[q] # MK!Idle /\ installing[q] \in Installs
        /\ <<installing[q].id, installing[q].version>> \in released
    <3>1. installing[q] # MK!Idle /\ installing[q].op = "install"
      BY <1>2 DEF MK!Is, MK!Idle
    <3> QED BY <1>2, <3>1 DEF MarketInv, InstallingTyped, Applies, PluginsPublished
  <2>3. /\ InstallingTyped' /\ TemplatesInv'
        /\ \A r \in Requests : installing'[r] = IF r = q THEN MK!Idle ELSE installing[r]
    <3>1. \A r \in Requests : installing'[r] = IF r = q THEN MK!Idle ELSE installing[r]
      BY <2>1 DEF MarketInv, InstallingTyped
    <3>2. InstallingTyped'
      BY <2>1, <3>1 DEF MarketInv, InstallingTyped
    <3>3. CopiesCounted'
      BY <2>1, CopiesSame, IdleNoCopy, Zenon
    <3>4. TemplatesTyped' /\ MK!TemplateApplied'
      BY DEF MarketInv, TemplatesInv, TemplatesTyped, MK!TemplateApplied
    <3>5. \A c : TemplateKnows(c) => TemplateKnows(c)'
      BY DEF TemplateKnows
    <3> QED BY <3>1, <3>2, <3>3, <3>4, <3>5 DEF MarketInv, TemplatesInv
  <2>4. PICK new : new = [there |-> TRUE, id |-> installing[q].id, version |-> installing[q].version,
                          active |-> TRUE, configured |-> FALSE]
    BY Zenon
  <2>5. new \in Installed /\ new.id = installing[q].id /\ new.version = installing[q].version
    BY <2>2, <2>4 DEF Installed, Installs
  <2>6. PICK t : t = installing[q].t
    OBVIOUS
  <2>7. t \in Tenants
    BY <2>2, <2>6 DEF Installs
  <2>8. \/ UNCHANGED installation
        \/ /\ listing.there /\ listing.id = installing[q].id
           /\ installation' = [installation EXCEPT ![t] = new]
    BY <1>2, <2>4, <2>6 DEF MK!InstallPlugin
  <2>9. PluginsTyped' /\ PluginsPublished'
    <3>1. PluginsTyped'
      BY <2>1, <2>5, <2>7, <2>8 DEF MarketInv, PluginsTyped
    <3>2. \A u \in Tenants : installation'[u].there =>
            /\ <<installation'[u].id, installation'[u].version>> \in released
            /\ listing.there /\ installation'[u].id = listing.id
      <4>1. CASE UNCHANGED installation
        BY <4>1 DEF MarketInv, PluginsPublished
      <4>2. CASE /\ listing.there /\ listing.id = installing[q].id
                 /\ installation' = [installation EXCEPT ![t] = new]
        <5>1. \A u \in Tenants : installation'[u] = IF u = t THEN new ELSE installation[u]
          BY <4>2 DEF MarketInv, PluginsTyped
        <5> QED BY <2>2, <2>5, <4>2, <5>1 DEF MarketInv, PluginsPublished
      <4> QED BY <2>8, <4>1, <4>2
    <3>3. \A r \in Requests : MK!Is(r, "install")' => MK!Is(r, "install") /\ r # q
      BY <2>3 DEF MK!Is, MK!Idle
    <3> QED BY <2>1, <2>3, <3>1, <3>2, <3>3 DEF MarketInv, PluginsPublished
  <2> QED BY <2>3, <2>9 DEF MarketInv
<1> QED BY <1>1, <1>2

LEMMA TemplateBegins == ASSUME MarketInv, NEW q \in Requests, MK!UseTemplate(q),
        UNCHANGED <<listing, released, solo>>, UNCHANGED installation
  PROVE MarketInv'
<1>1. PICK new : new = [op |-> "pages", at |-> 1, kept |-> style]
  BY Zenon
<1>2. /\ MK!Free(q) /\ installing' = [installing EXCEPT ![q] = new] /\ UNCHANGED TemplateRows
  BY <1>1 DEF MK!UseTemplate, MK!Begin, MK!Progress, TemplateRows, MK!templateVars
<1>3. new \in Applies /\ new.op = "pages" /\ new.at = 1 /\ new.kept = style
  BY <1>1 DEF Applies, MarketInv, TemplatesInv, TemplatesTyped
<1>4. TemplateKnows(new)
  BY <1>3, TemplateRanges DEF TemplateKnows
<1> QED BY <1>2, <1>3, <1>4, TemplateWaits, Zenon

LEMMA TemplateFinds == ASSUME MarketInv, NEW q \in Requests, MK!Is(q, "pages"), MK!FindPage(q),
        UNCHANGED <<listing, released, solo>>, UNCHANGED installation
  PROVE MarketInv'
<1>0. PICK c : c = installing[q]
  OBVIOUS
<1>1. /\ c \in Applies /\ installing[q] # MK!Idle /\ c.op = "pages"
      /\ TemplateKnows(c) /\ c.at \in Nat \ {0} /\ c.kept \in Styles
  BY <1>0, Applying
<1>2. c.at <= Len(Template.pages) /\ c.at \in DOMAIN Template.pages /\ UNCHANGED TemplateRows
  BY <1>0, <1>1, TemplateRanges DEF MK!FindPage, TemplateRows, MK!templateVars
<1>3. CASE MK!End(q)
  BY <1>1, <1>2, <1>3, TemplateWaits, IdleNoCopy, Zenon DEF MK!End
<1>4. CASE slug[Template.pages[c.at].slug] # "none" /\ MK!Go(q, [c EXCEPT !.at = c.at + 1])
  <2>1. PICK new : new = [c EXCEPT !.at = c.at + 1]
    BY Zenon
  <2>2. new \in Applies /\ new.op = "pages" /\ new.at = c.at + 1 /\ new.kept = c.kept
    BY <1>1, <2>1 DEF Applies
  <2>3. TemplateKnows(new)
    <3>1. \A i \in DOMAIN Template.pages : i < new.at => i < c.at \/ i = c.at
      BY <1>1, <2>2, TemplateRanges
    <3> QED BY <1>1, <1>4, <2>2, <3>1 DEF TemplateKnows
  <2> QED BY <1>1, <1>2, <1>4, <2>1, <2>2, <2>3, TemplateWaits, Zenon DEF MK!Go
<1>5. CASE MK!Go(q, [c EXCEPT !.op = "page"])
  <2>1. PICK new : new = [c EXCEPT !.op = "page"]
    BY Zenon
  <2>2. new \in Applies /\ new.op = "page" /\ new.at = c.at /\ new.kept = c.kept
    BY <1>1, <2>1 DEF Applies
  <2>3. TemplateKnows(new)
    BY <1>1, <1>2, <2>2 DEF TemplateKnows
  <2> QED BY <1>1, <1>2, <1>5, <2>1, <2>2, <2>3, TemplateWaits, Zenon DEF MK!Go
<1> QED BY <1>0, <1>3, <1>4, <1>5 DEF MK!FindPage

LEMMA TemplateCreates == ASSUME MarketInv, NEW q \in Requests, MK!Is(q, "page"), MK!CreatePage(q),
        UNCHANGED <<listing, released, solo>>, UNCHANGED installation
  PROVE MarketInv'
<1>0. PICK c : c = installing[q]
  OBVIOUS
<1>1. /\ c \in Applies /\ installing[q] # MK!Idle /\ c.op = "page"
      /\ TemplateKnows(c) /\ c.at \in Nat \ {0} /\ c.kept \in Styles
  BY <1>0, Applying
<1>2. PICK s : s = Template.pages[c.at].slug
  OBVIOUS
<1>3. c.at \in DOMAIN Template.pages /\ s \in MK!Slugs
  BY <1>1, <1>2, TemplateRanges DEF TemplateKnows
<1>4. UNCHANGED <<style, navigation, copies, applied>>
  BY DEF MK!CreatePage
<1>5. CASE MK!End(q) /\ UNCHANGED slug
  BY <1>1, <1>4, <1>5, TemplateWaits, IdleNoCopy, Zenon DEF MK!End, TemplateRows
<1>6. CASE /\ slug' = [slug EXCEPT ![s] = "template"]
           /\ MK!Go(q, MK!Progress("pages", c.at + 1, c.kept))
  <2>1. PICK new : new = [op |-> "pages", at |-> c.at + 1, kept |-> c.kept]
    BY Zenon
  <2>2. /\ new \in Applies /\ new.op = "pages" /\ new.at = c.at + 1 /\ new.kept = c.kept
        /\ installing' = [installing EXCEPT ![q] = new]
    BY <1>1, <1>6, <2>1 DEF Applies, MK!Go, MK!Progress
  <2>3. /\ slug' \in [MK!Slugs -> MK!Writers]
        /\ \A t \in MK!Slugs : slug'[t] = IF t = s THEN "template" ELSE slug[t]
    BY <1>3, <1>6 DEF MarketInv, TemplatesInv, TemplatesTyped, MK!Writers
  <2>4. TemplatesTyped' /\ MK!TemplateApplied'
    BY <1>4, <2>3 DEF MarketInv, TemplatesInv, TemplatesTyped, MK!TemplateApplied
  <2>5. CopiesCounted'
    BY <1>4, <2>2, CopiesSame, Zenon
  <2>6. TemplateKnows(new)'
    <3>1. \A i \in DOMAIN Template.pages : i < new.at => i < c.at \/ i = c.at
      BY <1>1, <2>2, TemplateRanges
    <3>2. \A i \in DOMAIN Template.pages : Template.pages[i].slug \in MK!Slugs
      BY TemplateRanges
    <3>3. applied' = "no" => \A i \in DOMAIN Template.pages :
            i < new.at => slug'[Template.pages[i].slug] # "none"
      BY <1>1, <1>2, <1>4, <2>3, <3>1, <3>2 DEF TemplateKnows
    <3>4. solo' => new.kept = style'
      BY <1>1, <1>4, <2>2 DEF TemplateKnows
    <3> QED BY <2>2, <3>3, <3>4 DEF TemplateKnows
  <2> QED BY <1>1, <1>4, <2>2, <2>3, <2>4, <2>5, <2>6, TemplateJoins, Zenon
<1> QED BY <1>0, <1>2, <1>5, <1>6 DEF MK!CreatePage

LEMMA TemplateStyles == ASSUME MarketInv, NEW q \in Requests, MK!Is(q, "pages"), MK!ApplyTheme(q),
        UNCHANGED <<listing, released, solo>>, UNCHANGED installation
  PROVE MarketInv' /\ (solo /\ style.logo = "own" => style'.logo = "own")
<1>0. PICK c : c = installing[q]
  OBVIOUS
<1>1. /\ c \in Applies /\ installing[q] # MK!Idle /\ c.op = "pages"
      /\ TemplateKnows(c) /\ c.at \in Nat \ {0} /\ c.kept \in Styles
  BY <1>0, Applying
<1>2. /\ c.at > Len(Template.pages) /\ UNCHANGED <<slug, navigation, copies, applied>>
      /\ MK!Go(q, MK!Progress("navigation", 1, MK!NoTheme))
  BY <1>0 DEF MK!ApplyTheme
<1>3. style \in Styles /\ (~style.there => style = MK!NoTheme) /\ MK!NoTheme \in Styles
  BY DEF MarketInv, TemplatesInv, TemplatesTyped, MK!NoTheme, Styles, MK!Writers
<1>4. \A x, y \in MK!Writers : MK!Or(x, y) \in MK!Writers /\ (y = "own" => MK!Or(MK!Or(y, x), y) = "own")
  BY DEF MK!Or, MK!Writers
<1>5. \A x : MK!Given(x) \in MK!Writers
  BY DEF MK!Given, MK!Writers
<1>6. \A kept \in Styles :
         /\ MK!Merged(kept) \in Styles /\ MK!Merged(kept).there = TRUE
         /\ kept.there => MK!Merged(kept).logo = MK!Or(kept.logo, MK!Given(Template.logo))
  <2> SUFFICES ASSUME NEW kept \in Styles
               PROVE /\ MK!Merged(kept) \in Styles /\ MK!Merged(kept).there = TRUE
                     /\ kept.there => MK!Merged(kept).logo = MK!Or(kept.logo, MK!Given(Template.logo))
    BY Zenon
  <2>0. kept.color \in MK!Writers /\ kept.logo \in MK!Writers
    BY DEF Styles
  <2>1. CASE ~kept.there
    BY <1>5, <2>1 DEF MK!Merged, Styles
  <2>2. CASE kept.there
    <3>1. MK!Or(MK!Given(Template.color), kept.color) \in MK!Writers
          /\ MK!Or(kept.logo, MK!Given(Template.logo)) \in MK!Writers
      BY <1>4, <1>5, <2>0
    <3> QED BY <2>2, <3>1 DEF MK!Merged, Styles
  <2> QED BY <2>1, <2>2, Zenon
<1>7. PICK new : new = MK!Merged(c.kept)
  OBVIOUS
<1>8. \/ style' = style
      \/ ~style.there /\ style' = MK!Merged(MK!NoTheme)
      \/ style.there /\ style' = [there |-> TRUE, color |-> MK!Or(new.color, style.color),
                                  logo |-> MK!Or(new.logo, style.logo)]
  BY <1>0, <1>7 DEF MK!ApplyTheme
<1>9. new \in Styles /\ new.color \in MK!Writers /\ new.logo \in MK!Writers
      /\ style.color \in MK!Writers /\ style.logo \in MK!Writers
  BY <1>1, <1>3, <1>6, <1>7 DEF Styles
<1>10. style' \in Styles /\ (~style'.there => style' = MK!NoTheme)
  <2>1. CASE style' = style
    BY <1>3, <2>1
  <2>2. CASE style' = MK!Merged(MK!NoTheme)
    BY <1>3, <1>6, <2>2
  <2>3. CASE style' = [there |-> TRUE, color |-> MK!Or(new.color, style.color),
                       logo |-> MK!Or(new.logo, style.logo)]
    <3>1. MK!Or(new.color, style.color) \in MK!Writers /\ MK!Or(new.logo, style.logo) \in MK!Writers
      BY <1>4, <1>9
    <3> QED BY <2>3, <3>1 DEF Styles
  <2> QED BY <1>8, <2>1, <2>2, <2>3
<1>11. solo /\ style.logo = "own" => style'.logo = "own"
  <2> SUFFICES ASSUME solo, style.logo = "own" PROVE style'.logo = "own"
    OBVIOUS
  <2>1. c.kept = style
    BY <1>1 DEF TemplateKnows
  <2>2. style.there
    BY <1>3 DEF MK!NoTheme
  <2>3. new.logo = MK!Or("own", MK!Given(Template.logo))
    BY <1>1, <1>6, <1>7, <2>1, <2>2
  <2>4. MK!Or(new.logo, style.logo) = "own"
    BY <2>3 DEF MK!Or
  <2> QED BY <1>8, <2>2, <2>4
<1>12. PICK went : went = [op |-> "navigation", at |-> 1, kept |-> MK!NoTheme]
  BY Zenon
<1>13. /\ went \in Applies /\ went.op = "navigation"
       /\ installing' = [installing EXCEPT ![q] = went]
  BY <1>2, <1>3, <1>12 DEF MK!Go, MK!Progress, Applies
<1>14. TemplatesTyped' /\ MK!TemplateApplied'
  BY <1>2, <1>10 DEF MarketInv, TemplatesInv, TemplatesTyped, MK!TemplateApplied
<1>15. CopiesCounted'
  BY <1>2, <1>13, CopiesSame, Zenon
<1>16. TemplateKnows(went)'
  <2>1. \A i \in DOMAIN Template.pages : i < c.at
    BY <1>1, <1>2, TemplateRanges
  <2>2. applied = "no" => \A s \in MK!Slugs : slug[s] # "none"
    BY <1>1, <2>1, TemplateRanges DEF TemplateKnows
  <2> QED BY <1>2, <1>13, <2>2 DEF TemplateKnows
<1>17. MarketInv'
  BY <1>1, <1>2, <1>13, <1>14, <1>15, <1>16, TemplateJoins, Zenon
<1> QED BY <1>11, <1>17

LEMMA TemplateNavigates == ASSUME MarketInv, NEW q \in Requests, MK!Is(q, "navigation"),
        MK!ApplyNavigation(q), UNCHANGED <<listing, released, solo>>, UNCHANGED installation
  PROVE MarketInv'
<1>0. PICK c : c = installing[q]
  OBVIOUS
<1>1. /\ c \in Applies /\ installing[q] # MK!Idle /\ c.op = "navigation" /\ TemplateKnows(c)
  BY <1>0, Applying
<1>2. PICK new : new = [op |-> "media", at |-> 1, kept |-> MK!NoTheme]
  BY Zenon
<1>3. /\ new \in Applies /\ new.op = "media" /\ new.at = 1
      /\ installing' = [installing EXCEPT ![q] = new]
      /\ navigation' = IF Template.navigation THEN "template" ELSE navigation
      /\ UNCHANGED <<slug, style, copies, applied>>
  <2>1. MK!NoTheme \in Styles
    BY DEF MK!NoTheme, Styles, MK!Writers
  <2> QED BY <1>2, <2>1 DEF Applies, MK!ApplyNavigation, MK!Go, MK!Progress
<1>4. TemplatesTyped' /\ MK!TemplateApplied'
  BY <1>3 DEF MarketInv, TemplatesInv, TemplatesTyped, MK!Writers, MK!TemplateApplied
<1>5. CopiesCounted'
  BY <1>3, CopiesSame, Zenon
<1>6. TemplateKnows(new)'
  BY <1>1, <1>3, TemplateRanges DEF TemplateKnows
<1> QED BY <1>1, <1>3, <1>4, <1>5, <1>6, TemplateJoins, Zenon

LEMMA TemplateLooks == ASSUME MarketInv, NEW q \in Requests, MK!Is(q, "media"),
        MK!FindAsset(q), UNCHANGED <<listing, released, solo>>, UNCHANGED installation
  PROVE MarketInv'
<1>0. PICK c : c = installing[q]
  OBVIOUS
<1>1. /\ c \in Applies /\ installing[q] # MK!Idle /\ c.op = "media" /\ TemplateKnows(c)
      /\ c.at \in Nat \ {0}
  BY <1>0, Applying
<1>2. UNCHANGED <<slug, style, navigation, copies>> /\ MK!NoTheme \in Styles
  BY DEF MK!FindAsset, MK!NoTheme, Styles, MK!Writers
<1>3. CASE /\ c.at > Len(Template.media) /\ MK!End(q)
           /\ applied' = IF applied = "no" THEN "yes" ELSE applied
  <2>1. \A i \in DOMAIN Template.media : i < c.at
    BY <1>1, <1>3, TemplateRanges
  <2>2. applied = "no" => \A h \in MK!Hashes : copies[h] > 0
    BY <1>1, <2>1, TemplateRanges DEF TemplateKnows
  <2>3. applied = "no" => \A s \in MK!Slugs : slug[s] # "none"
    BY <1>1 DEF TemplateKnows
  <2>4. Template.navigation => navigation # "none"
    BY <1>1 DEF TemplateKnows
  <2>5. TemplatesTyped' /\ MK!TemplateApplied'
    BY <1>2, <1>3, <2>2, <2>3, <2>4 DEF MarketInv, TemplatesInv, TemplatesTyped, MK!TemplateApplied
  <2>6. installing' = [installing EXCEPT ![q] = MK!Idle]
    BY <1>3 DEF MK!End
  <2>7. CopiesCounted'
    BY <1>2, <2>6, CopiesSame, IdleNoCopy, Zenon
  <2>8. applied' # "no"
    BY <1>3
  <2> QED BY <1>1, <1>2, <2>5, <2>6, <2>7, <2>8, TemplateJoins, Zenon
<1>4. CASE /\ c.at <= Len(Template.media) /\ copies[Template.media[c.at]] > 0 /\ UNCHANGED applied
           /\ MK!Go(q, MK!Progress("media", c.at + 1, MK!NoTheme))
  <2>1. PICK new : new = [op |-> "media", at |-> c.at + 1, kept |-> MK!NoTheme]
    BY Zenon
  <2>2. /\ new \in Applies /\ new.op = "media" /\ new.at = c.at + 1
        /\ installing' = [installing EXCEPT ![q] = new]
    BY <1>1, <1>2, <1>4, <2>1 DEF Applies, MK!Go, MK!Progress
  <2>3. TemplateKnows(new)
    <3>1. \A i \in DOMAIN Template.media : i < new.at => i < c.at \/ i = c.at
      BY <1>1, <2>2, TemplateRanges
    <3> QED BY <1>1, <1>4, <2>2, <3>1 DEF TemplateKnows
  <2> QED BY <1>1, <1>2, <1>4, <2>2, <2>3, TemplateWaits, Zenon DEF TemplateRows
<1>5. CASE /\ c.at <= Len(Template.media) /\ ~(copies[Template.media[c.at]] > 0) /\ UNCHANGED applied
           /\ MK!Go(q, MK!Progress("copy", c.at, MK!NoTheme))
  <2>1. PICK new : new = [op |-> "copy", at |-> c.at, kept |-> MK!NoTheme]
    BY Zenon
  <2>2. /\ new \in Applies /\ new.op = "copy" /\ new.at = c.at
        /\ installing' = [installing EXCEPT ![q] = new]
    BY <1>1, <1>2, <1>5, <2>1 DEF Applies, MK!Go, MK!Progress
  <2>3. c.at \in DOMAIN Template.media /\ copies[Template.media[c.at]] = 0
    <3>1. c.at \in DOMAIN Template.media
      BY <1>1, <1>5, TemplateRanges
    <3>2. copies[Template.media[c.at]] \in Nat
      BY <3>1, TemplateRanges DEF MarketInv, TemplatesInv, TemplatesTyped
    <3> QED BY <1>5, <3>1, <3>2
  <2>4. TemplateKnows(new)
    BY <1>1, <2>2, <2>3 DEF TemplateKnows
  <2> QED BY <1>1, <1>2, <1>5, <2>2, <2>3, <2>4, TemplateWaits, Zenon DEF TemplateRows
<1>6. c.at > Len(Template.media) \/ c.at <= Len(Template.media)
  BY <1>1, TemplateRanges
<1> QED BY <1>0, <1>3, <1>4, <1>5, <1>6 DEF MK!FindAsset

LEMMA TemplateCopies == ASSUME MarketInv, NEW q \in Requests, MK!Is(q, "copy"),
        MK!CopyAsset(q), UNCHANGED <<listing, released, solo>>, UNCHANGED installation
  PROVE MarketInv'
<1>0. PICK c : c = installing[q]
  OBVIOUS
<1>1. /\ c \in Applies /\ installing[q] # MK!Idle /\ c.op = "copy" /\ TemplateKnows(c)
      /\ c.at \in Nat \ {0}
  BY <1>0, Applying
<1>2. PICK h : h = Template.media[c.at]
  OBVIOUS
<1>3. c.at \in DOMAIN Template.media /\ h \in MK!Hashes
  BY <1>1, <1>2, TemplateRanges DEF TemplateKnows
<1>4. PICK new : new = [op |-> "media", at |-> c.at + 1, kept |-> MK!NoTheme]
  BY Zenon
<1>5. /\ new \in Applies /\ new.op = "media" /\ new.at = c.at + 1
      /\ installing' = [installing EXCEPT ![q] = new]
      /\ copies' = [copies EXCEPT ![h] = @ + 1]
      /\ UNCHANGED <<slug, style, navigation, applied>>
  <2>1. MK!NoTheme \in Styles
    BY DEF MK!NoTheme, Styles, MK!Writers
  <2> QED BY <1>0, <1>1, <1>2, <1>4, <2>1 DEF Applies, MK!CopyAsset, MK!Go, MK!Progress
<1>6. /\ copies \in [MK!Hashes -> Nat] /\ copies' \in [MK!Hashes -> Nat]
      /\ \A g \in MK!Hashes : copies'[g] = IF g = h THEN copies[h] + 1 ELSE copies[g]
  BY <1>3, <1>5 DEF MarketInv, TemplatesInv, TemplatesTyped
<1>7. TemplatesTyped'
  BY <1>5, <1>6 DEF MarketInv, TemplatesInv, TemplatesTyped
<1>8. \A g \in MK!Hashes : copies[g] > 0 => copies'[g] > 0
  BY <1>6
<1>9. solo => copies[h] = 0
  BY <1>1, <1>2 DEF TemplateKnows
<1>10. MK!TemplateApplied'
  BY <1>5, <1>6, <1>8, <1>9 DEF MarketInv, TemplatesInv, MK!TemplateApplied
<1>11. CopiesCounted'
  <2> SUFFICES ASSUME NEW g \in MK!Hashes
               PROVE copies'[g] + Cardinality(Copying(g)') <= Cardinality(Requests)
    BY DEF CopiesCounted
  <2>1. \A r \in Requests : installing'[r] = IF r = q THEN new ELSE installing[r]
    BY <1>5 DEF MarketInv, InstallingTyped
  <2>2. copies[g] \in Nat /\ copies[g] + Cardinality(Copying(g)) <= Cardinality(Requests)
    BY <1>6 DEF MarketInv, TemplatesInv, CopiesCounted
  <2>3. CASE g = h
    <3>1. Copying(g)' = Copying(g) \ {q} /\ q \in Copying(g)
      BY <1>0, <1>1, <1>2, <1>5, <2>1, <2>3 DEF Copying
    <3>2. Cardinality(Copying(g)') = Cardinality(Copying(g)) - 1
      BY <3>1, CopyingFinite, FS_RemoveElement, Zenon
    <3> QED BY <1>6, <2>2, <2>3, <3>2, CopyingFinite
  <2>4. CASE g # h
    <3>1. Copying(g)' \subseteq Copying(g)
      BY <1>5, <2>1 DEF Copying
    <3>2. Cardinality(Copying(g)') <= Cardinality(Copying(g)) /\ Cardinality(Copying(g)') \in Nat
      BY <3>1, CopyingFinite, FS_Subset, FS_CardinalityType
    <3> QED BY <1>6, <2>2, <2>4, <3>2, CopyingFinite
  <2> QED BY <2>3, <2>4
<1>12. TemplateKnows(new)'
  <2>1. \A i \in DOMAIN Template.media : i < new.at => i < c.at \/ i = c.at
    BY <1>1, <1>5, TemplateRanges
  <2>2. \A i \in DOMAIN Template.media : Template.media[i] \in MK!Hashes
    BY TemplateRanges
  <2>3. copies'[h] > 0
    BY <1>3, <1>6
  <2>4. applied' = "no" =>
          \A i \in DOMAIN Template.media : i < new.at => copies'[Template.media[i]] > 0
    BY <1>1, <1>2, <1>5, <1>8, <2>1, <2>2, <2>3 DEF TemplateKnows
  <2> QED BY <1>1, <1>5, <2>4 DEF TemplateKnows
<1> QED BY <1>1, <1>5, <1>7, <1>8, <1>10, <1>11, <1>12, TemplateJoins, Zenon

LEMMA PluginStep == ASSUME MarketInv, MK!PluginNext PROVE MarketInv' /\ UNCHANGED style
<1>1. UNCHANGED <<slug, style, navigation, copies, applied, solo>>
  BY DEF MK!PluginNext, MK!templateVars
<1>2. UNCHANGED TemplateRows /\ UNCHANGED solo
  BY <1>1 DEF TemplateRows
<1>3. CASE \/ \E published \in BOOLEAN : MK!CreateListing(published)
           \/ \E v \in 1..MaxListings : \E published \in BOOLEAN : MK!UpdateListing(v, published)
           \/ MK!RecordDownload
  BY <1>1, <1>3, ListingSteps
<1>4. CASE \/ MK!DeleteListing
           \/ \E t \in Tenants : MK!UpdatePluginConfig(t) \/ MK!UninstallPlugin(t)
           \/ \E t \in Tenants : \E active \in BOOLEAN : MK!TogglePlugin(t, active)
  BY <1>1, <1>4, InstallationSteps
<1>5. CASE \/ \E q \in Requests : \E t \in Tenants : MK!ReadPublished(q, t)
           \/ \E q \in Requests : MK!Is(q, "install") /\ MK!InstallPlugin(q)
  BY <1>1, <1>2, <1>5, PluginCalls
<1> QED BY <1>1, <1>3, <1>4, <1>5 DEF MK!PluginNext

LEMMA TemplateStep == ASSUME MarketInv, MK!TemplateNext
  PROVE /\ MarketInv'
        /\ solo /\ style.logo = "own" /\ (\E q \in Requests : installing[q] # MK!Idle)
             => style'.logo = "own"
<1>1. UNCHANGED <<listing, released, solo>> /\ UNCHANGED installation
  BY DEF MK!TemplateNext, MK!pluginVars
<1>2. CASE /\ \/ \E s \in MK!Slugs : MK!SeedPage(s)
              \/ MK!EditTheme \/ MK!EditNavigation
              \/ \E h \in MK!Hashes : MK!DeleteAsset(h)
           /\ \A q \in Requests : solo => installing[q] = MK!Idle
           /\ UNCHANGED installing
  BY <1>1, <1>2, TenantEdits
<1>3. ASSUME NEW q \in Requests, MK!UseTemplate(q) PROVE MarketInv' /\ UNCHANGED style
  BY <1>1, <1>3, TemplateBegins DEF MK!UseTemplate, MK!templateVars
<1>4. ASSUME NEW q \in Requests, MK!Is(q, "pages"), MK!FindPage(q) PROVE MarketInv' /\ UNCHANGED style
  BY <1>1, <1>4, TemplateFinds DEF MK!FindPage, MK!templateVars
<1>5. ASSUME NEW q \in Requests, MK!Is(q, "page"), MK!CreatePage(q) PROVE MarketInv' /\ UNCHANGED style
  BY <1>1, <1>5, TemplateCreates DEF MK!CreatePage
<1>6. ASSUME NEW q \in Requests, MK!Is(q, "navigation"), MK!ApplyNavigation(q)
      PROVE MarketInv' /\ UNCHANGED style
  BY <1>1, <1>6, TemplateNavigates DEF MK!ApplyNavigation
<1>7. ASSUME NEW q \in Requests, MK!Is(q, "media"), MK!FindAsset(q) PROVE MarketInv' /\ UNCHANGED style
  BY <1>1, <1>7, TemplateLooks DEF MK!FindAsset
<1>8. ASSUME NEW q \in Requests, MK!Is(q, "copy"), MK!CopyAsset(q) PROVE MarketInv' /\ UNCHANGED style
  BY <1>1, <1>8, TemplateCopies, Zenon DEF MK!CopyAsset
<1>9. ASSUME NEW q \in Requests, MK!Is(q, "pages"), MK!ApplyTheme(q)
      PROVE MarketInv' /\ (solo /\ style.logo = "own" => style'.logo = "own")
  BY <1>1, <1>9, TemplateStyles
<1> QED BY <1>2, <1>3, <1>4, <1>5, <1>6, <1>7, <1>8, <1>9 DEF MK!TemplateNext

LEMMA MarketSame == ASSUME MarketInv, UNCHANGED <<mkVars, solo>> PROVE MarketInv'
<1> USE DEF mkVars
<1>1. InstallingTyped' /\ PluginsTyped' /\ PluginsPublished'
  BY DEF MarketInv, InstallingTyped, PluginsTyped, PluginsPublished, MK!Is
<1>2. TemplatesTyped' /\ CopiesCounted' /\ MK!TemplateApplied'
  BY DEF MarketInv, TemplatesInv, TemplatesTyped, CopiesCounted, Copying, MK!TemplateApplied
<1>3. \A c : TemplateKnows(c) => TemplateKnows(c)'
  BY DEF TemplateKnows
<1> QED BY <1>1, <1>2, <1>3 DEF MarketInv, TemplatesInv

-----------------------------------------------------------------------------
(* Folders, library and shares *)

FolderRows == [there : BOOLEAN, named : BOOLEAN, parent : Folders \cup {AS!Root}]
Vendors == [there : BOOLEAN, isDefault : BOOLEAN]
ShareRows == [active : BOOLEAN, downloads : Nat, expired : BOOLEAN]
Filings ==
    [op : {"resolve"}, id : Folders, file : Files] \cup [op : {"delete"}, id : Folders]
    \cup [op : {"provider"}, id : Providers] \cup [op : {"count"}, read : Nat]
    \cup [op : {"close"}]

\* What a request relies on while no other overlaps it.
FilingKnows(c) ==
    /\ c.op = "resolve" => \A f \in Folders : ~(folder[f].there /\ folder[f].named)
    /\ c.op = "provider" => \A p \in Providers : ~vendor[p].isDefault
    /\ c.op = "count" => (MaxDownloads > 0 => share.downloads < MaxDownloads)
FilingOK ==
    /\ DOMAIN filing = Requests
    /\ \A q \in Requests : filing[q] = AS!Idle \/ filing[q] \in Filings
    /\ solo =>
         /\ \A q, r \in Requests : q # r => filing[q] = AS!Idle \/ filing[r] = AS!Idle
         /\ \A q \in Requests : FilingKnows(filing[q])

FoldersOK ==
    /\ folder \in [Folders -> FolderRows] /\ place \in [Files -> Folders \cup {AS!Root}]
    /\ \A f \in Folders : ~folder[f].there => folder[f] = AS!NoFolder
    /\ \A file \in Files : place[file] # AS!Root => folder[place[file]].there
    /\ \A f \in Folders : folder[f].parent # AS!Root => folder[folder[f].parent].there
    /\ solo => \A f, g \in Folders :
         folder[f].there /\ folder[f].named /\ folder[g].there /\ folder[g].named => f = g
LibraryOK ==
    /\ collection \in [Collections -> [there : BOOLEAN, items : SUBSET Files]]
    /\ vendor \in [Providers -> Vendors]
    /\ solo => \A p, r \in Providers : vendor[p].isDefault /\ vendor[r].isDefault => p = r
\* Every download counted was served or is about to be.
Closing == {q \in Requests : filing[q].op = "close"}
ShareOK ==
    /\ share \in ShareRows /\ served \in Nat
    /\ served + Cardinality(Closing) = share.downloads
    /\ solo /\ MaxDownloads > 0 => share.downloads <= MaxDownloads
AssetInv == solo \in BOOLEAN /\ FilingOK /\ FoldersOK /\ LibraryOK /\ ShareOK

LEMMA LeastAlone == ASSUME NEW S, \A x, y \in S : x = y
  PROVE Cardinality(S) <= 1
<1>1. CASE S = {}
  BY <1>1, FS_EmptySet
<1>2. CASE S # {}
  <2>1. PICK x : S = {x}
    BY <1>2
  <2> QED BY <2>1, FS_Singleton
<1> QED BY <1>1, <1>2

LEMMA ClosingFinite == IsFiniteSet(Closing) /\ Cardinality(Closing) \in Nat
<1>1. Closing \subseteq Requests
  BY DEF Closing
<1> QED BY <1>1, AssetsAssumption, FS_Subset, FS_CardinalityType

LEMMA AssetHolds == ASSUME AssetInv PROVE AS!TypeOK /\ AS!LibraryConsistent
<1>1. AS!TypeOK
  <2>1. \A q \in Requests :
          filing[q].op \in {"idle", "resolve", "delete", "provider", "count", "close"}
    BY DEF AssetInv, FilingOK, Filings, AS!Idle
  <2>2. share.active \in BOOLEAN /\ share.downloads \in Nat /\ served \in 0..share.downloads
    <3>1. /\ share.active \in BOOLEAN /\ share.downloads \in Nat /\ served \in Nat
          /\ served + Cardinality(Closing) = share.downloads
      BY DEF AssetInv, ShareOK, ShareRows
    <3> QED BY <3>1, ClosingFinite
  <2> QED BY <2>1, <2>2 DEF AssetInv, FoldersOK, LibraryOK, FolderRows, Vendors, AS!TypeOK
<1>2. AS!LibraryConsistent
  <2>1. ASSUME solo PROVE AS!Cardinality({f \in Folders : folder[f].there /\ folder[f].named}) <= 1
    <3>1. Cardinality({f \in Folders : folder[f].there /\ folder[f].named}) <= 1
      BY <2>1, LeastAlone DEF AssetInv, FoldersOK
    <3> QED BY <3>1 DEF AS!Cardinality, Cardinality
  <2>2. ASSUME solo PROVE AS!Cardinality({p \in Providers : vendor[p].isDefault}) <= 1
    <3>1. Cardinality({p \in Providers : vendor[p].isDefault}) <= 1
      BY <2>2, LeastAlone DEF AssetInv, LibraryOK
    <3> QED BY <3>1 DEF AS!Cardinality, Cardinality
  <2>3. ASSUME solo, MaxDownloads > 0 PROVE served <= MaxDownloads
    <3>1. /\ share.downloads \in Nat /\ served \in Nat /\ share.downloads <= MaxDownloads
          /\ served + Cardinality(Closing) = share.downloads
      BY <2>3 DEF AssetInv, ShareOK, ShareRows
    <3> QED BY <3>1, ClosingFinite, AssetsAssumption
  <2> QED BY <2>1, <2>2, <2>3 DEF AssetInv, FoldersOK, AS!LibraryConsistent
<1> QED BY <1>1, <1>2

LEMMA AssetStart == ASSUME AS!Init PROVE AssetInv
<1>1. FilingOK
  BY DEF AS!Init, FilingOK, FilingKnows, AS!Idle
<1>2. FoldersOK
  BY DEF AS!Init, FoldersOK, AS!NoFolder, FolderRows, AS!Root
<1>3. LibraryOK
  BY DEF AS!Init, LibraryOK, AS!NoCollection, AS!NoProvider, Vendors
<1>4. ShareOK
  <2>1. Closing = {}
    BY DEF AS!Init, Closing, AS!Idle
  <2>2. Cardinality(Closing) = 0
    BY <2>1, FS_EmptySet
  <2> QED BY <2>2, AssetsAssumption DEF AS!Init, ShareOK, ShareRows, AS!NoShare
<1> QED BY <1>1, <1>2, <1>3, <1>4 DEF AssetInv, AS!Init

-----------------------------------------------------------------------------
\* One request moves on.
FilingGoes(q, new) ==
    /\ new \in Filings \/ new = AS!Idle
    /\ filing' = [filing EXCEPT ![q] = new] /\ UNCHANGED solo
    /\ AS!Free(q) \/ filing[q] # AS!Idle
LEMMA FilingMoves == ASSUME AssetInv, NEW q \in Requests, NEW new, FilingGoes(q, new),
        solo => FilingKnows(new)'
  PROVE /\ FilingOK'
        /\ \A r \in Requests : filing'[r] = IF r = q THEN new ELSE filing[r]
        /\ solo => \A r \in Requests : r # q => filing[r] = AS!Idle
<1> USE DEF FilingGoes
<1>1. /\ \A r \in Requests : filing'[r] = IF r = q THEN new ELSE filing[r]
      /\ DOMAIN filing' = Requests
  BY DEF AssetInv, FilingOK
<1>2. solo => \A r \in Requests : r # q => filing[r] = AS!Idle
  BY DEF AssetInv, FilingOK, AS!Free
<1>3. solo => \A r \in Requests : FilingKnows(filing[r])'
  <2>1. FilingKnows(AS!Idle)'
    BY DEF FilingKnows, AS!Idle
  <2> QED BY <1>1, <1>2, <2>1 DEF FilingKnows
<1> QED BY <1>1, <1>2, <1>3 DEF AssetInv, FilingOK

LEMMA FilingStays == ASSUME AssetInv, UNCHANGED <<filing, solo>>,
        solo => \A c : FilingKnows(c) => FilingKnows(c)'
  PROVE FilingOK'
<1>1. solo => \A q \in Requests : FilingKnows(filing[q])'
  BY DEF AssetInv, FilingOK, FilingKnows
<1> QED BY <1>1 DEF AssetInv, FilingOK

LEMMA ClosingSame == ASSUME NEW q \in Requests, NEW new,
        \A r \in Requests : filing'[r] = IF r = q THEN new ELSE filing[r],
        new.op # "close", filing[q].op # "close"
  PROVE Closing' = Closing
  BY DEF Closing

LEMMA ShareStays == ASSUME AssetInv, UNCHANGED <<share, served, solo>>, Closing' = Closing
  PROVE ShareOK'
  BY DEF AssetInv, ShareOK
LEMMA LibraryStays == ASSUME AssetInv, UNCHANGED <<collection, vendor, solo>> PROVE LibraryOK'
  BY DEF AssetInv, LibraryOK
LEMMA FoldersStay == ASSUME AssetInv, UNCHANGED <<folder, place, solo>> PROVE FoldersOK'
  BY DEF AssetInv, FoldersOK

LEMMA FilingAt == ASSUME AssetInv, NEW q \in Requests,
        NEW op \in {"resolve", "delete", "provider", "count", "close"}, AS!Is(q, op)
  PROVE /\ filing[q] # AS!Idle /\ filing[q] \in Filings /\ filing[q].op = op
        /\ op = "resolve" => filing[q].id \in Folders /\ filing[q].file \in Files
        /\ op = "delete" => filing[q].id \in Folders
        /\ op = "provider" => filing[q].id \in Providers
        /\ solo => FilingKnows(filing[q])
<1>1. filing[q] # AS!Idle /\ filing[q].op = op
  BY DEF AS!Is, AS!Idle
<1>2. filing[q] \in Filings
  BY <1>1 DEF AssetInv, FilingOK
<1> QED BY <1>1, <1>2 DEF AssetInv, FilingOK, Filings

LEMMA IdleFiling == AS!Idle.op = "idle"
  BY DEF AS!Idle

-----------------------------------------------------------------------------
\* A folder is written, in the root or in a folder that exists.
LEMMA FolderWritten == ASSUME AssetInv, UNCHANGED solo,
        NEW f \in Folders, NEW new \in FolderRows,
        folder' = [folder EXCEPT ![f] = new], new.there,
        new.parent # AS!Root => new.parent = f \/ folder[new.parent].there,
        place' \in [Files -> Folders \cup {AS!Root}],
        \A file \in Files : place'[file] \in {place[file], f},
        solo /\ new.named => \/ folder[f].there /\ folder[f].named
                             \/ \A g \in Folders : ~(folder[g].there /\ folder[g].named)
  PROVE FoldersOK'
<1>1. /\ \A g \in Folders : folder'[g] = IF g = f THEN new ELSE folder[g]
      /\ folder' \in [Folders -> FolderRows]
  BY DEF AssetInv, FoldersOK
<1>2. \A g \in Folders : folder[g].there => folder'[g].there
  BY <1>1
<1>3. \A g \in Folders : folder[g].parent \in Folders \cup {AS!Root}
  BY DEF AssetInv, FoldersOK, FolderRows
<1>4. \A file \in Files : place'[file] # AS!Root => folder'[place'[file]].there
  BY <1>1, <1>2 DEF AssetInv, FoldersOK
<1>5. ASSUME NEW g \in Folders, folder'[g].parent # AS!Root PROVE folder'[folder'[g].parent].there
  <2>1. CASE g = f
    <3>1. new.parent \in Folders
      BY <1>1, <1>5, <2>1 DEF FolderRows
    <3> QED BY <1>1, <1>2, <1>5, <2>1, <3>1
  <2>2. CASE g # f
    BY <1>1, <1>2, <1>3, <1>5, <2>2 DEF AssetInv, FoldersOK
  <2> QED BY <2>1, <2>2
<1>6. solo => \A g, h \in Folders :
        folder'[g].there /\ folder'[g].named /\ folder'[h].there /\ folder'[h].named => g = h
  BY <1>1 DEF AssetInv, FoldersOK
<1>7. \A g \in Folders : ~folder'[g].there => folder'[g] = AS!NoFolder
  BY <1>1 DEF AssetInv, FoldersOK
<1> QED BY <1>1, <1>4, <1>5, <1>6, <1>7 DEF FoldersOK

FolderFrame == UNCHANGED <<collection, vendor, share, served, solo>>

LEMMA FolderResolves == ASSUME AssetInv, FolderFrame, NEW q \in Requests, NEW f \in Folders,
        AS!ResolveFolder(q, f)
  PROVE AssetInv'
<1> USE DEF FolderFrame
<1>1. PICK file \in Files :
        LET found == {g \in Folders : folder[g].there /\ folder[g].named}
        IN  IF found # {}
            THEN /\ \E g \in found : place' = [place EXCEPT ![file] = g]
                 /\ UNCHANGED filing
            ELSE /\ ~folder[f].there
                 /\ AS!Begin(q, [op |-> "resolve", id |-> f, file |-> file])
                 /\ UNCHANGED place
  BY Zenon DEF AS!ResolveFolder
<1>2. UNCHANGED folder
  BY DEF AS!ResolveFolder
<1>3. LibraryOK'
  BY LibraryStays
<1>4. CASE \E g \in Folders : folder[g].there /\ folder[g].named
                              /\ place' = [place EXCEPT ![file] = g] /\ UNCHANGED filing
  <2>1. FilingOK'
    BY <1>2, <1>4, FilingStays DEF FilingKnows
  <2>2. FoldersOK'
    BY <1>2, <1>4 DEF AssetInv, FoldersOK
  <2>3. ShareOK'
    BY <1>4, ShareStays DEF Closing
  <2> QED BY <1>3, <2>1, <2>2, <2>3 DEF AssetInv
<1>5. CASE /\ \A g \in Folders : ~(folder[g].there /\ folder[g].named)
           /\ AS!Begin(q, [op |-> "resolve", id |-> f, file |-> file])
           /\ UNCHANGED place
  <2>1. PICK new : new = [op |-> "resolve", id |-> f, file |-> file]
    BY Zenon
  <2>2. /\ new \in Filings /\ new.op = "resolve"
        /\ AS!Free(q) /\ filing' = [filing EXCEPT ![q] = new]
    BY <1>5, <2>1 DEF AS!Begin, Filings
  <2>3. FilingKnows(new)'
    BY <1>2, <1>5, <2>2 DEF FilingKnows
  <2>4. FilingOK' /\ \A r \in Requests : filing'[r] = IF r = q THEN new ELSE filing[r]
    <3>1. FilingGoes(q, new)
      BY <2>2, <2>3 DEF FilingGoes
    <3> QED BY <3>1, <2>2, <2>3, FilingMoves
  <2>5. FoldersOK'
    BY <1>2, <1>5, FoldersStay
  <2>6. ShareOK'
    BY <2>2, <2>4, ShareStays, ClosingSame, IdleFiling DEF AS!Free
  <2> QED BY <1>3, <2>4, <2>5, <2>6 DEF AssetInv
<1> QED BY <1>1, <1>4, <1>5

LEMMA FolderNamed == ASSUME AssetInv, FolderFrame, NEW q \in Requests,
        AS!Is(q, "resolve"), AS!CreateNamed(q)
  PROVE AssetInv'
<1> USE DEF FolderFrame
<1>1. /\ filing[q] # AS!Idle /\ filing[q].op = "resolve"
      /\ filing[q].id \in Folders /\ filing[q].file \in Files
      /\ solo => FilingKnows(filing[q])
  BY FilingAt
<1>2. PICK f \in Folders : f = filing[q].id
  BY <1>1
<1>3. PICK new : new = [there |-> TRUE, named |-> TRUE, parent |-> AS!Root]
  BY Zenon
<1>4. /\ folder' = [folder EXCEPT ![f] = new]
      /\ place' = [place EXCEPT ![filing[q].file] = f]
      /\ filing' = [filing EXCEPT ![q] = AS!Idle]
  BY <1>2, <1>3 DEF AS!CreateNamed, AS!End
<1>5. FilingOK' /\ \A r \in Requests : filing'[r] = IF r = q THEN AS!Idle ELSE filing[r]
  <2>1. FilingKnows(AS!Idle)'
    BY DEF FilingKnows, AS!Idle
  <2>2. FilingGoes(q, AS!Idle)
    BY <1>1, <1>4 DEF FilingGoes
  <2> QED BY <2>2, <2>1, FilingMoves
<1>6. FoldersOK'
  <2>1. new \in FolderRows /\ new.there /\ new.parent = AS!Root
    BY <1>3 DEF FolderRows
  <2>2. place' \in [Files -> Folders \cup {AS!Root}]
        /\ \A file \in Files : place'[file] \in {place[file], f}
    BY <1>1, <1>4 DEF AssetInv, FoldersOK
  <2>3. solo => \A g \in Folders : ~(folder[g].there /\ folder[g].named)
    BY <1>1 DEF FilingKnows
  <2> QED BY <1>4, <2>1, <2>2, <2>3, FolderWritten, Zenon
<1>7. ShareOK'
  BY <1>1, <1>5, ShareStays, ClosingSame, IdleFiling
<1> QED BY <1>5, <1>6, <1>7, LibraryStays DEF AssetInv

LEMMA FolderEdits == ASSUME AssetInv, FolderFrame,
        NEW f \in Folders, NEW p \in Folders \cup {AS!Root},
        AS!CreateFolder(f, p) \/ AS!MoveFolder(f, p)
  PROVE AssetInv'
<1> USE DEF FolderFrame
<1>1. UNCHANGED <<place, filing>> /\ (p # AS!Root => folder[p].there)
  BY DEF AS!CreateFolder, AS!MoveFolder
<1>2. \E new \in FolderRows : /\ folder' = [folder EXCEPT ![f] = new]
                              /\ new.there /\ new.parent = p
                              /\ new.named => folder[f].there /\ folder[f].named
  <2>1. CASE AS!CreateFolder(f, p)
    <3>1. [there |-> TRUE, named |-> FALSE, parent |-> p] \in FolderRows
      BY DEF FolderRows
    <3> QED BY <2>1, <3>1, Zenon DEF AS!CreateFolder
  <2>2. CASE AS!MoveFolder(f, p)
    <3>1. folder[f] \in FolderRows /\ folder[f].there
      BY <2>2 DEF AssetInv, FoldersOK, AS!MoveFolder
    <3>2. PICK new : new = [folder[f] EXCEPT !.parent = p]
      BY Zenon
    <3>3. new \in FolderRows /\ new.there = folder[f].there /\ new.parent = p
          /\ new.named = folder[f].named
      BY <3>1, <3>2, Zenon DEF FolderRows
    <3>4. folder' = [folder EXCEPT ![f] = new]
      BY <2>2, <3>2 DEF AS!MoveFolder
    <3> QED BY <3>1, <3>3, <3>4, Zenon
  <2> QED BY <2>1, <2>2
<1>3. PICK new \in FolderRows : /\ folder' = [folder EXCEPT ![f] = new]
                                /\ new.there /\ new.parent = p
                                /\ new.named => folder[f].there /\ folder[f].named
  BY <1>2, Zenon
<1>4. FoldersOK'
  <2>1. place' \in [Files -> Folders \cup {AS!Root}]
        /\ \A file \in Files : place'[file] \in {place[file], f}
    BY <1>1 DEF AssetInv, FoldersOK
  <2> QED BY <1>1, <1>3, <2>1, FolderWritten, Zenon
<1>5. \A g \in Folders : folder'[g] = IF g = f THEN new ELSE folder[g]
  BY <1>3 DEF AssetInv, FoldersOK
<1>6. FilingOK'
  BY <1>1, <1>3, <1>5, FilingStays DEF FilingKnows
<1>7. ShareOK' /\ LibraryOK'
  BY <1>1, ShareStays, LibraryStays DEF Closing
<1> QED BY <1>4, <1>6, <1>7 DEF AssetInv

LEMMA FolderReads == ASSUME AssetInv, FolderFrame, NEW q \in Requests, NEW f \in Folders,
        AS!ReadForDelete(q, f)
  PROVE AssetInv'
<1> USE DEF FolderFrame
<1>1. PICK new : new = [op |-> "delete", id |-> f]
  BY Zenon
<1>2. /\ new \in Filings /\ new.op = "delete" /\ UNCHANGED <<folder, place>>
      /\ AS!Free(q) /\ filing' = [filing EXCEPT ![q] = new]
  BY <1>1 DEF AS!ReadForDelete, AS!Begin, Filings, AS!folderVars
<1>3. FilingKnows(new)'
  BY <1>2 DEF FilingKnows
<1>4. FilingOK' /\ \A r \in Requests : filing'[r] = IF r = q THEN new ELSE filing[r]
  <2>1. FilingGoes(q, new)
    BY <1>2, <1>3 DEF FilingGoes
  <2> QED BY <2>1, <1>2, <1>3, FilingMoves
<1>5. ShareOK'
  BY <1>2, <1>4, ShareStays, ClosingSame, IdleFiling DEF AS!Free
<1> QED BY <1>2, <1>4, <1>5, LibraryStays, FoldersStay DEF AssetInv

LEMMA FolderDeletes == ASSUME AssetInv, FolderFrame, NEW q \in Requests,
        AS!Is(q, "delete"), AS!DeleteFolder(q)
  PROVE AssetInv'
<1> USE DEF FolderFrame
<1>1. /\ filing[q] # AS!Idle /\ filing[q].op = "delete" /\ filing[q].id \in Folders
  BY FilingAt
<1>2. PICK f \in Folders : f = filing[q].id
  BY <1>1
<1>3. /\ folder' = [g \in Folders |->
                      IF g = f THEN AS!NoFolder
                      ELSE IF folder[g].parent = f
                           THEN [folder[g] EXCEPT !.parent = AS!Root] ELSE folder[g]]
      /\ place' = [file \in Files |-> IF place[file] = f THEN AS!Root ELSE place[file]]
      /\ filing' = [filing EXCEPT ![q] = AS!Idle]
  BY <1>2 DEF AS!DeleteFolder, AS!End
<1>4. FilingOK' /\ \A r \in Requests : filing'[r] = IF r = q THEN AS!Idle ELSE filing[r]
  <2>1. FilingKnows(AS!Idle)'
    BY DEF FilingKnows, AS!Idle
  <2>2. FilingGoes(q, AS!Idle)
    BY <1>1, <1>3 DEF FilingGoes
  <2> QED BY <2>2, <2>1, FilingMoves
<1>5. \A g \in Folders :
        /\ folder'[g] \in FolderRows
        /\ g = f => folder'[g] = AS!NoFolder
        /\ g # f => /\ folder'[g].there = folder[g].there /\ folder'[g].named = folder[g].named
                    /\ folder'[g].parent = IF folder[g].parent = f THEN AS!Root ELSE folder[g].parent
                    /\ ~folder[g].there => folder'[g] = AS!NoFolder
  <2> SUFFICES ASSUME NEW g \in Folders
               PROVE /\ folder'[g] \in FolderRows
                     /\ g = f => folder'[g] = AS!NoFolder
                     /\ g # f => /\ folder'[g].there = folder[g].there
                                 /\ folder'[g].named = folder[g].named
                                 /\ folder'[g].parent = IF folder[g].parent = f THEN AS!Root
                                                        ELSE folder[g].parent
                                 /\ ~folder[g].there => folder'[g] = AS!NoFolder
    OBVIOUS
  <2>1. folder[g] \in FolderRows /\ (~folder[g].there => folder[g] = AS!NoFolder)
        /\ AS!NoFolder \in FolderRows
    BY DEF AssetInv, FoldersOK, AS!NoFolder, FolderRows, AS!Root
  <2>2. AS!NoFolder.parent = AS!Root /\ AS!NoFolder.there = FALSE /\ AS!NoFolder.named = FALSE
    BY DEF AS!NoFolder, AS!Root
  <2>3. CASE g = f
    BY <1>3, <2>1, <2>3
  <2>4. CASE g # f /\ folder[g].parent = f
    <3>1. PICK new : new = [folder[g] EXCEPT !.parent = AS!Root]
      BY Zenon
    <3>2. folder'[g] = new
      BY <1>3, <2>4, <3>1
    <3>3. /\ new \in FolderRows /\ new.there = folder[g].there
          /\ new.named = folder[g].named /\ new.parent = AS!Root
      BY <2>1, <3>1 DEF FolderRows
    <3>4. ~folder[g].there => new = AS!NoFolder
      BY <2>1, <3>1 DEF AS!NoFolder, AS!Root
    <3> QED BY <2>4, <3>2, <3>3, <3>4
  <2>5. CASE g # f /\ folder[g].parent # f
    BY <1>3, <2>1, <2>5
  <2> QED BY <2>3, <2>4, <2>5
<1>6. FoldersOK'
  <2>1. folder' \in [Folders -> FolderRows] /\ place' \in [Files -> Folders \cup {AS!Root}]
    BY <1>3, <1>5 DEF AssetInv, FoldersOK
  <2>2. \A g \in Folders : ~folder'[g].there => folder'[g] = AS!NoFolder
    BY <1>5
  <2>3. \A file \in Files : place'[file] # AS!Root =>
          place'[file] = place[file] /\ place[file] # f /\ place[file] \in Folders
    BY <1>3 DEF AssetInv, FoldersOK
  <2>4. \A file \in Files : place'[file] # AS!Root => folder'[place'[file]].there
    BY <1>5, <2>3 DEF AssetInv, FoldersOK
  <2>5. \A g \in Folders : folder'[g].parent # AS!Root =>
          /\ g # f /\ folder'[g].parent = folder[g].parent /\ folder[g].parent # f
          /\ folder[g].parent \in Folders
    <3>1. AS!NoFolder.parent = AS!Root
      BY DEF AS!NoFolder, AS!Root
    <3>2. \A g \in Folders : folder[g].parent \in Folders \cup {AS!Root}
      BY DEF AssetInv, FoldersOK, FolderRows
    <3> QED BY <1>5, <3>1, <3>2
  <2>6. \A g \in Folders : folder'[g].parent # AS!Root => folder'[folder'[g].parent].there
    BY <1>5, <2>5 DEF AssetInv, FoldersOK
  <2>7. solo => \A g, h \in Folders :
          folder'[g].there /\ folder'[g].named /\ folder'[h].there /\ folder'[h].named => g = h
    <3>1. ~AS!NoFolder.there
      BY DEF AS!NoFolder
    <3> QED BY <1>5, <3>1 DEF AssetInv, FoldersOK
  <2> QED BY <2>1, <2>2, <2>4, <2>6, <2>7 DEF FoldersOK
<1>7. ShareOK'
  BY <1>1, <1>4, ShareStays, ClosingSame, IdleFiling
<1> QED BY <1>4, <1>6, <1>7, LibraryStays DEF AssetInv

LEMMA FolderStep == ASSUME AssetInv, AS!FolderNext PROVE AssetInv'
<1>1. FolderFrame
  BY DEF AS!FolderNext, FolderFrame, AS!shareVars
<1>2. CASE \E q \in Requests : \E f \in Folders : AS!ResolveFolder(q, f)
  BY <1>1, <1>2, FolderResolves
<1>3. CASE \E q \in Requests : AS!Is(q, "resolve") /\ AS!CreateNamed(q)
  BY <1>1, <1>3, FolderNamed
<1>4. CASE \E f \in Folders : \E p \in Folders \cup {AS!Root} :
             AS!CreateFolder(f, p) \/ AS!MoveFolder(f, p)
  BY <1>1, <1>4, FolderEdits
<1>5. CASE \E q \in Requests : \E f \in Folders : AS!ReadForDelete(q, f)
  BY <1>1, <1>5, FolderReads
<1>6. CASE \E q \in Requests : AS!Is(q, "delete") /\ AS!DeleteFolder(q)
  BY <1>1, <1>6, FolderDeletes
<1> QED BY <1>2, <1>3, <1>4, <1>5, <1>6 DEF AS!FolderNext

-----------------------------------------------------------------------------
LibraryFrame == UNCHANGED <<folder, place, share, served, solo>>

LEMMA CollectionSteps == ASSUME AssetInv, LibraryFrame, UNCHANGED <<vendor, filing>>,
        \/ \E c \in Collections : AS!CreateCollection(c)
        \/ \E c \in Collections : AS!DeleteCollection(c)
        \/ \E c \in Collections : \E file \in Files : AS!AddItem(c, file)
        \/ \E c \in Collections : \E file \in Files : AS!RemoveItem(c, file)
  PROVE AssetInv'
<1> USE DEF LibraryFrame
<1> DEFINE Rows1 == [there : BOOLEAN, items : SUBSET Files]
<1>1. \A c \in Collections : collection[c] \in Rows1
  BY DEF AssetInv, LibraryOK
<1>2. \E c \in Collections : \E new \in Rows1 : collection' = [collection EXCEPT ![c] = new]
  <2>1. ASSUME NEW c \in Collections, AS!CreateCollection(c)
        PROVE \E new \in Rows1 : collection' = [collection EXCEPT ![c] = new]
    <3>1. [collection[c] EXCEPT !.there = TRUE] \in Rows1
      BY <1>1, Zenon
    <3> QED BY <2>1, <3>1, Zenon DEF AS!CreateCollection
  <2>2. ASSUME NEW c \in Collections, AS!DeleteCollection(c)
        PROVE \E new \in Rows1 : collection' = [collection EXCEPT ![c] = new]
    <3>1. AS!NoCollection \in Rows1
      BY DEF AS!NoCollection
    <3> QED BY <2>2, <3>1, Zenon DEF AS!DeleteCollection
  <2>3. ASSUME NEW c \in Collections, NEW file \in Files, AS!AddItem(c, file)
        PROVE \E new \in Rows1 : collection' = [collection EXCEPT ![c] = new]
    <3>1. PICK l : l = collection[c].items \cup {file}
      BY Zenon
    <3>2. l \in SUBSET Files
      BY <1>1, <3>1
    <3>3. [collection[c] EXCEPT !.items = l] \in Rows1
      BY <1>1, <3>2
    <3>4. collection' = [collection EXCEPT ![c] = [collection[c] EXCEPT !.items = l]]
      BY <2>3, <3>1 DEF AS!AddItem
    <3> QED BY <3>3, <3>4, Zenon
  <2>4. ASSUME NEW c \in Collections, NEW file \in Files, AS!RemoveItem(c, file)
        PROVE \E new \in Rows1 : collection' = [collection EXCEPT ![c] = new]
    <3>1. PICK l : l = collection[c].items \ {file}
      BY Zenon
    <3>2. l \in SUBSET Files
      BY <1>1, <3>1
    <3>3. [collection[c] EXCEPT !.items = l] \in Rows1
      BY <1>1, <3>2
    <3>4. collection' = [collection EXCEPT ![c] = [collection[c] EXCEPT !.items = l]]
      BY <2>4, <3>1 DEF AS!RemoveItem
    <3> QED BY <3>3, <3>4, Zenon
  <2> QED BY <2>1, <2>2, <2>3, <2>4
<1>3. LibraryOK'
  BY <1>2 DEF AssetInv, LibraryOK
<1>4. FilingOK'
  BY FilingStays DEF FilingKnows
<1> QED BY <1>3, <1>4, ShareStays, FoldersStay DEF AssetInv, Closing

LEMMA VendorSteps == ASSUME AssetInv, LibraryFrame, UNCHANGED collection,
        \/ \E q \in Requests : \E p \in Providers : AS!SaveProvider(q, p)
        \/ \E q \in Requests : AS!Is(q, "provider") /\ AS!MakeDefault(q)
  PROVE AssetInv'
<1> USE DEF LibraryFrame
<1>0. vendor \in [Providers -> Vendors]
  BY DEF AssetInv, LibraryOK
<1>1. ASSUME NEW q \in Requests, NEW p \in Providers,
             vendor' = [x \in Providers |-> [vendor[x] EXCEPT !.isDefault = FALSE]],
             AS!Begin(q, [op |-> "provider", id |-> p])
      PROVE AssetInv'
  <2>1. PICK new : new = [op |-> "provider", id |-> p]
    BY Zenon
  <2>2. /\ new \in Filings /\ new.op = "provider"
        /\ AS!Free(q) /\ filing' = [filing EXCEPT ![q] = new]
    BY <1>1, <2>1 DEF AS!Begin, Filings
  <2>3. \A x \in Providers : vendor'[x] \in Vendors /\ vendor'[x].isDefault = FALSE
    BY <1>0, <1>1, Zenon DEF Vendors
  <2>4. LibraryOK'
    BY <1>1, <2>3 DEF AssetInv, LibraryOK
  <2>5. FilingKnows(new)'
    BY <2>2, <2>3 DEF FilingKnows
  <2>6. FilingOK' /\ \A r \in Requests : filing'[r] = IF r = q THEN new ELSE filing[r]
    <3>1. FilingGoes(q, new)
      BY <2>2, <2>5 DEF FilingGoes
    <3> QED BY <3>1, <2>2, <2>5, FilingMoves
  <2>7. ShareOK'
    BY <2>2, <2>6, ShareStays, ClosingSame, IdleFiling DEF AS!Free
  <2> QED BY <2>4, <2>6, <2>7, FoldersStay DEF AssetInv
<1>2. ASSUME NEW p \in Providers, UNCHANGED filing,
             vendor' = [vendor EXCEPT ![p] = [there |-> TRUE, isDefault |-> FALSE]]
      PROVE AssetInv'
  <2>1. /\ vendor' \in [Providers -> Vendors]
        /\ \A x \in Providers : vendor'[x].isDefault => vendor[x].isDefault
    BY <1>0, <1>2 DEF Vendors
  <2>2. LibraryOK'
    BY <2>1 DEF AssetInv, LibraryOK
  <2>3. FilingOK'
    BY <1>2, <2>1, FilingStays DEF FilingKnows
  <2> QED BY <1>2, <2>2, <2>3, ShareStays, FoldersStay DEF AssetInv, Closing
<1>3. ASSUME NEW q \in Requests, AS!Is(q, "provider"), AS!MakeDefault(q) PROVE AssetInv'
  <2>1. /\ filing[q] # AS!Idle /\ filing[q].op = "provider" /\ filing[q].id \in Providers
        /\ solo => FilingKnows(filing[q])
    BY <1>3, FilingAt
  <2>2. /\ vendor' = [vendor EXCEPT ![filing[q].id] = [there |-> TRUE, isDefault |-> TRUE]]
        /\ filing' = [filing EXCEPT ![q] = AS!Idle]
    BY <1>3 DEF AS!MakeDefault, AS!End
  <2>3. LibraryOK'
    <3>1. vendor' \in [Providers -> Vendors]
          /\ \A x \in Providers : x # filing[q].id => vendor'[x] = vendor[x]
      BY <1>0, <2>1, <2>2 DEF Vendors
    <3> QED BY <2>1, <3>1 DEF AssetInv, LibraryOK, FilingKnows
  <2>4. FilingOK' /\ \A r \in Requests : filing'[r] = IF r = q THEN AS!Idle ELSE filing[r]
    <3>1. FilingKnows(AS!Idle)'
      BY DEF FilingKnows, AS!Idle
    <3>2. FilingGoes(q, AS!Idle)
      BY <2>1, <2>2 DEF FilingGoes
    <3> QED BY <3>2, <3>1, FilingMoves
  <2>5. ShareOK'
    BY <2>1, <2>4, ShareStays, ClosingSame, IdleFiling
  <2> QED BY <2>3, <2>4, <2>5, FoldersStay DEF AssetInv
<1> QED BY <1>1, <1>2, <1>3, Zenon DEF AS!SaveProvider

LEMMA LibraryStep == ASSUME AssetInv, AS!LibraryNext PROVE AssetInv'
<1>1. LibraryFrame
  BY DEF AS!LibraryNext, LibraryFrame, AS!shareVars, AS!folderVars
<1> QED BY <1>1, CollectionSteps, VendorSteps DEF AS!LibraryNext

-----------------------------------------------------------------------------
ShareFrame == UNCHANGED <<folder, place, collection, vendor, solo>>

LEMMA ShareEdits == ASSUME AssetInv, ShareFrame,
        AS!CreateShare \/ AS!ExpireShare \/ AS!DeactivateShare
  PROVE AssetInv'
<1> USE DEF ShareFrame
<1>1. /\ share' \in ShareRows /\ share'.downloads = share.downloads
      /\ UNCHANGED <<served, filing>>
  <2>1. share \in ShareRows
    BY DEF AssetInv, ShareOK
  <2>2. CASE AS!CreateShare
    BY <2>1, <2>2, Zenon DEF AS!CreateShare, AS!NoShare, ShareRows
  <2>3. CASE AS!ExpireShare
    BY <2>1, <2>3, Zenon DEF AS!ExpireShare, ShareRows
  <2>4. CASE AS!DeactivateShare
    BY <2>1, <2>4, Zenon DEF AS!DeactivateShare, ShareRows
  <2> QED BY <2>2, <2>3, <2>4
<1>2. ShareOK'
  BY <1>1 DEF AssetInv, ShareOK, Closing
<1>3. FilingOK'
  BY <1>1, FilingStays DEF FilingKnows
<1> QED BY <1>2, <1>3, FoldersStay, LibraryStays DEF AssetInv

LEMMA ShareReads == ASSUME AssetInv, ShareFrame, NEW q \in Requests, AS!ReadShare(q)
  PROVE AssetInv'
<1> USE DEF ShareFrame
<1>1. PICK new : new = [op |-> "count", read |-> share.downloads]
  BY Zenon
<1>2. /\ new \in Filings /\ new.op = "count" /\ UNCHANGED <<share, served>>
      /\ AS!Free(q) /\ filing' = [filing EXCEPT ![q] = new]
      /\ MaxDownloads > 0 => share.downloads < MaxDownloads
  <2>1. share.downloads \in Nat
    BY DEF AssetInv, ShareOK, ShareRows
  <2> QED BY <1>1, <2>1 DEF AS!ReadShare, AS!Begin, Filings, AS!shareVars
<1>3. FilingKnows(new)'
  BY <1>2 DEF FilingKnows
<1>4. FilingOK' /\ \A r \in Requests : filing'[r] = IF r = q THEN new ELSE filing[r]
  <2>1. FilingGoes(q, new)
    BY <1>2, <1>3 DEF FilingGoes
  <2> QED BY <2>1, <1>2, <1>3, FilingMoves
<1>5. ShareOK'
  BY <1>2, <1>4, ShareStays, ClosingSame, IdleFiling DEF AS!Free
<1> QED BY <1>4, <1>5, LibraryStays, FoldersStay DEF AssetInv

LEMMA ShareCounts == ASSUME AssetInv, ShareFrame, NEW q \in Requests,
        AS!Is(q, "count"), AS!CountDownload(q)
  PROVE AssetInv'
<1> USE DEF ShareFrame
<1>1. /\ filing[q] # AS!Idle /\ filing[q].op = "count"
      /\ solo => FilingKnows(filing[q])
  BY FilingAt
<1>2. /\ share \in ShareRows /\ share.downloads \in Nat /\ served \in Nat
      /\ served + Cardinality(Closing) = share.downloads
      /\ solo /\ MaxDownloads > 0 => share.downloads < MaxDownloads
  BY <1>1 DEF AssetInv, ShareOK, ShareRows, FilingKnows
<1>3. /\ share' \in ShareRows /\ share'.downloads = share.downloads + 1
      /\ solo /\ MaxDownloads > 0 => share'.downloads <= MaxDownloads
  <2>1. share' = [share EXCEPT !.downloads = share.downloads + 1]
    BY DEF AS!CountDownload
  <2>2. share.downloads + 1 \in Nat
    BY <1>2
  <2>3. share' \in ShareRows /\ share'.downloads = share.downloads + 1
    BY <1>2, <2>1, <2>2 DEF ShareRows
  <2> QED BY <1>2, <2>3, AssetsAssumption
<1>4. \/ /\ filing' = [filing EXCEPT ![q] = [op |-> "close"]] /\ UNCHANGED served
      \/ filing' = [filing EXCEPT ![q] = AS!Idle] /\ served' = served + 1
  BY DEF AS!CountDownload, AS!End
<1>5. CASE filing' = [filing EXCEPT ![q] = AS!Idle] /\ served' = served + 1
  <2>1. FilingKnows(AS!Idle)'
    BY DEF FilingKnows, AS!Idle
  <2>2. FilingOK' /\ \A r \in Requests : filing'[r] = IF r = q THEN AS!Idle ELSE filing[r]
    <3>1. FilingGoes(q, AS!Idle)
      BY <1>1, <1>5, <2>1 DEF FilingGoes
    <3> QED BY <3>1, <1>1, <1>5, <2>1, FilingMoves
  <2>3. Closing' = Closing
    BY <1>1, <2>2, ClosingSame, IdleFiling
  <2>4. ShareOK'
    BY <1>2, <1>3, <1>5, <2>3, ClosingFinite DEF ShareOK
  <2> QED BY <2>2, <2>4, LibraryStays, FoldersStay DEF AssetInv
<1>6. CASE filing' = [filing EXCEPT ![q] = [op |-> "close"]] /\ UNCHANGED served
  <2>1. PICK new : new = [op |-> "close"]
    BY Zenon
  <2>2. new \in Filings /\ new.op = "close" /\ FilingKnows(new)'
    BY <2>1 DEF Filings, FilingKnows
  <2>3. FilingOK' /\ \A r \in Requests : filing'[r] = IF r = q THEN new ELSE filing[r]
    <3>1. FilingGoes(q, new)
      BY <1>1, <1>6, <2>1, <2>2 DEF FilingGoes
    <3> QED BY <3>1, <1>1, <1>6, <2>1, <2>2, FilingMoves
  <2>4. Closing' = Closing \cup {q} /\ q \notin Closing
    BY <1>1, <2>2, <2>3 DEF Closing
  <2>5. Cardinality(Closing') = Cardinality(Closing) + 1
    BY <2>4, ClosingFinite, FS_AddElement, Zenon
  <2>6. ShareOK'
    BY <1>2, <1>3, <1>6, <2>5, ClosingFinite DEF ShareOK
  <2> QED BY <2>3, <2>6, LibraryStays, FoldersStay DEF AssetInv
<1> QED BY <1>4, <1>5, <1>6

LEMMA ShareCloses == ASSUME AssetInv, ShareFrame, NEW q \in Requests,
        AS!Is(q, "close"), AS!CloseShare(q)
  PROVE AssetInv'
<1> USE DEF ShareFrame
<1>1. filing[q] # AS!Idle /\ filing[q].op = "close"
  BY FilingAt
<1>2. /\ share \in ShareRows /\ share.downloads \in Nat /\ served \in Nat
      /\ served + Cardinality(Closing) = share.downloads
      /\ solo /\ MaxDownloads > 0 => share.downloads <= MaxDownloads
  BY DEF AssetInv, ShareOK, ShareRows
<1>3. /\ share' = [share EXCEPT !.active = FALSE] /\ served' = served + 1
      /\ filing' = [filing EXCEPT ![q] = AS!Idle]
  BY DEF AS!CloseShare, AS!End
<1>4. share' \in ShareRows /\ share'.downloads = share.downloads
  BY <1>2, <1>3, Zenon DEF ShareRows
<1>5. FilingKnows(AS!Idle)'
  BY DEF FilingKnows, AS!Idle
<1>6. FilingOK' /\ \A r \in Requests : filing'[r] = IF r = q THEN AS!Idle ELSE filing[r]
  <2>1. FilingGoes(q, AS!Idle)
    BY <1>1, <1>3, <1>5 DEF FilingGoes
  <2> QED BY <2>1, <1>1, <1>3, <1>5, FilingMoves
<1>7. Closing' = Closing \ {q} /\ q \in Closing
  BY <1>1, <1>6, IdleFiling DEF Closing
<1>8. Cardinality(Closing') = Cardinality(Closing) - 1
  BY <1>7, ClosingFinite, FS_RemoveElement
<1>9. ShareOK'
  BY <1>2, <1>3, <1>4, <1>8, ClosingFinite DEF ShareOK
<1> QED BY <1>6, <1>9, LibraryStays, FoldersStay DEF AssetInv

LEMMA ShareStep == ASSUME AssetInv, AS!ShareNext PROVE AssetInv'
<1>1. ShareFrame
  BY DEF AS!ShareNext, ShareFrame, AS!folderVars
<1> QED BY <1>1, ShareEdits, ShareReads, ShareCounts, ShareCloses DEF AS!ShareNext

LEMMA AssetSame == ASSUME AssetInv, UNCHANGED <<asVars, solo>> PROVE AssetInv'
<1> USE DEF asVars
<1>1. FilingOK'
  BY FilingStays DEF FilingKnows
<1> QED BY <1>1, FoldersStay, LibraryStays, ShareStays DEF AssetInv, Closing

-----------------------------------------------------------------------------
(* Manifest *)

ManifestInv ==
    /\ frame \in Frames
    /\ MN!WellFormed(tree)
    /\ asset \in [AssetIds -> {"own", "foreign", "template", "gone"}]

LEMMA TreeNodes == ASSUME MN!WellFormed(tree)
  PROVE /\ Len(tree) \in Nat /\ MN!Nodes = 1..Len(tree)
        /\ \A n \in MN!Nodes : n \in Nat \ {0} /\ tree[n].up \in 0..(n - 1) /\ tree[n].up \in 0..Len(tree)
<1>1. tree \in Seq({tree[n] : n \in DOMAIN tree})
  BY DEF MN!WellFormed
<1>2. Len(tree) \in Nat /\ MN!Nodes = 1..Len(tree)
  BY <1>1 DEF MN!Nodes
<1>3. \A n \in MN!Nodes : tree[n].up \in 0..(n - 1)
  BY DEF MN!WellFormed, MN!Nodes
<1> QED BY <1>2, <1>3

\* A line is the node and the line of the node above it.
LineTo(k, f) == f = [n \in 0..k |-> IF n = 0 THEN {} ELSE {n} \cup f[tree[n].up]]
LEMMA LineExists == ASSUME MN!WellFormed(tree) PROVE \E f : LineTo(Len(tree), f)
<1> DEFINE Bad == {k \in 0..Len(tree) : ~\E f : LineTo(k, f)}
<1>1. Len(tree) \in Nat /\ \A n \in 1..Len(tree) : tree[n].up \in 0..(n - 1)
  BY TreeNodes
<1>2. SUFFICES ASSUME Bad # {} PROVE FALSE
  BY <1>1
<1>3. PICK k \in Bad : \A m \in Bad : k <= m
  <2>1. Bad \in SUBSET Nat
    BY <1>1
  <2> QED BY <1>2, <2>1, LeastOne, Zenon
<1>4. CASE k = 0
  <2>1. PICK f : f = [n \in 0..k |-> {}]
    BY Zenon
  <2>2. f = [n \in 0..k |-> IF n = 0 THEN {} ELSE {n} \cup f[tree[n].up]]
    BY <1>4, <2>1
  <2> QED BY <1>3, <2>2 DEF LineTo
<1>5. CASE k # 0
  <2>1. k - 1 \in 0..Len(tree) /\ k - 1 \notin Bad
    BY <1>1, <1>3, <1>5
  <2>2. PICK f : LineTo(k - 1, f)
    BY <2>1
  <2>3. PICK g : g = [n \in 0..k |-> IF n = 0 THEN {} ELSE {n} \cup f[tree[n].up]]
    BY Zenon
  <2>4. \A n \in 0..(k - 1) : g[n] = f[n]
    <3>1. \A n \in 0..(k - 1) : n \in 0..k
      BY <1>1, <1>3
    <3> QED BY <2>2, <2>3, <3>1, Zenon DEF LineTo
  <2>5. \A n \in 1..k : tree[n].up \in 0..(k - 1)
    BY <1>1, <1>3
  <2>6. \A n \in 1..k : g[tree[n].up] = f[tree[n].up]
    BY <2>4, <2>5
  <2>7. g = [n \in 0..k |-> IF n = 0 THEN {} ELSE {n} \cup g[tree[n].up]]
    <3>1. \A n \in 0..k : (IF n = 0 THEN {} ELSE {n} \cup f[tree[n].up])
                           = (IF n = 0 THEN {} ELSE {n} \cup g[tree[n].up])
      <4>1. \A n \in 0..k : n = 0 \/ n \in 1..k
        BY <1>1, <1>3
      <4> QED BY <2>6, <4>1, Zenon
    <3> QED BY <2>3, <3>1, Zenon
  <2> QED BY <1>3, <2>7 DEF LineTo
<1> QED BY <1>4, <1>5

LEMMA LineIs == ASSUME MN!WellFormed(tree)
  PROVE /\ MN!Line[0] = {}
        /\ \A n \in MN!Nodes : MN!Line[n] = {n} \cup MN!Line[tree[n].up]
<1>1. MN!Line = CHOOSE f : LineTo(Len(tree), f)
  BY DEF MN!Line, LineTo
<1>2. LineTo(Len(tree), MN!Line)
  BY <1>1, LineExists
<1> QED BY <1>2, TreeNodes DEF LineTo

\* The key an item is visited with is the one of its array.
KeyTo(k, f) == f = [n \in 0..k |-> IF n = 0 THEN "none"
                                   ELSE IF MN!Key(n) = "item" THEN f[tree[n].up] ELSE MN!Key(n)]
LEMMA KeyExists == ASSUME MN!WellFormed(tree) PROVE \E f : KeyTo(Len(tree), f)
<1> DEFINE Bad == {k \in 0..Len(tree) : ~\E f : KeyTo(k, f)}
<1>1. Len(tree) \in Nat /\ \A n \in 1..Len(tree) : tree[n].up \in 0..(n - 1)
  BY TreeNodes
<1>2. SUFFICES ASSUME Bad # {} PROVE FALSE
  BY <1>1
<1>3. PICK k \in Bad : \A m \in Bad : k <= m
  <2>1. Bad \in SUBSET Nat
    BY <1>1
  <2> QED BY <1>2, <2>1, LeastOne, Zenon
<1>4. CASE k = 0
  <2>1. PICK f : f = [n \in 0..k |-> "none"]
    BY Zenon
  <2>2. f = [n \in 0..k |-> IF n = 0 THEN "none"
                            ELSE IF MN!Key(n) = "item" THEN f[tree[n].up] ELSE MN!Key(n)]
    BY <1>4, <2>1
  <2> QED BY <1>3, <2>2 DEF KeyTo
<1>5. CASE k # 0
  <2>1. k - 1 \in 0..Len(tree) /\ k - 1 \notin Bad
    BY <1>1, <1>3, <1>5
  <2>2. PICK f : KeyTo(k - 1, f)
    BY <2>1
  <2>3. PICK g : g = [n \in 0..k |-> IF n = 0 THEN "none"
                                     ELSE IF MN!Key(n) = "item" THEN f[tree[n].up] ELSE MN!Key(n)]
    BY Zenon
  <2>4. \A n \in 0..(k - 1) : g[n] = f[n]
    <3>1. \A n \in 0..(k - 1) : n \in 0..k
      BY <1>1, <1>3
    <3> QED BY <2>2, <2>3, <3>1, Zenon DEF KeyTo
  <2>5. \A n \in 1..k : tree[n].up \in 0..(k - 1)
    BY <1>1, <1>3
  <2>6. \A n \in 1..k : g[tree[n].up] = f[tree[n].up]
    BY <2>4, <2>5
  <2>7. \A n \in 0..k : n = 0 \/ n \in 1..k
    BY <1>1, <1>3
  <2>8. \A n \in 0..k :
           (IF n = 0 THEN "none" ELSE IF MN!Key(n) = "item" THEN f[tree[n].up] ELSE MN!Key(n))
         = (IF n = 0 THEN "none" ELSE IF MN!Key(n) = "item" THEN g[tree[n].up] ELSE MN!Key(n))
    BY <2>6, <2>7
  <2>9. g = [n \in 0..k |-> IF n = 0 THEN "none"
                            ELSE IF MN!Key(n) = "item" THEN g[tree[n].up] ELSE MN!Key(n)]
    BY <2>3, <2>8
  <2> QED BY <1>3, <2>9 DEF KeyTo
<1> QED BY <1>4, <1>5

LEMMA VisitKeyIs == ASSUME MN!WellFormed(tree)
  PROVE \A n \in MN!Nodes : MN!VisitKey[n] = IF MN!Key(n) = "item" THEN MN!VisitKey[tree[n].up]
                                             ELSE MN!Key(n)
<1>1. MN!VisitKey = CHOOSE f : KeyTo(Len(tree), f)
  BY DEF MN!VisitKey, KeyTo
<1>2. KeyTo(Len(tree), MN!VisitKey)
  BY <1>1, KeyExists
<1>3. \A n \in 0..Len(tree) :
        MN!VisitKey[n] = IF n = 0 THEN "none"
                         ELSE IF MN!Key(n) = "item" THEN MN!VisitKey[tree[n].up] ELSE MN!Key(n)
  BY <1>2, Zenon DEF KeyTo
<1>4. \A n \in MN!Nodes : n \in 0..Len(tree) /\ n # 0
  BY TreeNodes
<1> QED BY <1>3, <1>4

\* What the validator descends from, past a layout.
Parent(n) == LET holder == tree[tree[n].up].up
             IN  IF MN!Key(holder) = "layout" THEN tree[holder].up ELSE holder
OutOfReach(n) == \/ MN!Key(n) # "item" \/ MN!Key(tree[n].up) # "children"
                 \/ tree[tree[n].up].up = 0
FromScreen(n) == IF frame.form = "map" /\ tree[n].kind \in {"object", "array"} THEN 0 ELSE -1
OneMore(n, v) == IF Parent(n) \notin MN!Nodes \/ v < 0 THEN -1 ELSE v + 1
ReachedTo(k, f) ==
    f = [n \in 1..k |-> IF tree[n].up = 0 THEN FromScreen(n)
                        ELSE IF OutOfReach(n) THEN -1 ELSE OneMore(n, f[Parent(n)])]
LEMMA ParentBefore == ASSUME MN!WellFormed(tree), NEW n \in MN!Nodes, tree[n].up # 0, ~OutOfReach(n)
  PROVE Parent(n) \in 0..(n - 1)
<1>1. PICK a : a = tree[n].up
  OBVIOUS
<1>2. a \in MN!Nodes /\ a < n /\ tree[a].up # 0 /\ tree[a].up \in 0..(a - 1)
  BY <1>1, TreeNodes DEF OutOfReach
<1>3. PICK h : h = tree[a].up
  OBVIOUS
<1>4. h \in MN!Nodes /\ h < a /\ tree[h].up \in 0..(h - 1)
  BY <1>2, <1>3, TreeNodes
<1>5. Parent(n) \in {h, tree[h].up}
  BY <1>1, <1>3 DEF Parent
<1> QED BY <1>2, <1>4, <1>5, TreeNodes

LEMMA ReachedExists == ASSUME MN!WellFormed(tree) PROVE \E f : ReachedTo(Len(tree), f)
<1> DEFINE Bad == {k \in 0..Len(tree) : ~\E f : ReachedTo(k, f)}
<1>1. Len(tree) \in Nat /\ MN!Nodes = 1..Len(tree)
  BY TreeNodes
<1>2. SUFFICES ASSUME Bad # {} PROVE FALSE
  BY <1>1
<1>3. PICK k \in Bad : \A m \in Bad : k <= m
  <2>1. Bad \in SUBSET Nat
    BY <1>1
  <2> QED BY <1>2, <2>1, LeastOne, Zenon
<1>4. CASE k = 0
  <2>1. PICK f : f = [n \in 1..k |-> -1]
    BY Zenon
  <2>2. 1..k = {}
    BY <1>4
  <2>3. f = [n \in 1..k |-> IF tree[n].up = 0 THEN FromScreen(n)
                            ELSE IF OutOfReach(n) THEN -1 ELSE OneMore(n, f[Parent(n)])]
    BY <2>1, <2>2
  <2> QED BY <1>3, <2>3 DEF ReachedTo
<1>5. CASE k # 0
  <2>1. k - 1 \in 0..Len(tree) /\ k - 1 \notin Bad
    BY <1>1, <1>3, <1>5
  <2>2. PICK f : ReachedTo(k - 1, f)
    BY <2>1
  <2>3. PICK g : g = [n \in 1..k |-> IF tree[n].up = 0 THEN FromScreen(n)
                                     ELSE IF OutOfReach(n) THEN -1 ELSE OneMore(n, f[Parent(n)])]
    BY Zenon
  <2>4. \A n \in 1..(k - 1) : g[n] = f[n]
    <3>1. \A n \in 1..(k - 1) : n \in 1..k
      BY <1>1, <1>3
    <3> QED BY <2>2, <2>3, <3>1, Zenon DEF ReachedTo
  <2>5. \A n \in 1..k : tree[n].up # 0 /\ ~OutOfReach(n) => OneMore(n, f[Parent(n)]) = OneMore(n, g[Parent(n)])
    <3> SUFFICES ASSUME NEW n \in 1..k, tree[n].up # 0, ~OutOfReach(n)
                 PROVE OneMore(n, f[Parent(n)]) = OneMore(n, g[Parent(n)])
      OBVIOUS
    <3>1. n \in MN!Nodes
      BY <1>1, <1>3
    <3>2. Parent(n) \in 0..(n - 1)
      BY <3>1, ParentBefore
    <3>3. CASE Parent(n) \in MN!Nodes
      <4>1. Parent(n) \in 1..(k - 1)
        BY <1>1, <1>3, <3>2, <3>3
      <4> QED BY <2>4, <4>1
    <3>4. CASE Parent(n) \notin MN!Nodes
      BY <3>4 DEF OneMore
    <3> QED BY <3>3, <3>4
  <2>6. \A n \in 1..k :
           (IF tree[n].up = 0 THEN FromScreen(n)
            ELSE IF OutOfReach(n) THEN -1 ELSE OneMore(n, f[Parent(n)]))
         = (IF tree[n].up = 0 THEN FromScreen(n)
            ELSE IF OutOfReach(n) THEN -1 ELSE OneMore(n, g[Parent(n)]))
    BY <2>5
  <2>7. g = [n \in 1..k |-> IF tree[n].up = 0 THEN FromScreen(n)
                            ELSE IF OutOfReach(n) THEN -1 ELSE OneMore(n, g[Parent(n)])]
    BY <2>3, <2>6
  <2> QED BY <1>3, <2>7 DEF ReachedTo
<1> QED BY <1>4, <1>5

LEMMA ReachedIs == ASSUME MN!WellFormed(tree)
  PROVE \A n \in MN!Nodes :
          MN!Reached[n] = IF tree[n].up = 0 THEN FromScreen(n)
                          ELSE IF OutOfReach(n) THEN -1 ELSE OneMore(n, MN!Reached[Parent(n)])
<1>1. MN!Reached = CHOOSE f : ReachedTo(Len(tree), f)
  BY TreeNodes, Zenon DEF MN!Reached, ReachedTo, FromScreen, OutOfReach, OneMore, Parent
<1>2. ReachedTo(Len(tree), MN!Reached)
  BY <1>1, ReachedExists
<1> QED BY <1>2, TreeNodes, Zenon DEF ReachedTo

\* What is drawn starts somewhere, or hangs below what is drawn.
Hangs(n, m) == n \in MN!ItemsAt(m, "children") \cup MN!InLayout(m)
DrawnTo(k, f) == f = [n \in 1..k |-> n \in MN!Starts \/ \E m \in 1..(n - 1) : Hangs(n, m) /\ f[m]]
LEMMA DrawnExists == ASSUME MN!WellFormed(tree) PROVE \E f : DrawnTo(Len(tree), f)
<1> DEFINE Bad == {k \in 0..Len(tree) : ~\E f : DrawnTo(k, f)}
<1>1. Len(tree) \in Nat
  BY TreeNodes
<1>2. SUFFICES ASSUME Bad # {} PROVE FALSE
  BY <1>1
<1>3. PICK k \in Bad : \A m \in Bad : k <= m
  <2>1. Bad \in SUBSET Nat
    BY <1>1
  <2> QED BY <1>2, <2>1, LeastOne, Zenon
<1>4. CASE k = 0
  <2>1. PICK f : f = [n \in 1..k |-> TRUE]
    BY Zenon
  <2>2. 1..k = {}
    BY <1>4
  <2>3. f = [n \in 1..k |-> n \in MN!Starts \/ \E m \in 1..(n - 1) : Hangs(n, m) /\ f[m]]
    BY <2>1, <2>2, Zenon
  <2> QED BY <1>3, <2>3 DEF DrawnTo
<1>5. CASE k # 0
  <2>1. k - 1 \in 0..Len(tree) /\ k - 1 \notin Bad
    BY <1>1, <1>3, <1>5
  <2>2. PICK f : DrawnTo(k - 1, f)
    BY <2>1
  <2>3. PICK g : g = [n \in 1..k |-> n \in MN!Starts \/ \E m \in 1..(n - 1) : Hangs(n, m) /\ f[m]]
    BY Zenon
  <2>4. \A n \in 1..(k - 1) : g[n] = f[n]
    <3>1. \A n \in 1..(k - 1) : n \in 1..k
      BY <1>1, <1>3
    <3> QED BY <2>2, <2>3, <3>1, Zenon DEF DrawnTo
  <2>5. \A n \in 1..k : \A m \in 1..(n - 1) : g[m] = f[m]
    <3>1. \A n \in 1..k : \A m \in 1..(n - 1) : m \in 1..(k - 1)
      BY <1>1, <1>3
    <3> QED BY <2>4, <3>1
  <2>6. \A n \in 1..k :
           (n \in MN!Starts \/ \E m \in 1..(n - 1) : Hangs(n, m) /\ f[m])
         = (n \in MN!Starts \/ \E m \in 1..(n - 1) : Hangs(n, m) /\ g[m])
    BY <2>5
  <2>7. g = [n \in 1..k |-> n \in MN!Starts \/ \E m \in 1..(n - 1) : Hangs(n, m) /\ g[m]]
    BY <2>3, <2>6, Zenon
  <2> QED BY <1>3, <2>7 DEF DrawnTo
<1> QED BY <1>4, <1>5

LEMMA DrawnIs == ASSUME MN!WellFormed(tree)
  PROVE \A n \in MN!Nodes :
          MN!Drawn[n] = (n \in MN!Starts \/ \E m \in 1..(n - 1) : Hangs(n, m) /\ MN!Drawn[m])
<1>1. MN!Drawn = CHOOSE f : DrawnTo(Len(tree), f)
  BY TreeNodes, Zenon DEF MN!Drawn, DrawnTo, Hangs
<1>2. DrawnTo(Len(tree), MN!Drawn)
  BY <1>1, DrawnExists
<1> QED BY <1>2, TreeNodes, Zenon DEF DrawnTo

-----------------------------------------------------------------------------
(* Lines of drawn nodes *)

LEMMA LineWithin == ASSUME MN!WellFormed(tree), NEW n \in MN!Nodes
  PROVE n \in MN!Line[n] /\ MN!Line[n] \subseteq 1..n
<1> DEFINE Bad == {k \in MN!Nodes : ~(MN!Line[k] \subseteq 1..k)}
<1>1. n \in MN!Line[n]
  BY LineIs
<1>2. Bad = {}
  <2> SUFFICES ASSUME Bad # {} PROVE FALSE
    OBVIOUS
  <2>1. PICK k \in Bad : \A m \in Bad : k <= m
    <3>1. Bad \in SUBSET Nat
      BY TreeNodes
    <3> QED BY <3>1, LeastOne, Zenon
  <2>2. PICK p : p = tree[k].up
    OBVIOUS
  <2>3. k \in MN!Nodes /\ k \in Nat \ {0} /\ p \in 0..(k - 1) /\ (p # 0 => p \in MN!Nodes)
    BY <2>2, TreeNodes
  <2>4. MN!Line[k] = {k} \cup MN!Line[p]
    BY <2>2, <2>3, LineIs
  <2>5. MN!Line[p] \subseteq 1..(k - 1)
    <3>1. CASE p = 0
      BY <3>1, LineIs
    <3>2. CASE p # 0
      <4>1. p \notin Bad
        BY <2>1, <2>3, <3>2
      <4>2. MN!Line[p] \subseteq 1..p
        BY <2>3, <3>2, <4>1
      <4> QED BY <2>3, <4>2
    <3> QED BY <3>1, <3>2
  <2>6. MN!Line[k] \subseteq 1..k
    BY <2>3, <2>4, <2>5
  <2> QED BY <2>1, <2>6
<1> QED BY <1>1, <1>2

LEMMA DepthNat == ASSUME MN!WellFormed(tree), NEW n \in MN!Nodes
  PROVE MN!Depth(n) \in Int
<1>1. IsFiniteSet(MN!Line[n])
  <2>1. n \in Nat
    BY TreeNodes
  <2>2. IsFiniteSet(1..n)
    BY <2>1, FS_Interval
  <2> QED BY <2>2, LineWithin, FS_Subset
<1>2. MN!Cardinality(MN!Line[n]) = Cardinality(MN!Line[n])
  BY DEF MN!Cardinality, Cardinality
<1>3. Cardinality(MN!Line[n]) \in Nat
  BY <1>1, FS_CardinalityType
<1> QED BY <1>2, <1>3 DEF MN!Depth

\* Below the screens, the line of a node has these keys only.
KeysAbove(n, keys) == \A a \in MN!Line[n] \ MN!Screens : MN!Key(a) \in keys
PlainKeys == {"item", "fixedTop", "fixedBottom", "blocks", "components", "children", "layout"}
BodyKeys == {"item", "children", "layout"}

LEMMA KeysBelow == ASSUME MN!WellFormed(tree), NEW n \in MN!Nodes, NEW keys
  PROVE /\ tree[n].up = 0 <=> n \in MN!Screens
        /\ tree[n].up = 0 => KeysAbove(n, keys)
        /\ tree[n].up # 0 => (KeysAbove(n, keys) <=> MN!Key(n) \in keys /\ KeysAbove(tree[n].up, keys))
<1>1. tree[n].up = 0 <=> n \in MN!Screens
  BY DEF MN!Screens, MN!Below
<1>2. MN!Line[n] = {n} \cup MN!Line[tree[n].up]
  BY LineIs
<1>3. tree[n].up = 0 => KeysAbove(n, keys)
  BY <1>1, <1>2, LineIs DEF KeysAbove
<1>4. tree[n].up # 0 => (KeysAbove(n, keys) <=> MN!Key(n) \in keys /\ KeysAbove(tree[n].up, keys))
  BY <1>1, <1>2 DEF KeysAbove
<1> QED BY <1>1, <1>3, <1>4

\* An item under a key of p is in an array below it.
Holds(p, key, n, a) ==
    /\ a \in MN!Nodes /\ tree[a].up = p /\ MN!Key(a) = key
    /\ n \in MN!Nodes /\ tree[n].up = a /\ MN!Key(n) = "item"
    /\ a # 0 /\ a < n /\ p < a /\ (p # 0 => tree[p].kind = "object")
LEMMA ItemOf == ASSUME MN!WellFormed(tree), NEW p \in MN!Nodes, NEW key, key # "item",
                       NEW n \in MN!ItemsAt(p, key)
  PROVE \E a \in MN!Nodes : Holds(p, key, n, a)
<1>1. PICK a \in MN!Nodes : tree[a].up = p /\ MN!Key(a) = key /\ tree[a].kind = "array"
                            /\ n \in MN!Nodes /\ tree[n].up = a
  BY DEF MN!ItemsAt, MN!At, MN!Below
<1>2. a # 0 /\ p # 0 /\ a < n /\ p < a
  BY <1>1, TreeNodes
<1>3. MN!Key(n) = "item"
  BY <1>1, <1>2, Zenon DEF MN!WellFormed, MN!Nodes, MN!Key
<1>4. tree[p].kind = "object"
  BY <1>1, <1>2, Zenon DEF MN!WellFormed, MN!Nodes, MN!Key
<1> QED BY <1>1, <1>2, <1>3, <1>4 DEF Holds

\* The items the renderer takes from a node.
Child(p) ==
    {n \in MN!Nodes :
       \/ \E key \in {"fixedTop", "fixedBottom", "blocks", "components", "children"} : n \in MN!ItemsAt(p, key)
       \/ n \in MN!InLayout(p)}
LEMMA ChildIs == ASSUME NEW p, NEW n
  PROVE n \in Child(p) <=> \/ \E key \in {"fixedTop", "fixedBottom", "blocks", "components", "children"} :
                                 n \in MN!ItemsAt(p, key)
                           \/ n \in MN!InLayout(p)
<1>1. \A key : MN!ItemsAt(p, key) \subseteq MN!Nodes
  BY DEF MN!ItemsAt, MN!Below
<1>2. MN!InLayout(p) \subseteq MN!Nodes
  <2>1. \A l \in MN!At(p, "layout") : MN!ItemsAt(l, "children") \subseteq MN!Nodes
    BY DEF MN!ItemsAt, MN!Below
  <2> QED BY <2>1 DEF MN!InLayout
<1> QED BY <1>1, <1>2 DEF Child
LEMMA ChildOf == ASSUME MN!WellFormed(tree), NEW p \in MN!Nodes, NEW n \in Child(p)
  PROVE /\ n \in MN!Nodes /\ p < n /\ tree[p].kind = "object"
        /\ MN!Key(n) = "item" /\ tree[n].up # 0
        /\ \A keys : KeysAbove(n, keys) => KeysAbove(p, keys)
        /\ KeysAbove(p, PlainKeys) => KeysAbove(n, PlainKeys)
        /\ KeysAbove(n, BodyKeys) =>
             /\ MN!Key(tree[n].up) = "children" /\ tree[tree[n].up].up # 0
             /\ \/ tree[tree[n].up].up = p
                \/ /\ MN!Key(tree[tree[n].up].up) = "layout"
                   /\ tree[tree[tree[n].up].up].up = p
<1>1. CASE \E key \in {"fixedTop", "fixedBottom", "blocks", "components", "children"} :
             n \in MN!ItemsAt(p, key)
  <2>1. PICK key \in {"fixedTop", "fixedBottom", "blocks", "components", "children"} :
             n \in MN!ItemsAt(p, key)
    BY <1>1
  <2>2. key # "item" /\ key \in PlainKeys /\ (key \in BodyKeys => key = "children")
    BY DEF PlainKeys, BodyKeys
  <2>3. PICK a \in MN!Nodes : Holds(p, key, n, a)
    BY <2>1, <2>2, ItemOf
  <2>4. p # 0 /\ p \in Nat
    BY TreeNodes
  <2>5. \A keys : /\ KeysAbove(n, keys) <=> "item" \in keys /\ KeysAbove(a, keys)
                  /\ KeysAbove(a, keys) <=> key \in keys /\ KeysAbove(p, keys)
    <3> SUFFICES ASSUME NEW keys
                 PROVE /\ KeysAbove(n, keys) <=> "item" \in keys /\ KeysAbove(a, keys)
                       /\ KeysAbove(a, keys) <=> key \in keys /\ KeysAbove(p, keys)
      OBVIOUS
    <3>1. n \in MN!Nodes /\ tree[n].up = a /\ a # 0 /\ MN!Key(n) = "item"
          /\ tree[a].up = p /\ MN!Key(a) = key
      BY <2>3 DEF Holds
    <3>2. KeysAbove(n, keys) <=> "item" \in keys /\ KeysAbove(a, keys)
      BY <3>1, KeysBelow
    <3>3. KeysAbove(a, keys) <=> key \in keys /\ KeysAbove(p, keys)
      BY <2>4, <3>1, KeysBelow
    <3> QED BY <3>2, <3>3
  <2>6. p < n
    <3>1. a \in Nat /\ n \in Nat
      BY <2>3, TreeNodes DEF Holds
    <3> QED BY <2>3, <2>4, <3>1 DEF Holds
  <2>7. "item" \in PlainKeys
    BY DEF PlainKeys
  <2> QED BY <2>2, <2>3, <2>4, <2>5, <2>6, <2>7 DEF Holds
<1>2. CASE n \in MN!InLayout(p)
  <2>1. PICK l \in MN!Nodes : tree[l].up = p /\ MN!Key(l) = "layout" /\ n \in MN!ItemsAt(l, "children")
    BY <1>2 DEF MN!InLayout, MN!At, MN!Below
  <2>2. PICK a \in MN!Nodes : Holds(l, "children", n, a)
    BY <2>1, ItemOf
  <2>3. p # 0 /\ p \in Nat /\ l # 0 /\ l \in Nat /\ p < l
    BY <2>1, TreeNodes
  <2>4. tree[p].kind = "object"
    BY <2>1, <2>3, Zenon DEF MN!WellFormed, MN!Nodes, MN!Key
  <2>5. \A keys : /\ KeysAbove(n, keys) <=> "item" \in keys /\ KeysAbove(a, keys)
                  /\ KeysAbove(a, keys) <=> "children" \in keys /\ KeysAbove(l, keys)
                  /\ KeysAbove(l, keys) <=> "layout" \in keys /\ KeysAbove(p, keys)
    <3> SUFFICES ASSUME NEW keys
                 PROVE /\ KeysAbove(n, keys) <=> "item" \in keys /\ KeysAbove(a, keys)
                       /\ KeysAbove(a, keys) <=> "children" \in keys /\ KeysAbove(l, keys)
                       /\ KeysAbove(l, keys) <=> "layout" \in keys /\ KeysAbove(p, keys)
      OBVIOUS
    <3>1. n \in MN!Nodes /\ tree[n].up = a /\ a # 0 /\ MN!Key(n) = "item"
          /\ tree[a].up = l /\ MN!Key(a) = "children"
      BY <2>2 DEF Holds
    <3>2. KeysAbove(n, keys) <=> "item" \in keys /\ KeysAbove(a, keys)
      BY <3>1, KeysBelow
    <3>3. KeysAbove(a, keys) <=> "children" \in keys /\ KeysAbove(l, keys)
      BY <2>3, <3>1, KeysBelow
    <3>4. KeysAbove(l, keys) <=> "layout" \in keys /\ KeysAbove(p, keys)
      BY <2>1, <2>3, KeysBelow
    <3> QED BY <3>2, <3>3, <3>4
  <2>6. p < n
    <3>1. a \in Nat /\ n \in Nat
      BY <2>2, TreeNodes DEF Holds
    <3> QED BY <2>2, <2>3, <3>1 DEF Holds
  <2>7. {"item", "children", "layout"} \subseteq PlainKeys
    BY DEF PlainKeys
  <2>8. /\ n \in MN!Nodes /\ MN!Key(n) = "item" /\ tree[n].up = a /\ a # 0
        /\ tree[a].up = l /\ MN!Key(a) = "children"
    BY <2>2 DEF Holds
  <2>9. /\ \A keys : KeysAbove(n, keys) => KeysAbove(p, keys)
        /\ KeysAbove(p, PlainKeys) => KeysAbove(n, PlainKeys)
    <3>1. \A keys : KeysAbove(n, keys) => KeysAbove(p, keys)
      BY <2>5, Zenon
    <3>2. KeysAbove(p, PlainKeys) => KeysAbove(n, PlainKeys)
      <4>1. KeysAbove(p, PlainKeys) => KeysAbove(l, PlainKeys)
        BY <2>5, <2>7
      <4>2. KeysAbove(l, PlainKeys) => KeysAbove(a, PlainKeys)
        BY <2>5, <2>7
      <4>3. KeysAbove(a, PlainKeys) => KeysAbove(n, PlainKeys)
        BY <2>5, <2>7
      <4> QED BY <4>1, <4>2, <4>3
    <3> QED BY <3>1, <3>2
  <2>10. n \in MN!Nodes /\ p < n /\ tree[p].kind = "object" /\ MN!Key(n) = "item" /\ tree[n].up # 0
    BY <2>4, <2>6, <2>8
  <2>11. /\ MN!Key(tree[n].up) = "children" /\ tree[tree[n].up].up # 0
         /\ MN!Key(tree[tree[n].up].up) = "layout" /\ tree[tree[tree[n].up].up].up = p
    BY <2>1, <2>3, <2>8
  <2> QED BY <2>9, <2>10, <2>11
<1> QED BY <1>1, <1>2, ChildIs

\* The first choice that is not empty is one of the choices.
LEMMA FirstOf == ASSUME NEW k \in Nat, NEW choices, DOMAIN choices = 1..k, NEW n \in MN!First(choices)
  PROVE \E i \in 1..k : n \in choices[i]
<1> DEFINE Full == {i \in 1..k : choices[i] # {}}
<1>1. Full # {}
  BY DEF MN!First
<1>2. PICK i \in Full : \A j \in Full : i <= j
  <2>1. Full \in SUBSET Nat
    OBVIOUS
  <2> QED BY <1>1, <2>1, LeastOne, Zenon
<1>3. \E j \in DOMAIN choices : choices[j] # {} /\ \A m \in 1..(j - 1) : choices[m] = {}
  <2>1. \A m \in 1..(i - 1) : m \notin Full /\ m \in 1..k
    BY <1>2
  <2> QED BY <1>2, <2>1
<1> QED BY <1>1, <1>3, Zenon DEF MN!First

\* What is drawn first: an item of a screen, or of an item of a screen.
LEMMA StartOf == ASSUME MN!WellFormed(tree), NEW n \in MN!Starts
  PROVE \E s \in MN!Screens : n \in Child(s) \/ \E c \in Child(s) : n \in Child(c)
<1>1. PICK s \in MN!Screens :
         \/ n \in MN!ItemsAt(s, "fixedTop") \cup MN!ItemsAt(s, "fixedBottom")
         \/ \E sec \in MN!Sections(s) : n \in MN!Lists(s, sec)
  <2>1. PICK s \in MN!Screens :
          n \in MN!ItemsAt(s, "fixedTop") \cup MN!ItemsAt(s, "fixedBottom")
                \cup UNION {MN!Lists(s, sec) : sec \in MN!Sections(s)}
    BY DEF MN!Starts
  <2>2. \/ n \in MN!ItemsAt(s, "fixedTop") \cup MN!ItemsAt(s, "fixedBottom")
        \/ \E sec \in MN!Sections(s) : n \in MN!Lists(s, sec)
    BY <2>1
  <2> QED BY <2>1, <2>2
<1>2. CASE n \in MN!ItemsAt(s, "fixedTop") \cup MN!ItemsAt(s, "fixedBottom")
  BY <1>2, ChildIs
<1>3. ASSUME NEW c \in MN!Sections(s), n \in MN!Lists(s, c)
      PROVE n \in Child(s) \/ \E d \in Child(s) : n \in Child(d)
  <2>1. c \in Child(s)
    <3>1. c \in MN!ItemsAt(s, "blocks") \/ c \in MN!InLayout(s)
      BY <1>3 DEF MN!Sections, MN!InLayout
    <3> QED BY <3>1, ChildIs
  <2>2. n \in MN!ItemsAt(c, "components") \cup MN!ItemsAt(c, "children") \cup MN!InLayout(c) \cup {c}
    <3>1. PICK two : two = <<MN!ItemsAt(c, "components"), MN!ItemsAt(c, "children")>>
      BY Zenon
    <3>2. PICK four : four = <<MN!InLayout(c), MN!ItemsAt(c, "components"), MN!ItemsAt(c, "children"),
                               IF tree[c].type \notin {"none", "layout"} THEN {c} ELSE {}>>
      BY Zenon
    <3>3. CASE n \in MN!First(two)
      <4>1. DOMAIN two = 1..2 /\ 2 \in Nat
        BY <3>1
      <4>2. PICK i \in 1..2 : n \in two[i]
        BY <3>3, <4>1, FirstOf, Zenon
      <4> QED BY <3>1, <4>2
    <3>4. CASE n \in MN!First(four)
      <4>1. DOMAIN four = 1..4 /\ 4 \in Nat
        BY <3>2
      <4>2. PICK i \in 1..4 : n \in four[i]
        BY <3>4, <4>1, FirstOf, Zenon
      <4>3. i = 1 \/ i = 2 \/ i = 3 \/ i = 4
        OBVIOUS
      <4> QED BY <3>2, <4>2, <4>3
    <3>5. MN!Lists(s, c) = IF MN!Key(tree[c].up) = "blocks" THEN MN!First(two) ELSE MN!First(four)
      BY <3>1, <3>2, Zenon DEF MN!Lists
    <3> QED BY <1>3, <3>3, <3>4, <3>5
  <2> QED BY <2>1, <2>2, ChildIs
<1> QED BY <1>1, <1>2, <1>3

LEMMA RenderedOf == ASSUME MN!WellFormed(tree), NEW n \in MN!Rendered
  PROVE /\ n \in MN!Nodes
        /\ \/ \E s \in MN!Screens : n \in Child(s) \/ \E c \in Child(s) : n \in Child(c)
           \/ \E m \in MN!Rendered : m < n /\ n \in Child(m)
<1>1. n \in MN!Nodes /\ MN!Drawn[n]
  BY DEF MN!Rendered
<1>2. n \in MN!Starts \/ \E m \in 1..(n - 1) : Hangs(n, m) /\ MN!Drawn[m]
  BY <1>1, DrawnIs, Zenon
<1>3. ASSUME NEW m \in 1..(n - 1), Hangs(n, m), MN!Drawn[m]
      PROVE m \in MN!Rendered /\ m < n /\ n \in Child(m)
  <2>1. m \in MN!Nodes /\ m < n
    BY <1>1, TreeNodes
  <2>2. m \in MN!Rendered
    BY <1>3, <2>1 DEF MN!Rendered
  <2>3. n \in MN!ItemsAt(m, "children") \/ n \in MN!InLayout(m)
    BY <1>3 DEF Hangs
  <2> QED BY <2>1, <2>2, <2>3, ChildIs
<1> QED BY <1>1, <1>2, <1>3, StartOf

LEMMA ScreenNodes == \A s \in MN!Screens : s \in MN!Nodes /\ tree[s].up = 0
  BY DEF MN!Screens, MN!Below

LEMMA RenderedPlain == ASSUME MN!WellFormed(tree), NEW n \in MN!Rendered
  PROVE n \in MN!Nodes /\ tree[n].up # 0 /\ MN!Key(n) = "item" /\ KeysAbove(n, PlainKeys)
<1> DEFINE Fine(k) == tree[k].up # 0 /\ MN!Key(k) = "item" /\ KeysAbove(k, PlainKeys)
           Bad == {k \in MN!Rendered : ~Fine(k)}
<1>0. MN!Rendered \subseteq MN!Nodes /\ MN!Nodes \subseteq Nat
  BY TreeNodes DEF MN!Rendered
<1>1. SUFFICES ASSUME Bad # {} PROVE FALSE
  BY <1>0
<1>2. PICK k \in Bad : \A m \in Bad : k <= m
  <2>1. Bad \in SUBSET Nat
    BY <1>0, Zenon
  <2> QED BY <1>1, <2>1, LeastOne, Zenon
<1>3. \A p \in MN!Nodes : KeysAbove(p, PlainKeys) => \A c \in Child(p) : c \in MN!Nodes /\ Fine(c)
  BY ChildOf
<1>4. \A s \in MN!Screens : s \in MN!Nodes /\ KeysAbove(s, PlainKeys)
  BY ScreenNodes, KeysBelow
<1>5. ~\E s \in MN!Screens : k \in Child(s) \/ \E c \in Child(s) : k \in Child(c)
  <2> SUFFICES ASSUME NEW s \in MN!Screens, k \in Child(s) \/ \E c \in Child(s) : k \in Child(c)
               PROVE FALSE
    OBVIOUS
  <2>1. \A c \in Child(s) : c \in MN!Nodes /\ Fine(c)
    BY <1>3, <1>4
  <2>2. \A c \in Child(s) : \A d \in Child(c) : Fine(d)
    BY <1>3, <2>1
  <2>3. Fine(k)
    BY <2>1, <2>2
  <2> QED BY <1>2, <2>3
<1>6. ASSUME NEW m \in MN!Rendered, m < k, k \in Child(m) PROVE FALSE
  <2>1. m \notin Bad
    <3>1. m \in Nat /\ k \in Nat
      BY <1>0, <1>2, Zenon
    <3> QED BY <1>2, <1>6, <3>1
  <2> QED BY <1>0, <1>2, <1>3, <1>6, <2>1
<1> QED BY <1>2, <1>5, <1>6, RenderedOf

\* Where a drawn node is below the screens by its body keys, the validator
\* comes to it from the node it hangs below.
LEMMA ReachedBelow == ASSUME MN!WellFormed(tree), NEW p \in MN!Nodes, MN!Key(p) # "layout",
                             MN!Reached[p] \in Nat, NEW n \in Child(p), KeysAbove(n, BodyKeys)
  PROVE MN!Reached[n] \in Nat
<1>1. /\ n \in MN!Nodes /\ tree[n].up # 0 /\ MN!Key(n) = "item"
      /\ MN!Key(tree[n].up) = "children" /\ tree[tree[n].up].up # 0
      /\ \/ tree[tree[n].up].up = p
         \/ MN!Key(tree[tree[n].up].up) = "layout" /\ tree[tree[tree[n].up].up].up = p
  BY ChildOf
<1>2. ~OutOfReach(n)
  BY <1>1 DEF OutOfReach
<1>3. Parent(n) = p
  BY <1>1 DEF Parent
<1>4. MN!Reached[n] = OneMore(n, MN!Reached[p])
  BY <1>1, <1>2, <1>3, ReachedIs
<1>5. MN!Reached[n] = MN!Reached[p] + 1
  BY <1>3, <1>4 DEF OneMore
<1> QED BY <1>5

LEMMA RenderedReached == ASSUME MN!WellFormed(tree), frame.form = "map", NEW n \in MN!Rendered,
                                KeysAbove(n, BodyKeys)
  PROVE MN!Reached[n] \in Nat
<1> DEFINE Bad == {k \in MN!Rendered : KeysAbove(k, BodyKeys) /\ MN!Reached[k] \notin Nat}
<1>0. MN!Rendered \subseteq MN!Nodes /\ MN!Nodes \subseteq Nat
  BY TreeNodes DEF MN!Rendered
<1>1. SUFFICES ASSUME Bad # {} PROVE FALSE
  OBVIOUS
<1>2. PICK k \in Bad : \A m \in Bad : k <= m
  <2>1. Bad \in SUBSET Nat
    BY <1>0, Zenon
  <2> QED BY <1>1, <2>1, LeastOne, Zenon
<1>3. k \in MN!Rendered /\ KeysAbove(k, BodyKeys) /\ MN!Reached[k] \notin Nat
  BY <1>2
<1>4. ASSUME NEW s \in MN!Screens, NEW c \in Child(s)
      PROVE s \in MN!Nodes /\ MN!Key(s) # "layout" /\ MN!Reached[s] \in Nat
  <2>1. s \in MN!Nodes /\ tree[s].up = 0
    BY ScreenNodes
  <2>2. MN!Key(s) = "screen"
    BY <2>1 DEF MN!WellFormed, MN!Nodes, MN!Key
  <2>3. tree[s].kind = "object"
    BY <2>1, ChildOf
  <2>4. MN!Reached[s] = 0
    BY <2>1, <2>3, ReachedIs DEF FromScreen
  <2> QED BY <2>1, <2>2, <2>4
<1>5. ASSUME NEW s \in MN!Screens, k \in Child(s) PROVE FALSE
  BY <1>3, <1>4, <1>5, ReachedBelow
<1>6. ASSUME NEW s \in MN!Screens, NEW c \in Child(s), k \in Child(c) PROVE FALSE
  <2>1. c \in MN!Nodes /\ MN!Key(c) = "item"
    BY <1>4, ChildOf
  <2>2. KeysAbove(c, BodyKeys)
    BY <1>3, <1>6, <2>1, ChildOf
  <2>3. MN!Reached[c] \in Nat
    BY <1>4, <2>2, ReachedBelow
  <2> QED BY <1>3, <1>6, <2>1, <2>3, ReachedBelow
<1>7. ASSUME NEW m \in MN!Rendered, m < k, k \in Child(m) PROVE FALSE
  <2>1. m \in MN!Nodes /\ MN!Key(m) = "item"
    BY RenderedPlain
  <2>2. KeysAbove(m, BodyKeys)
    BY <1>3, <1>7, <2>1, ChildOf
  <2>3. m \notin Bad
    <3>1. m \in Nat /\ k \in Nat
      BY <1>0, <1>2
    <3> QED BY <1>2, <1>7, <3>1
  <2>4. MN!Reached[m] \in Nat
    BY <2>2, <2>3
  <2> QED BY <1>3, <1>7, <2>1, <2>4, ReachedBelow
<1> QED BY <1>3, <1>5, <1>6, <1>7, RenderedOf

\* No node on the line of a drawn one is visited as an action.
LEMMA VisitedPlain == ASSUME MN!WellFormed(tree), NEW n \in MN!Nodes, KeysAbove(n, PlainKeys)
  PROVE \A a \in MN!Line[n] : MN!VisitKey[a] \in PlainKeys \cup {"screen"}
<1> DEFINE Q(k) == \A a \in MN!Line[k] : MN!VisitKey[a] \in PlainKeys \cup {"screen"}
           Bad == {k \in MN!Nodes : KeysAbove(k, PlainKeys) /\ ~Q(k)}
<1>0. MN!Nodes \subseteq Nat
  BY TreeNodes
<1>1. SUFFICES ASSUME Bad # {} PROVE FALSE
  OBVIOUS
<1>2. PICK k \in Bad : \A m \in Bad : k <= m
  <2>1. Bad \in SUBSET Nat
    BY <1>0, Zenon
  <2> QED BY <1>1, <2>1, LeastOne, Zenon
<1>3. k \in MN!Nodes /\ KeysAbove(k, PlainKeys) /\ ~Q(k)
  BY <1>2
<1> HIDE DEF Q
<1>4. CASE tree[k].up = 0
  <2>1. MN!Key(k) = "screen"
    BY <1>3, <1>4, Zenon DEF MN!WellFormed, MN!Nodes, MN!Key
  <2>2. MN!VisitKey[k] = "screen"
    BY <1>3, <2>1, VisitKeyIs
  <2>3. MN!Line[k] = {k}
    BY <1>3, <1>4, LineIs
  <2> QED BY <1>3, <2>2, <2>3 DEF Q
<1>5. CASE tree[k].up # 0
  <2>1. PICK p : p = tree[k].up
    OBVIOUS
  <2>2. p \in MN!Nodes /\ p < k /\ p \in Nat /\ k \in Nat
    BY <1>3, <1>5, <2>1, TreeNodes
  <2>3. MN!Key(k) \in PlainKeys /\ KeysAbove(p, PlainKeys)
    BY <1>3, <1>5, <2>1, KeysBelow
  <2>4. p \notin Bad
    BY <1>2, <2>2
  <2>5. Q(p)
    BY <2>2, <2>3, <2>4
  <2>6. p \in MN!Line[p]
    BY <2>2, LineWithin
  <2>7. MN!VisitKey[k] \in {MN!Key(k), MN!VisitKey[p]}
    BY <1>3, <2>1, VisitKeyIs
  <2>8. MN!VisitKey[k] \in PlainKeys \cup {"screen"}
    BY <2>3, <2>5, <2>6, <2>7 DEF Q
  <2>9. MN!Line[k] = {k} \cup MN!Line[p]
    BY <1>3, <2>1, LineIs
  <2> QED BY <1>3, <2>5, <2>8, <2>9 DEF Q
<1> QED BY <1>4, <1>5

-----------------------------------------------------------------------------
(* What holds of a manifest *)

LEMMA DrawnIsWalked == ASSUME MN!WellFormed(tree), NEW n \in MN!Rendered
  PROVE n \in MN!Nodes /\ MN!Walked(n)
<1>1. n \in MN!Nodes /\ KeysAbove(n, PlainKeys)
  BY RenderedPlain
<1>2. PlainKeys \cap MN!NonNodeKeys = {}
  BY DEF PlainKeys, MN!NonNodeKeys
<1> QED BY <1>1, <1>2 DEF KeysAbove, MN!Walked

LEMMA DrawnIsVisited == ASSUME MN!WellFormed(tree), NEW n \in MN!Rendered, tree[n].kind = "object",
                               MN!Depth(n) <= Limits.walk
  PROVE n \in MN!Visited
<1>1. n \in MN!Nodes /\ KeysAbove(n, PlainKeys)
  BY RenderedPlain
<1>2. \A a \in MN!Line[n] : ~MN!IsAction(MN!VisitKey[a])
  <2>1. \A key \in PlainKeys \cup {"screen"} : ~MN!IsAction(key)
    BY DEF PlainKeys, MN!IsAction
  <2> QED BY <1>1, <2>1, VisitedPlain
<1> QED BY <1>1, <1>2 DEF MN!Visited, MN!IsObject

LEMMA ManifestRenderable == ASSUME ManifestInv PROVE MN!AcceptedIsRenderable
<1>1. MN!WellFormed(tree)
  BY DEF ManifestInv
<1>2. SUFFICES ASSUME MN!Compatible, NEW n \in MN!Rendered
               PROVE /\ MN!IsNodeShape(n) => tree[n].type \in SupportedTypes
                     /\ tree[n].kind # "scalar" => MN!Depth(n) <= Limits.depth
                     /\ MN!Depth(n) <= Limits.walk /\ tree[n].asset # "none" =>
                          asset[tree[n].asset] \in {"own", "template"}
  BY DEF MN!AcceptedIsRenderable
<1>3. /\ ~\E m \in MN!Components : tree[m].type \notin SupportedTypes
      /\ ~\E m \in MN!Nodes : /\ tree[m].kind \in {"object", "array"}
                              /\ MN!Walked(m) /\ MN!Depth(m) > Limits.depth
      /\ ~\E a \in MN!AssetReferences : asset[a] \notin {"own", "template"}
  <2> DEFINE Names == {"schema", "screens", "component", "depth", "components", "capability",
                       "assets", "asset"}
  <2>1. {"component", "depth", "asset"} \subseteq Names
    OBVIOUS
  <2>2. \A e \in {"component", "depth", "asset"} : e \notin MN!Incompatibilities
    BY <1>2 DEF MN!Compatible
  <2>3. "component" \notin MN!Incompatibilities /\ "depth" \notin MN!Incompatibilities
        /\ "asset" \notin MN!Incompatibilities
    BY <2>2
  <2>4. ~\E m \in MN!Components : tree[m].type \notin SupportedTypes
    BY <2>3 DEF MN!Incompatibilities
  <2>5. ~\E m \in MN!Nodes : /\ tree[m].kind \in {"object", "array"}
                             /\ MN!Walked(m) /\ MN!Depth(m) > Limits.depth
    BY <2>3 DEF MN!Incompatibilities
  <2>6. ~\E a \in MN!AssetReferences : asset[a] \notin {"own", "template"}
    BY <2>3 DEF MN!Incompatibilities
  <2> QED BY <2>4, <2>5, <2>6
<1>4. n \in MN!Nodes /\ MN!Walked(n)
  BY <1>1, DrawnIsWalked
<1>5. MN!IsNodeShape(n) => tree[n].type \in SupportedTypes
  BY <1>3, <1>4 DEF MN!Components
<1>6. tree[n].kind \in {"object", "array", "scalar"} /\ (tree[n].kind # "object" => tree[n].asset = "none")
  BY <1>1, <1>4 DEF MN!WellFormed, MN!Nodes
<1>7. ASSUME tree[n].kind # "scalar" PROVE MN!Depth(n) <= Limits.depth
  <2>1. MN!Depth(n) \in Int /\ Limits.depth \in Nat
    BY <1>1, <1>4, ManifestAssumption, DepthNat
  <2>2. ~(MN!Depth(n) > Limits.depth)
    BY <1>3, <1>4, <1>6, <1>7
  <2> QED BY <2>1, <2>2
<1>8. ASSUME MN!Depth(n) <= Limits.walk, tree[n].asset # "none"
      PROVE asset[tree[n].asset] \in {"own", "template"}
  <2>1. n \in MN!Visited
    BY <1>1, <1>6, <1>8, DrawnIsVisited
  <2>2. tree[n].asset \in MN!AssetReferences
    BY <1>8, <2>1 DEF MN!AssetReferences
  <2> QED BY <1>3, <2>2
<1> QED BY <1>5, <1>7, <1>8

LEMMA ManifestLeads == ASSUME ManifestInv PROVE MN!ValidActionsLead
<1>1. MN!WellFormed(tree)
  BY DEF ManifestInv
<1>2. SUFFICES ASSUME MN!Valid, frame.form = "map", NEW n \in MN!Rendered,
                      \A a \in MN!Line[n] \ MN!Screens : MN!Key(a) \in {"layout", "children", "item"},
                      NEW a \in MN!At(n, "actions"), NEW event \in MN!Below(a),
                      tree[event].type = "navigate"
               PROVE tree[event].dest
  BY DEF MN!ValidActionsLead
<1>3. KeysAbove(n, BodyKeys)
  BY <1>2 DEF KeysAbove, BodyKeys
<1>4. MN!Reached[n] \in Nat
  BY <1>1, <1>2, <1>3, RenderedReached
<1>5. n \in MN!Nodes /\ tree[n].kind = "object"
  <2>1. n \in MN!Nodes /\ a \in MN!Nodes /\ tree[a].up = n /\ MN!Key(a) = "actions"
    BY DEF MN!Rendered, MN!At, MN!Below
  <2>2. n # 0
    BY <1>1, <2>1, TreeNodes
  <2> QED BY <1>1, <2>1, <2>2, Zenon DEF MN!WellFormed, MN!Nodes, MN!Key
<1>6. ~MN!ScreenErrors
  BY <1>2 DEF MN!Valid
<1>7. MN!ScreenErrors <=> \/ MN!Screens = {}
                          \/ \E m \in MN!Validated : MN!ActionErrors(m)
                          \/ \E m \in MN!Nodes : MN!Reached[m] > Limits.validator
  BY <1>2 DEF MN!ScreenErrors
<1>8. MN!Reached[n] \in 0..Limits.validator
  <2>1. Limits.validator \in Nat
    BY ManifestAssumption
  <2>2. ~(MN!Reached[n] > Limits.validator)
    BY <1>5, <1>6, <1>7
  <2> QED BY <1>4, <2>1, <2>2
<1>9. n \in MN!Validated
  BY <1>5, <1>8 DEF MN!Validated
<1>10. ~MN!ActionErrors(n)
  BY <1>6, <1>7, <1>9
<1> QED BY <1>2, <1>10, Zenon DEF MN!ActionErrors

LEMMA ManifestHolds == ASSUME ManifestInv
  PROVE MN!TypeOK /\ MN!AcceptedIsRenderable /\ MN!ValidActionsLead
<1>1. MN!TypeOK
  BY DEF ManifestInv, MN!TypeOK, MN!WellFormed, MN!Nodes
<1> QED BY <1>1, ManifestRenderable, ManifestLeads

LEMMA ManifestStart == ASSUME MN!Init PROVE ManifestInv
<1>1. frame \in Frames /\ tree \in Skeletons /\ asset \in [AssetIds -> {"own", "foreign", "template"}]
  BY DEF MN!Init
<1>2. MN!WellFormed(tree)
  BY <1>1, ManifestAssumption
<1>3. asset \in [AssetIds -> {"own", "foreign", "template", "gone"}]
  BY <1>1
<1> QED BY <1>1, <1>2, <1>3 DEF ManifestInv

LEMMA ManifestGrows == ASSUME MN!WellFormed(tree), NEW up \in 0..Len(tree), NEW shape \in Shapes,
                              MN!AddNode(up, shape)
  PROVE MN!WellFormed(tree')
<1>1. PICK k : k = Len(tree)
  OBVIOUS
<1>2. k \in Nat /\ DOMAIN tree = 1..k /\ tree \in Seq({tree[n] : n \in DOMAIN tree})
  BY <1>1, TreeNodes DEF MN!Nodes, MN!WellFormed
<1>3. PICK new : new = [shape EXCEPT !.up = up]
  BY Zenon
<1>4. /\ new.up = up /\ new.key = shape.key /\ new.kind = shape.kind /\ new.asset = shape.asset
      /\ shape.kind \in {"object", "array", "scalar"} /\ (shape.kind # "object" => shape.asset = "none")
  <2>1. PICK w1, w2, w3, w4, w5, w6, w7 :
          shape = [up |-> w1, key |-> w2, kind |-> w3, type |-> w4, has |-> w5, asset |-> w6, dest |-> w7]
    BY ManifestAssumption
  <2>2. shape.kind \in {"object", "array", "scalar"} /\ (shape.kind # "object" => shape.asset = "none")
    BY ManifestAssumption
  <2> QED BY <1>3, <2>1, <2>2
<1>5. tree' = Append(tree, new)
  BY <1>3 DEF MN!AddNode
<1>6. /\ DOMAIN tree' = 1..(k + 1)
      /\ \A n \in 1..k : tree'[n] = tree[n]
      /\ tree'[k + 1] = new
      /\ tree' \in Seq({tree'[n] : n \in DOMAIN tree'})
  <2>1. PICK R : R = {tree[n] : n \in DOMAIN tree} \cup {new}
    BY Zenon
  <2>2. tree \in Seq(R) /\ new \in R
    <3>1. \A n \in 1..k : tree[n] \in R
      BY <1>2, <2>1
    <3> QED BY <1>1, <1>2, <2>1, <3>1
  <2>3. tree' \in Seq(R) /\ DOMAIN tree' = 1..(k + 1) /\ tree'[k + 1] = new
        /\ \A n \in 1..k : tree'[n] = tree[n]
    BY <1>1, <1>2, <1>5, <2>2
  <2>4. PICK r : r = {tree'[n] : n \in DOMAIN tree'}
    BY Zenon
  <2>5. \A n \in DOMAIN tree' : tree'[n] \in r
    BY <2>4
  <2>6. tree' \in Seq(r)
    BY <1>2, <2>3, <2>5
  <2> QED BY <2>3, <2>4, <2>6
<1>7. /\ up = 0 => shape.key = "screen"
      /\ up # 0 => \/ tree[up].kind = "array" /\ shape.key = "item"
                   \/ tree[up].kind = "object" /\ shape.key \notin {"item", "screen"}
  BY DEF MN!AddNode
<1>8. ASSUME NEW n \in 1..(k + 1)
      PROVE /\ tree'[n].up \in 0..(n - 1)
            /\ tree'[n].kind \in {"object", "array", "scalar"}
            /\ tree'[n].kind # "object" => tree'[n].asset = "none"
            /\ tree'[n].up = 0 => tree'[n].key = "screen"
            /\ tree'[n].up # 0 =>
                 \/ tree'[tree'[n].up].kind = "array" /\ tree'[n].key = "item"
                 \/ tree'[tree'[n].up].kind = "object" /\ tree'[n].key \notin {"item", "screen"}
  <2>1. CASE n \in 1..k
    <3>1. tree'[n] = tree[n]
      BY <1>6, <2>1
    <3>2. /\ tree[n].up \in 0..(n - 1)
          /\ tree[n].kind \in {"object", "array", "scalar"}
          /\ tree[n].kind # "object" => tree[n].asset = "none"
          /\ tree[n].up = 0 => tree[n].key = "screen"
          /\ tree[n].up # 0 => \/ tree[tree[n].up].kind = "array" /\ tree[n].key = "item"
                               \/ tree[tree[n].up].kind = "object" /\ tree[n].key \notin {"item", "screen"}
      BY <1>2, <2>1, Zenon DEF MN!WellFormed
    <3>3. tree[n].up # 0 => tree'[tree[n].up] = tree[tree[n].up]
      <4>1. tree[n].up # 0 => tree[n].up \in 1..k
        BY <1>2, <2>1, <3>2
      <4> QED BY <1>6, <4>1
    <3> QED BY <3>1, <3>2, <3>3
  <2>2. CASE n = k + 1
    <3>1. tree'[n] = new
      BY <1>6, <2>2
    <3>2. up # 0 => tree'[up] = tree[up]
      BY <1>1, <1>2, <1>6
    <3>3. up \in 0..(n - 1)
      BY <1>1, <1>2, <2>2
    <3> QED BY <1>4, <1>7, <3>1, <3>2, <3>3
  <2> QED BY <1>2, <2>1, <2>2
<1> QED BY <1>6, <1>8 DEF MN!WellFormed

LEMMA ManifestStep == ASSUME ManifestInv, MN!Next PROVE ManifestInv'
<1>1. frame \in Frames /\ MN!WellFormed(tree) /\ asset \in [AssetIds -> {"own", "foreign", "template", "gone"}]
  BY DEF ManifestInv
<1>2. ASSUME NEW up \in 0..Len(tree), NEW shape \in Shapes, MN!AddNode(up, shape) PROVE ManifestInv'
  <2>1. MN!WellFormed(tree')
    BY <1>1, <1>2, ManifestGrows
  <2>2. frame' = frame /\ asset' = asset
    BY <1>2 DEF MN!AddNode
  <2>3. MN!WellFormed(tree)'
    BY <2>1 DEF MN!WellFormed
  <2> QED BY <1>1, <2>2, <2>3 DEF ManifestInv
<1>3. ASSUME NEW a \in AssetIds, MN!DeleteAsset(a) PROVE ManifestInv'
  <2>1. frame' = frame /\ tree' = tree /\ asset' = [asset EXCEPT ![a] = "gone"]
    BY <1>3 DEF MN!DeleteAsset
  <2>2. asset' \in [AssetIds -> {"own", "foreign", "template", "gone"}]
    BY <1>1, <2>1
  <2> QED BY <1>1, <2>1, <2>2 DEF ManifestInv, MN!WellFormed
<1> QED BY <1>2, <1>3 DEF MN!Next

LEMMA ManifestSame == ASSUME ManifestInv, UNCHANGED mnVars PROVE ManifestInv'
  BY DEF ManifestInv, mnVars, MN!WellFormed

-----------------------------------------------------------------------------
(* Reports *)

OrderRows == [created : Days \cup {-1}, total : Amounts \cup {0}, paidAt : Days \cup {-1}]
BookingRows == [created : Days \cup {-1}, status : RE!Statuses \cup {"none"}]
AddCalls == [op : {"add"}, w : Widgets, metric : RE!Metrics \cup {"unknown"}]
HistoryInv ==
    /\ today \in Days
    /\ order \in [Orders -> OrderRows] /\ booking \in [Bookings -> BookingRows]
    /\ \A o \in Orders : /\ order[o].created # -1 => order[o].total \in Amounts
                         /\ order[o].paidAt # -1 => order[o].created # -1 /\ order[o].paidAt <= today
    /\ \A e \in earned : e.order \in Orders /\ order[e.order].paidAt # -1 /\ e.at >= order[e.order].paidAt
DashboardInv ==
    /\ dashboard \in BOOLEAN
    /\ widget \in [Widgets -> RE!Metrics \cup {"none", "unknown"}]
    /\ \A w \in Widgets : widget[w] # "none" => dashboard
    /\ reporting \in [Requests -> {RE!Idle} \cup AddCalls]
ReportsInv == HistoryInv /\ DashboardInv

LEMMA MinOf == ASSUME NEW S, S \subseteq Nat, S # {}
  PROVE RE!Min(S) \in S /\ \A y \in S : RE!Min(S) <= y
<1>1. \E x \in S : \A y \in S : x <= y
  BY LeastOne
<1> QED BY <1>1, Zenon DEF RE!Min

LEMMA MaxOf == ASSUME NEW S, S \subseteq Nat, S # {}, IsFiniteSet(S)
  PROVE RE!Max(S) \in S /\ \A y \in S : y <= RE!Max(S)
<1> DEFINE Tops(T) == \E x \in T : \A y \in T : y <= x
           Bad == {n \in Nat : \E T \in SUBSET S : Cardinality(T) = n /\ T # {} /\ ~Tops(T)}
<1>0. \A T \in SUBSET S : IsFiniteSet(T) /\ Cardinality(T) \in Nat
  BY FS_Subset, FS_CardinalityType, Zenon
<1>1. Tops(S)
  <2>1. SUFFICES ASSUME ~Tops(S) PROVE FALSE
    OBVIOUS
  <2>2. Cardinality(S) \in Bad
    <3> HIDE DEF Tops
    <3> QED BY <1>0, <2>1
  <2>3. PICK n \in Bad : \A m \in Bad : n <= m
    <3> HIDE DEF Tops
    <3> QED BY <2>2, LeastOne, Zenon
  <2>4. PICK T \in SUBSET S : Cardinality(T) = n /\ T # {} /\ ~Tops(T)
    <3> HIDE DEF Tops
    <3> QED BY <2>3
  <2>5. PICK x, U : x = Pick(T) /\ U = T \ {x}
    BY Zenon
  <2>6. x \in T /\ U \in SUBSET S /\ Cardinality(U) = n - 1 /\ Cardinality(U) \in Nat
    BY <1>0, <2>4, <2>5, PickLess, Zenon
  <2>7. U # {} => Tops(U)
    <3>1. Cardinality(U) \notin Bad
      <4> HIDE DEF Bad
      <4>1. n \in Nat
        BY <1>0, <2>4
      <4> QED BY <2>3, <2>6, <4>1
    <3> HIDE DEF Tops
    <3> QED BY <2>6, <3>1
  <2>8. CASE U = {}
    <3>1. T = {x}
      BY <2>5, <2>6, <2>8, Zenon
    <3>2. Tops(T)
      BY <2>4, <3>1
    <3> QED BY <2>4, <3>2
  <2>9. CASE U # {}
    <3>1. PICK u \in U : \A y \in U : y <= u
      BY <2>7, <2>9
    <3>2. x \in Nat /\ u \in Nat /\ u \in T /\ \A y \in T : y \in Nat /\ (y = x \/ y \in U)
      BY <2>5, <2>6
    <3>3. CASE x <= u
      <4>1. \A y \in T : y <= u
        BY <3>1, <3>2, <3>3
      <4> QED BY <2>4, <3>2, <4>1
    <3>4. CASE u <= x
      <4>1. \A y \in T : y <= x
        BY <3>1, <3>2, <3>4
      <4> QED BY <2>4, <2>6, <4>1
    <3> QED BY <3>2, <3>3, <3>4
  <2> QED BY <2>8, <2>9
<1> QED BY <1>1, Zenon DEF RE!Max

LEMMA TwoOf == ASSUME NEW a \in Int, NEW b \in Int
  PROVE /\ RE!Max({a, b}) = IF a < b THEN b ELSE a
        /\ RE!Min({a, b}) = IF a < b THEN a ELSE b
  BY DEF RE!Max, RE!Min

LEMMA ReportsStart == ASSUME RE!Init PROVE ReportsInv
<1>1. today \in Days
  BY ReportsAssumption, MinOf, Zenon DEF RE!Init
<1>2. order = [o \in Orders |-> [created |-> -1, total |-> 0, paidAt |-> -1]] /\ earned = {}
  BY DEF RE!Init, RE!NoOrder, RE!Never
<1>3. HistoryInv
  <2>1. booking \in [Bookings -> BookingRows]
    BY DEF RE!Init, RE!Never, BookingRows
  <2>2. order \in [Orders -> OrderRows]
    BY <1>2 DEF OrderRows
  <2>3. \A o \in Orders : order[o].created = -1 /\ order[o].paidAt = -1
    BY <1>2
  <2> QED BY <1>1, <1>2, <2>1, <2>2, <2>3 DEF HistoryInv
<1>4. DashboardInv
  BY Zenon DEF RE!Init, DashboardInv
<1> QED BY <1>3, <1>4 DEF ReportsInv

LEMMA CreateOrderStep ==
    ASSUME HistoryInv, NEW o \in Orders, NEW n \in Amounts, RE!CreateOrder(o, n), today' = today
    PROVE  HistoryInv'
<1>1. PICK new : new = [created |-> today, total |-> n, paidAt |-> -1]
  BY Zenon
<1>2. order' = [order EXCEPT ![o] = new] /\ earned' = earned /\ booking' = booking /\ order[o].created = -1
  BY <1>1 DEF RE!CreateOrder, RE!Is, RE!Never
<1>3. today \in Days /\ new \in OrderRows /\ order \in [Orders -> OrderRows]
  BY <1>1 DEF HistoryInv, OrderRows
<1>4. order' \in [Orders -> OrderRows]
  BY <1>2, <1>3
<1>5. \A p \in Orders : order'[p] = IF p = o THEN new ELSE order[p]
  BY <1>2, <1>3
<1>6. new.total \in Amounts /\ new.paidAt = -1
  BY <1>1
<1>7. \A p \in Orders : /\ order'[p].created # -1 => order'[p].total \in Amounts
                        /\ order'[p].paidAt # -1 => order'[p].created # -1 /\ order'[p].paidAt <= today
  BY <1>5, <1>6 DEF HistoryInv
<1>8. \A e \in earned : e.order # o /\ e.order \in Orders
  BY <1>2 DEF HistoryInv
<1>9. \A e \in earned : e.order \in Orders /\ order'[e.order].paidAt # -1 /\ e.at >= order'[e.order].paidAt
  BY <1>5, <1>8 DEF HistoryInv
<1> QED BY <1>2, <1>3, <1>4, <1>7, <1>9 DEF HistoryInv

LEMMA PayOrderStep ==
    ASSUME HistoryInv, NEW o \in Orders, RE!PayOrder(o), today' = today
    PROVE  HistoryInv'
<1>1. PICK c, t : order[o] = [created |-> c, total |-> t, paidAt |-> -1] /\ c # -1
                  /\ c \in Days \cup {-1} /\ t \in Amounts \cup {0}
  BY DEF HistoryInv, OrderRows, RE!PayOrder, RE!Is, RE!Paid, RE!Never
<1>2. PICK new : new = [created |-> c, total |-> t, paidAt |-> today]
  BY Zenon
<1>3. PICK e : e = [type |-> "payment_received", order |-> o, amount |-> t, at |-> today]
  BY Zenon
<1>4. order' = [order EXCEPT ![o] = new] /\ earned' = earned \cup {e} /\ booking' = booking
  <2>1. new = [order[o] EXCEPT !.paidAt = today] /\ order[o].total = t
    BY <1>1, <1>2
  <2>2. order' = [order EXCEPT ![o] = [order[o] EXCEPT !.paidAt = today]]
    BY DEF RE!PayOrder, HistoryInv
  <2>3. earned' = earned \cup {e} /\ booking' = booking
    BY <1>3, <2>1 DEF RE!PayOrder
  <2> QED BY <2>1, <2>2, <2>3
<1>5. today \in Days /\ today \in Nat /\ new \in OrderRows /\ order \in [Orders -> OrderRows]
  BY <1>1, <1>2, ReportsAssumption DEF HistoryInv, OrderRows
<1>6. order' \in [Orders -> OrderRows]
  BY <1>4, <1>5
<1>7. \A p \in Orders : order'[p] = IF p = o THEN new ELSE order[p]
  BY <1>4, <1>5
<1>8. new.total \in Amounts /\ new.created # -1 /\ new.paidAt = today /\ today # -1 /\ today <= today
  BY <1>1, <1>2, <1>5 DEF HistoryInv
<1>9. \A p \in Orders : /\ order'[p].created # -1 => order'[p].total \in Amounts
                        /\ order'[p].paidAt # -1 => order'[p].created # -1 /\ order'[p].paidAt <= today
  BY <1>7, <1>8 DEF HistoryInv
<1>10. \A f \in earned : f.order # o /\ f.order \in Orders
  BY <1>1 DEF HistoryInv
<1>11. \A f \in earned : f.order \in Orders /\ order'[f.order].paidAt # -1 /\ f.at >= order'[f.order].paidAt
  BY <1>7, <1>10 DEF HistoryInv
<1>12. e.order \in Orders /\ order'[e.order].paidAt # -1 /\ e.at >= order'[e.order].paidAt
  BY <1>3, <1>5, <1>7, <1>8
<1> QED BY <1>4, <1>5, <1>6, <1>9, <1>11, <1>12 DEF HistoryInv

LEMMA RefundStep ==
    ASSUME HistoryInv, NEW o \in Orders, RE!RefundPayment(o), today' = today
    PROVE  HistoryInv'
<1>1. PICK e : e = [type |-> "refund_issued", order |-> o, amount |-> 0 - order[o].total, at |-> today]
  BY Zenon
<1>2. earned' = earned \cup {e} /\ order' = order /\ booking' = booking /\ order[o].paidAt # -1
  BY <1>1 DEF RE!RefundPayment, RE!Paid, RE!Never
<1>3. order[o].paidAt <= today /\ today \in Nat /\ order[o].paidAt \in Nat
  BY <1>2, ReportsAssumption, Zenon DEF HistoryInv, OrderRows
<1>4. e.order \in Orders /\ order[e.order].paidAt # -1 /\ e.at >= order[e.order].paidAt
  BY <1>1, <1>2, <1>3
<1> QED BY <1>2, <1>4 DEF HistoryInv

LEMMA BookStep ==
    ASSUME HistoryInv, NEW b \in Bookings, NEW s \in RE!Statuses, RE!BookOrMove(b, s), today' = today
    PROVE  HistoryInv'
<1>1. PICK new : new = [created |-> IF booking[b].created = -1 THEN today ELSE booking[b].created, status |-> s]
  BY Zenon
<1>2. booking' = [booking EXCEPT ![b] = new] /\ order' = order /\ earned' = earned
  BY <1>1 DEF RE!BookOrMove, RE!Never, HistoryInv
<1>3. new \in BookingRows
  BY <1>1 DEF BookingRows, HistoryInv
<1>4. booking' \in [Bookings -> BookingRows]
  BY <1>2, <1>3 DEF HistoryInv
<1> QED BY <1>2, <1>4 DEF HistoryInv

LEMMA TickStep == ASSUME HistoryInv, RE!Tick PROVE HistoryInv'
<1>1. PICK S : S = {d \in Days : d > today}
  BY Zenon
<1>2. S \subseteq Nat /\ S # {} /\ S \subseteq Days
  BY <1>1, ReportsAssumption, Zenon DEF RE!Tick
<1>3. today' \in S
  BY <1>1, <1>2, MinOf DEF RE!Tick
<1>4. today' \in Days /\ today' > today /\ today' \in Nat /\ today \in Nat
  BY <1>1, <1>2, <1>3, ReportsAssumption DEF HistoryInv
<1>5. order' = order /\ earned' = earned /\ booking' = booking
  BY DEF RE!Tick, RE!orderVars
<1>6. \A o \in Orders : order[o].paidAt # -1 => order[o].created # -1 /\ order[o].paidAt <= today'
  <2>1. \A o \in Orders : order[o].paidAt # -1 => order[o].paidAt \in Nat
    BY ReportsAssumption, Zenon DEF HistoryInv, OrderRows
  <2> QED BY <1>4, <2>1 DEF HistoryInv
<1> QED BY <1>4, <1>5, <1>6 DEF HistoryInv

LEMMA HistoryStep == ASSUME ReportsInv, RE!HistoryNext PROVE ReportsInv'
<1>1. HistoryInv /\ DashboardInv
  BY DEF ReportsInv
<1>2. dashboard' = dashboard /\ widget' = widget /\ reporting' = reporting
  BY DEF RE!HistoryNext, RE!Tick, RE!dashboardVars
<1>3. DashboardInv'
  BY <1>1, <1>2 DEF DashboardInv
<1>4. HistoryInv'
  <2>1. CASE RE!Tick
    BY <1>1, <2>1, TickStep
  <2>2. CASE today' = today /\ \E o \in Orders : \E n \in Amounts : RE!CreateOrder(o, n)
    BY <1>1, <2>2, CreateOrderStep
  <2>3. CASE today' = today /\ \E o \in Orders : RE!PayOrder(o) \/ RE!RefundPayment(o)
    BY <1>1, <2>3, PayOrderStep, RefundStep
  <2>4. CASE today' = today /\ \E b \in Bookings : \E s \in RE!Statuses : RE!BookOrMove(b, s)
    BY <1>1, <2>4, BookStep
  <2> QED BY <2>1, <2>2, <2>3, <2>4 DEF RE!HistoryNext
<1> QED BY <1>3, <1>4 DEF ReportsInv

LEMMA DashboardStep == ASSUME ReportsInv, RE!DashboardNext PROVE ReportsInv'
<1>1. HistoryInv /\ DashboardInv
  BY DEF ReportsInv
<1>2. today' = today /\ order' = order /\ earned' = earned /\ booking' = booking
  BY DEF RE!DashboardNext, RE!orderVars
<1>3. HistoryInv'
  BY <1>1, <1>2 DEF HistoryInv
<1>4. ASSUME RE!CreateDashboard PROVE DashboardInv'
  <2>1. dashboard' = TRUE /\ widget' = widget /\ reporting' = reporting
    BY <1>4, Zenon DEF RE!CreateDashboard
  <2>2. dashboard' \in BOOLEAN /\ \A w \in Widgets : widget'[w] # "none" => dashboard'
    BY <2>1
  <2> QED BY <1>1, <2>1, <2>2 DEF DashboardInv
<1>5. ASSUME RE!RemoveDashboard PROVE DashboardInv'
  <2>1. dashboard' = FALSE /\ widget' = [w \in Widgets |-> "none"] /\ reporting' = reporting
    BY <1>5, Zenon DEF RE!RemoveDashboard
  <2>2. widget' \in [Widgets -> RE!Metrics \cup {"none", "unknown"}] /\ \A w \in Widgets : widget'[w] = "none"
    BY <2>1
  <2>3. dashboard' \in BOOLEAN /\ \A w \in Widgets : widget'[w] # "none" => dashboard'
    BY <2>1, <2>2, Zenon
  <2> QED BY <1>1, <2>1, <2>2, <2>3 DEF DashboardInv
<1>6. ASSUME NEW q \in Requests, NEW w \in Widgets, NEW m \in RE!Metrics \cup {"unknown"},
             RE!FindDashboard(q, w, m)
      PROVE DashboardInv'
  <2>1. PICK new : new = [op |-> "add", w |-> w, metric |-> m]
    BY Zenon
  <2>2. reporting' = [reporting EXCEPT ![q] = new] /\ dashboard' = dashboard /\ widget' = widget
    BY <1>6, <2>1 DEF RE!FindDashboard
  <2>3. new \in AddCalls
    BY <2>1 DEF AddCalls
  <2>4. reporting' \in [Requests -> {RE!Idle} \cup AddCalls]
    BY <1>1, <2>2, <2>3 DEF DashboardInv
  <2> QED BY <1>1, <2>2, <2>4 DEF DashboardInv
<1>7. ASSUME NEW q \in Requests, RE!AddWidget(q) PROVE DashboardInv'
  <2>1. reporting[q] \in AddCalls
    BY <1>1, <1>7 DEF RE!AddWidget, DashboardInv, RE!Idle
  <2>2. PICK w, m : w = reporting[q].w /\ m = reporting[q].metric
    OBVIOUS
  <2>3. w \in Widgets /\ m \in RE!Metrics \cup {"none", "unknown"}
    BY <2>1, <2>2 DEF AddCalls
  <2>4. /\ widget' = IF dashboard /\ widget[w] = "none" THEN [widget EXCEPT ![w] = m] ELSE widget
        /\ reporting' = [reporting EXCEPT ![q] = RE!Idle] /\ dashboard' = dashboard
    BY <1>7, <2>2 DEF RE!AddWidget
  <2>5. reporting' \in [Requests -> {RE!Idle} \cup AddCalls]
    BY <1>1, <2>4 DEF DashboardInv
  <2>6. /\ widget' \in [Widgets -> RE!Metrics \cup {"none", "unknown"}]
        /\ \A v \in Widgets : widget'[v] # "none" => dashboard
    BY <1>1, <2>3, <2>4 DEF DashboardInv
  <2> QED BY <1>1, <2>4, <2>5, <2>6 DEF DashboardInv
<1>8. ASSUME NEW w \in Widgets, NEW m \in RE!Metrics, RE!UpdateWidget(w, m) PROVE DashboardInv'
  BY <1>1, <1>8 DEF RE!UpdateWidget, DashboardInv
<1>9. ASSUME NEW w \in Widgets, RE!RemoveWidget(w) PROVE DashboardInv'
  BY <1>1, <1>9 DEF RE!RemoveWidget, DashboardInv
<1>10. DashboardInv'
  <2>1. \/ RE!CreateDashboard \/ RE!RemoveDashboard
        \/ \E q \in Requests : \E w \in Widgets : \E m \in RE!Metrics \cup {"unknown"} : RE!FindDashboard(q, w, m)
        \/ \E q \in Requests : RE!AddWidget(q)
        \/ \E w \in Widgets : \E m \in RE!Metrics : RE!UpdateWidget(w, m)
        \/ \E w \in Widgets : RE!RemoveWidget(w)
    BY DEF RE!DashboardNext
  <2> QED BY <1>4, <1>5, <1>6, <1>7, <1>8, <1>9, <2>1, Zenon
<1> QED BY <1>3, <1>10 DEF ReportsInv

LEMMA ReportsSame == ASSUME ReportsInv, UNCHANGED reVars PROVE ReportsInv'
  BY DEF ReportsInv, HistoryInv, DashboardInv, reVars

-----------------------------------------------------------------------------
(* The reports agree *)

LEMMA SumAs == ASSUME NEW S, NEW f PROVE RE!SumOver(S, f) = SumFunctionOnSet(f, S)
  BY DEF RE!SumOver, RE!SumFunctionOnSet, RE!FoldFunctionOnSet, RE!MapThenFoldSet,
         SumFunctionOnSet, FoldFunctionOnSet, MapThenFoldSet

LEMMA CountAs == ASSUME NEW S PROVE RE!Cardinality(S) = Cardinality(S)
  BY DEF RE!Cardinality, Cardinality

LEMMA DaysWithin == ASSUME HistoryInv
  PROVE /\ RE!Min(Days) \in Days /\ RE!Max(Days) \in Days
        /\ \A o \in Orders :
             /\ order[o].created # -1 => RE!Min(Days) <= order[o].created /\ order[o].created <= RE!Max(Days)
             /\ order[o].paidAt # -1 => RE!Min(Days) <= order[o].paidAt /\ order[o].paidAt <= RE!Max(Days)
<1>1. \A o \in Orders : /\ order[o].created # -1 => order[o].created \in Days
                        /\ order[o].paidAt # -1 => order[o].paidAt \in Days
  BY DEF HistoryInv, OrderRows
<1>2. Days \subseteq Nat /\ Days # {} /\ IsFiniteSet(Days)
  BY ReportsAssumption
<1>3. RE!Min(Days) \in Days /\ \A d \in Days : RE!Min(Days) <= d
  BY <1>2, MinOf, Zenon
<1>4. RE!Max(Days) \in Days /\ \A d \in Days : d <= RE!Max(Days)
  BY <1>2, MaxOf, Zenon
<1> QED BY <1>1, <1>3, <1>4

\* Every set of orders is finite, and its totals add up to a number.
LEMMA OrderSets == ASSUME HistoryInv, NEW from, NEW to
  PROVE /\ RE!PaidCreatedIn(from, to) \subseteq RE!CreatedIn(from, to)
        /\ RE!CreatedIn(from, to) \subseteq Orders
        /\ \A S \in SUBSET RE!CreatedIn(from, to) :
             /\ IsFiniteSet(S) /\ Cardinality(S) \in Nat
             /\ \A o \in S : RE!Total[o] \in Nat /\ RE!One[o] = 1
<1>1. RE!PaidCreatedIn(from, to) \subseteq RE!CreatedIn(from, to) /\ RE!CreatedIn(from, to) \subseteq Orders
  BY DEF RE!PaidCreatedIn, RE!CreatedIn
<1>2. \A o \in RE!CreatedIn(from, to) : RE!Total[o] \in Nat /\ RE!One[o] = 1
  <2>1. \A o \in RE!CreatedIn(from, to) : o \in Orders /\ order[o].created # -1
    BY DEF RE!CreatedIn, RE!Is, RE!Never
  <2>2. \A o \in Orders : order[o].created # -1 => order[o].total \in Nat
    BY ReportsAssumption, Zenon DEF HistoryInv
  <2> QED BY <2>1, <2>2 DEF RE!Total, RE!One
<1>3. IsFiniteSet(Orders)
  BY ReportsAssumption
<1> QED BY <1>1, <1>2, <1>3, FS_Subset, FS_CardinalityType

\* The buckets of a set of orders add up to the orders.
LEMMA BucketsAddUp == ASSUME NEW S, IsFiniteSet(S), NEW fun, \A o \in S : fun[o] \in Nat, NEW groupBy
  PROVE RE!SumOfValues(RE!GroupByPeriod(S, fun, groupBy)) = RE!SumOver(S, fun)
<1>1. PICK kind : kind = [o \in S |-> RE!PeriodKey(order[o].created, groupBy)]
  BY Zenon
<1>2. PICK K : K = {kind[o] : o \in S}
  BY Zenon
<1>3. PICK group : group = [k \in K |-> SumFunctionOnSet(fun, {o \in S : kind[o] = k})]
  BY Zenon
<1>4. RE!GroupByPeriod(S, fun, groupBy) = group
  <2>1. {RE!PeriodKey(order[o].created, groupBy) : o \in S} = K
    BY <1>1, <1>2
  <2>2. \A k : {o \in S : RE!PeriodKey(order[o].created, groupBy) = k} = {o \in S : kind[o] = k}
    BY <1>1
  <2>3. RE!GroupByPeriod(S, fun, groupBy)
          = [k \in K |-> RE!SumOver({o \in S : RE!PeriodKey(order[o].created, groupBy) = k}, fun)]
    BY <2>1 DEF RE!GroupByPeriod
  <2>4. \A k \in K : RE!SumOver({o \in S : RE!PeriodKey(order[o].created, groupBy) = k}, fun)
                       = SumFunctionOnSet(fun, {o \in S : kind[o] = k})
    BY <2>2, SumAs, Zenon
  <2> QED BY <1>3, <2>3, <2>4
<1>5. SumFunctionOnSet(group, K) = SumFunctionOnSet(fun, S)
  BY <1>2, <1>3, SumOfGroups
<1>6. RE!SumOfValues(group) = SumFunctionOnSet(group, K)
  BY <1>3, SumAs DEF RE!SumOfValues
<1> QED BY <1>4, <1>5, <1>6, SumAs

LEMMA TrendsAgree == ASSUME HistoryInv, NEW from, NEW to, NEW groupBy
  PROVE LET all == RE!PlatformAnalytics(groupBy, from, to)
        IN  /\ RE!SumOfValues(all.revenueTrend) = all.gmv
            /\ all.gmv = RE!PlatformRevenue(from, to).revenue
            /\ all.revenueTrend = RE!RevenueTrend(groupBy, from, to)
            /\ RE!SumOfValues(RE!OrderVolume(groupBy, from, to)) = RE!MerchantAnalytics(from, to).orderCount
            /\ RE!WidgetValue("revenue_trend", groupBy, from, to) = all.gmv
<1>1. PICK paid, made : paid = RE!PaidCreatedIn(from, to) /\ made = RE!CreatedIn(from, to)
  OBVIOUS
<1>2. /\ IsFiniteSet(paid) /\ \A o \in paid : RE!Total[o] \in Nat
      /\ IsFiniteSet(made) /\ \A o \in made : RE!One[o] = 1 /\ RE!One[o] \in Nat
  BY <1>1, OrderSets
<1>3. /\ RE!PlatformAnalytics(groupBy, from, to).revenueTrend = RE!GroupByPeriod(paid, RE!Total, groupBy)
      /\ RE!PlatformAnalytics(groupBy, from, to).gmv = RE!SumOver(paid, RE!Total)
  BY <1>1 DEF RE!PlatformAnalytics
<1>4. RE!RevenueTrend(groupBy, from, to) = RE!GroupByPeriod(paid, RE!Total, groupBy)
  BY <1>1 DEF RE!RevenueTrend
<1>5. RE!PlatformRevenue(from, to).revenue = RE!SumOver(paid, RE!Total)
  BY <1>1 DEF RE!PlatformRevenue
<1>6. RE!SumOfValues(RE!GroupByPeriod(paid, RE!Total, groupBy)) = RE!SumOver(paid, RE!Total)
  BY <1>2, BucketsAddUp
<1>7. RE!SumOfValues(RE!OrderVolume(groupBy, from, to)) = RE!MerchantAnalytics(from, to).orderCount
  <2>1. RE!OrderVolume(groupBy, from, to) = RE!GroupByPeriod(made, RE!One, groupBy)
    BY <1>1 DEF RE!OrderVolume
  <2>2. RE!SumOfValues(RE!GroupByPeriod(made, RE!One, groupBy)) = RE!SumOver(made, RE!One)
    BY <1>2, BucketsAddUp
  <2>3. RE!SumOver(made, RE!One) = Cardinality(made)
    BY <1>2, SumAs, SumOfOnes
  <2>4. RE!MerchantAnalytics(from, to).orderCount = Cardinality(made)
    BY <1>1, CountAs DEF RE!MerchantAnalytics
  <2> QED BY <2>1, <2>2, <2>3, <2>4
<1>8. RE!WidgetValue("revenue_trend", groupBy, from, to) = RE!SumOfValues(RE!RevenueTrend(groupBy, from, to))
  BY DEF RE!WidgetValue
<1> QED BY <1>3, <1>4, <1>5, <1>6, <1>7, <1>8

LEMMA WeeksBeginOnMonday == ASSUME NEW t \in Nat
  PROVE RE!WeekKey(t) % 7 = 1 /\ RE!WeekKey(t) <= t /\ t < RE!WeekKey(t) + 7
<1>1. PICK q \in Nat, r \in 0..6 : t = 7 * q + r /\ t % 7 = r
  <2>1. t = 7 * (t \div 7) + (t % 7) /\ t \div 7 \in Nat /\ t % 7 \in 0..6
    OBVIOUS
  <2> QED BY <2>1
<1>2. RE!DayOfWeek(t) = r
  BY <1>1 DEF RE!DayOfWeek
<1>3. CASE r = 0
  <2>1. RE!WeekKey(t) = 7 * q - 6
    BY <1>1, <1>2, <1>3 DEF RE!WeekKey
  <2>2. (7 * q - 6) % 7 = 1
    OBVIOUS
  <2> QED BY <1>1, <1>3, <2>1, <2>2
<1>4. CASE r # 0
  <2>1. RE!WeekKey(t) = 7 * q + 1
    BY <1>1, <1>2, <1>4 DEF RE!WeekKey
  <2>2. (7 * q + 1) % 7 = 1
    OBVIOUS
  <2> QED BY <1>1, <1>4, <2>1, <2>2
<1> QED BY <1>3, <1>4

LEMMA RevenueAgrees == ASSUME HistoryInv
  PROVE RE!RevenueReport(RE!Min(Days), RE!Max(Days)).totalRevenue
          = RE!PlatformRevenue(RE!Min(Days), RE!Max(Days)).revenue
<1>1. PICK first, last : first = RE!Min(Days) /\ last = RE!Max(Days)
  OBVIOUS
<1>2. RE!PaidIn(first, last) = {o \in Orders : order[o].paidAt # -1}
  BY <1>1, DaysWithin DEF RE!PaidIn, RE!Within, RE!Never
<1>3. RE!PaidCreatedIn(first, last) = {o \in Orders : order[o].paidAt # -1}
  <2>1. \A o \in Orders : order[o].paidAt # -1 => order[o].created # -1
    BY DEF HistoryInv
  <2> QED BY <1>1, <2>1, DaysWithin DEF RE!PaidCreatedIn, RE!CreatedIn, RE!Is, RE!Paid, RE!Within, RE!Never
<1>4. RE!RevenueReport(first, last).totalRevenue = RE!SumOver(RE!PaidIn(first, last), RE!Total)
  BY DEF RE!RevenueReport
<1>5. RE!PlatformRevenue(first, last).revenue = RE!SumOver(RE!PaidCreatedIn(first, last), RE!Total)
  BY DEF RE!PlatformRevenue
<1> QED BY <1>1, <1>2, <1>3, <1>4, <1>5

LEMMA BookingsAddUp == ASSUME NEW from, NEW to
  PROVE LET b == RE!BookingAnalytics(from, to) IN b.confirmed + b.cancelled + b.completed <= b.total
<1>1. PICK in, A, B, C :
        /\ in = {b \in Bookings : RE!Within(booking[b].created, from, to)}
        /\ A = {b \in in : booking[b].status = "confirmed"}
        /\ B = {b \in in : booking[b].status = "cancelled"}
        /\ C = {b \in in : booking[b].status = "completed"}
  BY Zenon
<1>2. /\ RE!BookingAnalytics(from, to).total = Cardinality(in)
      /\ RE!BookingAnalytics(from, to).confirmed = Cardinality(A)
      /\ RE!BookingAnalytics(from, to).cancelled = Cardinality(B)
      /\ RE!BookingAnalytics(from, to).completed = Cardinality(C)
  BY <1>1, CountAs DEF RE!BookingAnalytics
<1>3. IsFiniteSet(in)
  BY <1>1, ReportsAssumption, FS_Subset
<1>4. IsFiniteSet(A) /\ IsFiniteSet(B) /\ IsFiniteSet(C) /\ IsFiniteSet(A \cup B)
  BY <1>1, <1>3, FS_Subset
<1>5. A \cap B = {} /\ (A \cup B) \cap C = {} /\ (A \cup B) \cup C \subseteq in
  BY <1>1
<1>6. Cardinality({}) = 0
  BY FS_EmptySet
<1>7. Cardinality(A \cup B) = Cardinality(A) + Cardinality(B) - Cardinality(A \cap B)
  BY <1>4, FS_Union
<1>8. Cardinality((A \cup B) \cup C) = Cardinality(A \cup B) + Cardinality(C) - Cardinality((A \cup B) \cap C)
  BY <1>4, FS_Union
<1>9. Cardinality((A \cup B) \cup C) <= Cardinality(in)
  BY <1>3, <1>5, FS_Subset
<1>10. Cardinality(A) \in Nat /\ Cardinality(B) \in Nat /\ Cardinality(C) \in Nat /\ Cardinality(in) \in Nat
  BY <1>3, <1>4, FS_CardinalityType
<1>11. Cardinality((A \cup B) \cup C) = Cardinality(A) + Cardinality(B) + Cardinality(C)
  <2>1. Cardinality(A \cup B) = Cardinality(A) + Cardinality(B)
    <3>1. Cardinality(A \cap B) = 0
      BY <1>5, <1>6
    <3> QED BY <1>7, <1>10, <3>1
  <2>2. Cardinality((A \cup B) \cup C) = Cardinality(A \cup B) + Cardinality(C) - 0
    <3>1. Cardinality((A \cup B) \cap C) = 0
      BY <1>5, <1>6
    <3> QED BY <1>8, <3>1
  <2> QED BY <1>10, <2>1, <2>2
<1>12. Cardinality(A) + Cardinality(B) + Cardinality(C) <= Cardinality(in)
  BY <1>9, <1>11
<1>13. Cardinality(A) + Cardinality(B) + Cardinality(C)
         = RE!BookingAnalytics(from, to).confirmed + RE!BookingAnalytics(from, to).cancelled
             + RE!BookingAnalytics(from, to).completed
  BY <1>2
<1> QED BY <1>2, <1>12, <1>13

LEMMA SummaryAgrees ==
    ASSUME HistoryInv, NEW from, NEW to, NEW S \in RE!Recent(from, to)
    PROVE  LET short == RE!AnalyticsSummary(S)
           IN  /\ short.ordersCount = RE!Min({Take, RE!MerchantAnalytics(from, to).orderCount})
               /\ short.totalRevenue <= RE!PlatformRevenue(from, to).revenue
<1>1. PICK made, paid, few : /\ made = RE!CreatedIn(from, to) /\ paid = RE!PaidCreatedIn(from, to)
                             /\ few = {o \in S : RE!Paid(o)}
  BY Zenon
<1>2. S \in SUBSET made /\ RE!Cardinality(S) = RE!Min({Take, RE!Cardinality(made)})
  BY <1>1 DEF RE!Recent
<1>3. RE!AnalyticsSummary(S).ordersCount = RE!Cardinality(S)
      /\ RE!AnalyticsSummary(S).totalRevenue = RE!SumOver(few, RE!Total)
  BY <1>1 DEF RE!AnalyticsSummary
<1>4. RE!MerchantAnalytics(from, to).orderCount = RE!Cardinality(made)
  BY <1>1 DEF RE!MerchantAnalytics
<1>5. RE!PlatformRevenue(from, to).revenue = RE!SumOver(paid, RE!Total)
  BY <1>1 DEF RE!PlatformRevenue
<1>6. few \in SUBSET paid
  BY <1>1, <1>2 DEF RE!PaidCreatedIn
<1>7. IsFiniteSet(paid) /\ \A o \in paid : RE!Total[o] \in Nat
  BY <1>1, OrderSets
<1>8. SumFunctionOnSet(RE!Total, few) <= SumFunctionOnSet(RE!Total, paid)
  BY <1>6, <1>7, SumAtMost
<1> QED BY <1>2, <1>3, <1>4, <1>5, <1>8, SumAs

LEMMA ReportsAgreeHolds == ASSUME HistoryInv PROVE RE!ReportsAgree
<1>1. \A from \in Days : \A groupBy \in {"day", "week", "month"} :
         LET all == RE!PlatformAnalytics(groupBy, from, RE!Max(Days)) IN
         /\ RE!SumOfValues(all.revenueTrend) = all.gmv
         /\ all.gmv = RE!PlatformRevenue(from, RE!Max(Days)).revenue
         /\ all.revenueTrend = RE!RevenueTrend(groupBy, from, RE!Max(Days))
         /\ RE!SumOfValues(RE!OrderVolume(groupBy, from, RE!Max(Days)))
              = RE!MerchantAnalytics(from, RE!Max(Days)).orderCount
         /\ RE!WidgetValue("revenue_trend", groupBy, from, RE!Max(Days)) = all.gmv
  BY TrendsAgree
<1>2. \A o \in {p \in Orders : RE!Is(p)} :
         RE!WeekKey(order[o].created) % 7 = 1 /\ RE!WeekKey(order[o].created) <= order[o].created
         /\ order[o].created < RE!WeekKey(order[o].created) + 7
  <2>1. \A o \in {p \in Orders : RE!Is(p)} : order[o].created \in Nat
    BY ReportsAssumption, Zenon DEF HistoryInv, OrderRows, RE!Is, RE!Never
  <2> QED BY <2>1, WeeksBeginOnMonday
<1>3. LET b == RE!BookingAnalytics(RE!Min(Days), RE!Max(Days))
      IN  b.confirmed + b.cancelled + b.completed <= b.total
  BY BookingsAddUp
<1>4. \A S \in RE!Recent(RE!Min(Days), RE!Max(Days)) :
         LET short == RE!AnalyticsSummary(S) IN
         /\ short.ordersCount = RE!Min({Take, RE!MerchantAnalytics(RE!Min(Days), RE!Max(Days)).orderCount})
         /\ short.totalRevenue <= RE!PlatformRevenue(RE!Min(Days), RE!Max(Days)).revenue
  BY SummaryAgrees
<1> QED BY <1>1, <1>2, <1>3, <1>4, RevenueAgrees, Zenon DEF RE!ReportsAgree

\* A page of L rows holds the rows after those of the pages before it.
Cut(list, n, L, k) == SubSeq(list, k * L + 1, IF n < k * L + L THEN n ELSE k * L + L)
Shows(rows, i) == \E j \in DOMAIN rows : rows[j] = i
Listed(list, n) == list = [i \in 1..n |-> i]
LEMMA PageHolds ==
    ASSUME NEW n \in Nat, NEW L \in {1, 2, 3}, NEW k \in Nat, NEW list, Listed(list, n)
    PROVE  /\ n <= k * L => Cut(list, n, L, k) = <<>>
           /\ \A i \in 1..n : Shows(Cut(list, n, L, k), i) <=> (k * L < i /\ i <= k * L + L)
<1>a. PICK rows : rows = SubSeq(list, k * L + 1, IF n < k * L + L THEN n ELSE k * L + L)
  BY Zenon
<1>b. SUFFICES /\ n <= k * L => rows = <<>>
               /\ \A i \in 1..n : (\E j \in DOMAIN rows : rows[j] = i) <=> (k * L < i /\ i <= k * L + L)
  BY <1>a, Zenon DEF Cut, Shows
<1>1. PICK from, to : from = k * L + 1 /\ to = IF n < k * L + L THEN n ELSE k * L + L
  OBVIOUS
<1>2. from \in Nat \ {0} /\ to \in Nat /\ to <= n /\ to = (IF n < from + L - 1 THEN n ELSE from + L - 1) /\ k * L \in Nat
  BY <1>1
<1>3. list = [i \in 1..n |-> i] /\ list \in Seq(Nat) /\ Len(list) = n
  BY DEF Listed
<1>4. CASE n <= k * L
  <2>1. from > to
    BY <1>1, <1>2, <1>4
  <2>2. rows = <<>>
    BY <1>a, <1>1, <1>2, <1>3, <2>1
  <2>3. \A i \in 1..n : ~(k * L < i)
    BY <1>2, <1>4
  <2> QED BY <2>2, <2>3
<1>5. CASE ~(n <= k * L)
  <2>1. from <= to
    BY <1>1, <1>2, <1>5
  <2>2. DOMAIN rows = 1..(to - from + 1) /\ \A j \in 1..(to - from + 1) : rows[j] = list[from + j - 1]
    BY <1>a, <1>1, <1>2, <1>3, <2>1
  <2>3. \A j \in 1..(to - from + 1) : rows[j] = from + j - 1
    <3> SUFFICES ASSUME NEW j \in 1..(to - from + 1) PROVE rows[j] = from + j - 1
      OBVIOUS
    <3>1. from + j - 1 \in 1..n
      BY <1>2
    <3>2. list[from + j - 1] = from + j - 1
      BY <1>3, <3>1
    <3> QED BY <2>2, <3>2
  <2>4. ASSUME NEW i \in 1..n
        PROVE (\E j \in DOMAIN rows : rows[j] = i) <=> (k * L < i /\ i <= k * L + L)
    <3>1. (\E j \in DOMAIN rows : rows[j] = i) => k * L < i /\ i <= k * L + L
      BY <1>1, <1>2, <2>2, <2>3
    <3>2. ASSUME k * L < i, i <= k * L + L PROVE \E j \in DOMAIN rows : rows[j] = i
      <4>1. i - from + 1 \in 1..(to - from + 1)
        BY <1>1, <1>2, <3>2
      <4>2. PICK j \in 1..(to - from + 1) : j = i - from + 1
        BY <4>1
      <4>3. rows[j] = i
        <5>1. from \in Int /\ i \in Int /\ j \in Int
          BY <1>2, <4>2
        <5> QED BY <2>3, <4>2, <5>1
      <4> QED BY <2>2, <4>3
    <3> QED BY <3>1, <3>2
  <2> QED BY <1>5, <2>4
<1> QED BY <1>4, <1>5

\* Every row is on one page.
LEMMA OnePage ==
    ASSUME NEW n \in Nat, NEW L \in {1, 2, 3}, NEW i \in 1..n
    PROVE  \E p \in 1..((n + L - 1) \div L) :
             \A k \in 1..((n + L - 1) \div L) : ((k - 1) * L < i /\ i <= (k - 1) * L + L) <=> k = p
<1>1. CASE L = 1
  <2>1. /\ i \in 1..((n + 1 - 1) \div 1)
        /\ \A k \in 1..((n + 1 - 1) \div 1) : ((k - 1) * 1 < i /\ i <= (k - 1) * 1 + 1) <=> k = i
    OBVIOUS
  <2> QED BY <1>1, <2>1
<1>2. CASE L = 2
  <2>1. PICK p \in Nat : p = (i - 1) \div 2 + 1
    OBVIOUS
  <2>2. p \in 1..((n + 2 - 1) \div 2)
    BY <2>1
  <2>3. \A k \in 1..((n + 2 - 1) \div 2) : ((k - 1) * 2 < i /\ i <= (k - 1) * 2 + 2) <=> k = p
    BY <2>1
  <2> QED BY <1>2, <2>2, <2>3, Zenon
<1>3. CASE L = 3
  <2>1. PICK p \in Nat : p = (i - 1) \div 3 + 1
    OBVIOUS
  <2>2. p \in 1..((n + 3 - 1) \div 3)
    BY <2>1
  <2>3. \A k \in 1..((n + 3 - 1) \div 3) : ((k - 1) * 3 < i /\ i <= (k - 1) * 3 + 3) <=> k = p
    BY <2>1
  <2> QED BY <1>3, <2>2, <2>3, Zenon
<1> QED BY <1>1, <1>2, <1>3

LEMMA PagesCover ==
    ASSUME NEW n \in Nat, NEW list, list = [i \in 1..n |-> i], NEW limit \in -1..3
    PROVE  LET pages == RE!TotalPages(Len(list), limit) IN
           /\ \A i \in DOMAIN list : RE!Cardinality({p \in 1..pages :
                 \E j \in DOMAIN RE!PageOf(list, p, limit) : RE!PageOf(list, p, limit)[j] = i}) = 1
           /\ RE!PageOf(list, pages + 1, limit) = <<>>
           /\ RE!PageOf(list, 0, limit) = RE!PageOf(list, 1, limit)
<1>1. PICK L : L = RE!SafeLimit(limit)
  OBVIOUS
<1>2. L \in {1, 2, 3}
  <2>1. RE!Max({1, limit}) = IF 1 < limit THEN limit ELSE 1
    <3>1. limit \in Int /\ 1 \in Int
      OBVIOUS
    <3> QED BY <3>1, TwoOf, Zenon
  <2>2. PICK m \in Int : m = RE!Max({1, limit})
    BY <2>1
  <2>3. RE!Min({100, m}) = IF 100 < m THEN 100 ELSE m
    <3>1. m \in Int /\ 100 \in Int
      OBVIOUS
    <3> QED BY <3>1, TwoOf, Zenon
  <2> QED BY <1>1, <2>1, <2>2, <2>3 DEF RE!SafeLimit
<1>3. DOMAIN list = 1..n /\ Len(list) = n
  OBVIOUS
<1>4. PICK pages : pages = (n + L - 1) \div L
  OBVIOUS
<1>5. RE!TotalPages(Len(list), limit) = pages
  BY <1>1, <1>3, <1>4 DEF RE!TotalPages
<1>6. pages \in Nat /\ n <= pages * L
  BY <1>2, <1>4
<1>7. \A p \in Nat \ {0} : RE!PageOf(list, p, limit)
        = SubSeq(list, (p - 1) * L + 1, IF n < (p - 1) * L + L THEN n ELSE (p - 1) * L + L)
  <2> SUFFICES ASSUME NEW p \in Nat \ {0}
               PROVE RE!PageOf(list, p, limit)
                       = SubSeq(list, (p - 1) * L + 1, IF n < (p - 1) * L + L THEN n ELSE (p - 1) * L + L)
    BY Zenon
  <2>1. RE!SafePage(p) = p
    BY TwoOf DEF RE!SafePage
  <2>2. RE!Skip(p, limit) = (p - 1) * L
    BY <1>1, <2>1 DEF RE!Skip
  <2>3. (p - 1) * L + L \in Int
    BY <1>2
  <2>4. RE!Min({n, (p - 1) * L + L}) = IF n < (p - 1) * L + L THEN n ELSE (p - 1) * L + L
    <3>1. PICK x \in Int : x = (p - 1) * L + L
      BY <2>3
    <3>2. n \in Int
      OBVIOUS
    <3>3. RE!Min({n, x}) = IF n < x THEN n ELSE x
      BY <3>2, TwoOf, Zenon
    <3> QED BY <3>1, <3>3
  <2> QED BY <1>1, <1>3, <2>2, <2>4, Zenon DEF RE!PageOf
<1>8. RE!PageOf(list, 0, limit) = RE!PageOf(list, 1, limit)
  <2>1. RE!SafePage(0) = 1 /\ RE!SafePage(1) = 1
    BY TwoOf DEF RE!SafePage
  <2> QED BY <2>1, Zenon DEF RE!PageOf, RE!Skip
<1>9. RE!PageOf(list, pages + 1, limit) = <<>>
  <2>1. pages + 1 \in Nat \ {0} /\ (pages + 1) - 1 = pages
    BY <1>6
  <2>2. RE!PageOf(list, pages + 1, limit)
          = SubSeq(list, pages * L + 1, IF n < pages * L + L THEN n ELSE pages * L + L)
    BY <1>7, <2>1
  <2>3. Listed(list, n) /\ RE!PageOf(list, pages + 1, limit) = Cut(list, n, L, pages)
    BY <2>2, Zenon DEF Listed, Cut
  <2> QED BY <1>2, <1>6, <2>3, PageHolds, Zenon
<1>10. ASSUME NEW i \in 1..n
       PROVE RE!Cardinality({p \in 1..pages :
               \E j \in DOMAIN RE!PageOf(list, p, limit) : RE!PageOf(list, p, limit)[j] = i}) = 1
  <2>1. ASSUME NEW p \in 1..pages
        PROVE (\E j \in DOMAIN RE!PageOf(list, p, limit) : RE!PageOf(list, p, limit)[j] = i)
                <=> (p - 1) * L < i /\ i <= (p - 1) * L + L
    <3>1. p \in Nat \ {0} /\ p - 1 \in Nat
      BY <1>6
    <3>2. PICK rows : rows = RE!PageOf(list, p, limit)
      BY Zenon
    <3>3. rows = SubSeq(list, (p - 1) * L + 1, IF n < (p - 1) * L + L THEN n ELSE (p - 1) * L + L)
      BY <1>7, <3>1, <3>2
    <3>4. (\E j \in DOMAIN rows : rows[j] = i) <=> ((p - 1) * L < i /\ i <= (p - 1) * L + L)
      <4>1. PICK k \in Nat : k = p - 1
        BY <3>1
      <4>2. Listed(list, n) /\ rows = Cut(list, n, L, k)
        BY <3>3, <4>1 DEF Listed, Cut
      <4>3. (\E j \in DOMAIN rows : rows[j] = i) <=> (k * L < i /\ i <= k * L + L)
        <5>1. Shows(Cut(list, n, L, k), i) <=> (k * L < i /\ i <= k * L + L)
          BY <1>2, <4>1, <4>2, PageHolds
        <5> QED BY <4>2, <5>1, Zenon DEF Shows
      <4> QED BY <4>1, <4>3
    <3> QED BY <3>2, <3>4, Zenon
  <2>2. {p \in 1..pages : \E j \in DOMAIN RE!PageOf(list, p, limit) : RE!PageOf(list, p, limit)[j] = i}
          = {p \in 1..pages : (p - 1) * L < i /\ i <= (p - 1) * L + L}
    BY <2>1, Zenon
  <2>3. \E p \in 1..pages : {k \in 1..pages : (k - 1) * L < i /\ i <= (k - 1) * L + L} = {p}
    <3>1. \E p \in 1..((n + L - 1) \div L) :
            \A k \in 1..((n + L - 1) \div L) : ((k - 1) * L < i /\ i <= (k - 1) * L + L) <=> k = p
      BY <1>2, OnePage, Zenon
    <3>2. PICK p \in 1..pages : \A k \in 1..pages : ((k - 1) * L < i /\ i <= (k - 1) * L + L) <=> k = p
      BY <1>4, <3>1, Zenon
    <3> QED BY <3>2
  <2> QED BY <2>2, <2>3, CountAs, FS_Singleton, Zenon
<1> QED BY <1>3, <1>5, <1>8, <1>9, <1>10, Zenon

LEMMA ReportsHolds == ASSUME ReportsInv
  PROVE RE!TypeOK /\ RE!ReportsAgree /\ RE!PagesCoverTheList
<1>1. HistoryInv /\ DashboardInv
  BY DEF ReportsInv
<1>2. RE!TypeOK
  <2>1. /\ today \in Days
        /\ \A o \in Orders : RE!Is(o) => /\ order[o].created \in Days
                                         /\ order[o].paidAt \in Days \cup {RE!Never}
                                         /\ order[o].total \in Amounts
        /\ \A e \in earned : RE!Paid(e.order) /\ e.at >= order[e.order].paidAt
    BY <1>1 DEF HistoryInv, OrderRows, RE!Is, RE!Paid, RE!Never
  <2>2. dashboard \in BOOLEAN /\ \A w \in Widgets : widget[w] # "none" => dashboard
    BY <1>1, Zenon DEF DashboardInv
  <2> QED BY <2>1, <2>2, Zenon DEF RE!TypeOK
<1>3. RE!PagesCoverTheList
  <2>1. PICK n : n = RE!Cardinality({o \in Orders : RE!Is(o)})
    OBVIOUS
  <2>2. n \in Nat
    <3>1. IsFiniteSet({o \in Orders : RE!Is(o)})
      BY ReportsAssumption, FS_Subset
    <3> QED BY <2>1, <3>1, CountAs, FS_CardinalityType
  <2>3. PICK list : list = [i \in 1..n |-> i]
    BY Zenon
  <2> QED BY <2>1, <2>2, <2>3, PagesCover, Zenon DEF RE!PagesCoverTheList
<1> QED BY <1>1, <1>2, <1>3, ReportsAgreeHolds

-----------------------------------------------------------------------------
(* The parts together *)

StudioInv ==
    /\ ThemeInv /\ MediaInv /\ MediaSafeInv /\ FormInv /\ DraftInv
    /\ MarketInv /\ AssetInv /\ ManifestInv /\ ReportsInv

LEMMA StudioStart == StudioInit => StudioInv
BY ThemeStart, MediaStart, MediaSafeStart, FormStart, DraftStart, MarketStart, AssetStart, ManifestStart, ReportsStart
   DEF StudioInit, StudioInv

\* A step is one of a part in focus, or leaves the part's rows alone.
LEMMA Turns == ASSUME [StudioNext]_studioVars
  PROVE /\ UNCHANGED solo
        /\ FO!FormNext \/ UNCHANGED foVars
        /\ TH!ThemeNext \/ UNCHANGED thVars
        /\ (DR!BuilderNext /\ UNCHANGED draftRival) \/ UNCHANGED drVars
        /\ MD!MediaNext \/ UNCHANGED mdVars
        /\ AS!FolderNext \/ AS!LibraryNext \/ AS!ShareNext \/ UNCHANGED asVars
        /\ MN!Next \/ UNCHANGED mnVars
        /\ MK!PluginNext \/ MK!TemplateNext \/ UNCHANGED mkVars
        /\ RE!HistoryNext \/ RE!DashboardNext \/ UNCHANGED reVars
<1>1. CASE UNCHANGED studioVars
  BY <1>1, Zenon DEF studioVars
<1>2. CASE PublishingStep /\ UNCHANGED <<focus, solo>>
  BY <1>2, Zenon DEF PublishingStep
<1>3. CASE ContentStep /\ UNCHANGED <<focus, solo>>
  <2>1. UNCHANGED solo
    BY <1>3
  <2>2. CASE FOStep
    BY <2>1, <2>2, Zenon DEF FOStep
  <2>3. CASE THStep
    BY <2>1, <2>3, Zenon DEF THStep
  <2>4. CASE DRStep
    BY <2>1, <2>4, Zenon DEF DRStep
  <2>5. CASE MDStep
    BY <2>1, <2>5, Zenon DEF MDStep
  <2>6. CASE ASStep
    BY <2>1, <2>6, Zenon DEF ASStep
  <2>7. CASE MNStep
    BY <2>1, <2>7, Zenon DEF MNStep
  <2>8. CASE MKStep
    BY <2>1, <2>8, Zenon DEF MKStep
  <2>9. CASE REStep
    BY <2>1, <2>9, Zenon DEF REStep
  <2> QED BY <1>3, <2>2, <2>3, <2>4, <2>5, <2>6, <2>7, <2>8, <2>9 DEF ContentStep
<1> QED BY <1>1, <1>2, <1>3 DEF StudioNext

LEMMA StudioStep == StudioInv /\ [StudioNext]_studioVars => StudioInv'
<1> SUFFICES ASSUME StudioInv, [StudioNext]_studioVars PROVE StudioInv'
  OBVIOUS
<1>1. /\ ThemeInv /\ MediaInv /\ MediaSafeInv /\ FormInv /\ DraftInv
      /\ MarketInv /\ AssetInv /\ ManifestInv /\ ReportsInv
  BY DEF StudioInv
<1>2. UNCHANGED solo
  BY Turns
<1>3. ThemeInv'
  BY <1>1, Turns, ThemeStep, ThemeSame
<1>4. MediaInv'
  BY <1>1, <1>2, Turns, MediaStep, MediaSame
<1>11. MediaSafeInv'
  BY <1>1, <1>2, Turns, MediaSafeStep, MediaSafeSame
<1>5. FormInv'
  BY <1>1, Turns, FormStep, FormSame
<1>6. DraftInv'
  BY <1>1, Turns, DraftStep, DraftSame
<1>7. MarketInv'
  BY <1>1, <1>2, Turns, PluginStep, TemplateStep, MarketSame
<1>8. AssetInv'
  BY <1>1, <1>2, Turns, FolderStep, LibraryStep, ShareStep, AssetSame
<1>9. ManifestInv'
  BY <1>1, Turns, ManifestStep, ManifestSame
<1>10. ReportsInv'
  BY <1>1, Turns, HistoryStep, DashboardStep, ReportsSame
<1> QED BY <1>3, <1>4, <1>5, <1>6, <1>7, <1>8, <1>9, <1>10, <1>11 DEF StudioInv

LEMMA LogoStep == ASSUME StudioInv, [StudioNext]_studioVars, solo, style.logo = "own",
                         \E q \in Requests : installing[q] # MK!Idle
                  PROVE  style'.logo = "own"
<1>1. MarketInv
  BY DEF StudioInv
<1>2. CASE UNCHANGED mkVars
  BY <1>2 DEF mkVars
<1>3. CASE MK!PluginNext
  BY <1>1, <1>3, PluginStep
<1>4. CASE MK!TemplateNext
  BY <1>1, <1>4, TemplateStep
<1> QED BY <1>2, <1>3, <1>4, Turns, Zenon

\* The rows of every part have their types: submissions, themes, drafts, media,
\* folders, manifests, installations and reports.
THEOREM StudioTyped == StudioSpec => []ContentTyped
<1>1. StudioInv => ContentTyped
  BY ThemeHolds, MediaHolds, FormHolds, DraftHolds, MarketHolds, AssetHolds, ManifestHolds, ReportsHolds
     DEF StudioInv, ContentTyped
<1> QED BY <1>1, StudioStart, StudioStep, PTL DEF StudioSpec

\* What is shown agrees with what is stored: the theme's cache with its row,
\* public storage with private documents, folders, collections and shares with
\* the files, an accepted manifest with what the renderer draws, and reports
\* and pages with each other.
THEOREM StudioAgrees == StudioSpec => []ViewsAgree
<1>1. StudioInv => ViewsAgree
  BY ThemeHolds, MediaHolds, AssetHolds, ManifestHolds, ReportsHolds DEF StudioInv, ViewsAgree
<1> QED BY <1>1, StudioStart, StudioStep, PTL DEF StudioSpec

\* Nothing a merchant made is lost half way: submissions, theme versions,
\* drafts, documents, installations and templates are kept, and so is the
\* merchant's own logo.
THEOREM StudioWhole == StudioSpec => ContentWhole
<1>1. StudioInv => /\ FO!SubmissionsChecked /\ FO!DecisionStands /\ TH!HistoryKept
                   /\ DR!DraftsWhole /\ DR!NoOrphans /\ MD!DocumentsKept
                   /\ MK!InstalledWasPublished /\ MK!TemplateApplied
  BY ThemeHolds, MediaHolds, FormHolds, DraftHolds, MarketHolds DEF StudioInv
<1>2. StudioInv /\ [StudioNext]_studioVars =>
        [(/\ solo /\ style.logo = "own"
          /\ \E q \in Requests : installing[q] # MK!Idle) => style'.logo = "own"]_style
  BY LogoStep
<1> QED BY <1>1, <1>2, StudioStart, StudioStep, PTL DEF StudioSpec, ContentWhole, MK!OwnLogoKept
=============================================================================
