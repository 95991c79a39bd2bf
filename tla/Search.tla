-------------------------------- MODULE Search --------------------------------
(* The search index and the log of queries (search.service.ts), and the      *)
(* completions, embeddings and prompts of the assistant (ai.service.ts).     *)
EXTENDS Integers, Sequences, FiniteSets, FiniteSetsExt

CONSTANTS
    Requests,      \* requests in flight at most
    Entities,      \* what can be indexed
    Terms,         \* words that occur in titles, contents and tags
    Contents,      \* [title, tags]: what an entity may say
    TagFilters,    \* sets of tags a search is narrowed to; {}: none
    PageSize,      \* results on a page
    MaxQueries,    \* bound: queries logged
    MaxCompletions,  \* bound: completions asked of the provider
    MaxVersion     \* bound: versions of an index entry and of a prompt

VARIABLES
    entry,         \* SearchIndex rows: the words found in each, and its version
    source,        \* what the entity itself says now
    queries,       \* SearchQuery rows: what was asked and how much was shown
    answers,       \* the last page of results
    completion,    \* AICompletion rows per outcome
    provided,      \* completions the provider answered
    returned,      \* completions the service returned
    embedding,     \* AIEmbedding rows: the version of the content embedded
    prompt,        \* version of the prompt template; 0: none
    fault,         \* the database refuses one write, at most once
    call           \* what each request read and has still to write

searchVars == <<entry, source, queries, answers>>
aiVars == <<completion, provided, returned, embedding, prompt>>

Idle == [op |-> "idle"]
Begin(q, c) == call[q] = Idle /\ call' = [call EXCEPT ![q] = c]
Go(q, c) == call' = [call EXCEPT ![q] = c]
End(q) == call' = [call EXCEPT ![q] = Idle]
Is(q, op) == call[q].op = op

-----------------------------------------------------------------------------
(* The index *)

NoEntry == [there |-> FALSE, title |-> "none", tags |-> {}, version |-> 0]

Edit(e, c) ==
    /\ source[e].version < MaxVersion
    /\ source' = [source EXCEPT ![e] = [there |-> TRUE, title |-> c.title,
                                        tags |-> c.tags, version |-> @.version + 1]]
    /\ UNCHANGED <<entry, queries, answers, call>>
Drop(e) ==
    /\ source[e].there
    /\ source' = [source EXCEPT ![e] = [NoEntry EXCEPT !.version = source[e].version]]
    /\ UNCHANGED <<entry, queries, answers, call>>
\* index and bulkIndex upsert what the caller read of the entity before.
ReadSource(q, e) ==
    /\ source[e].there
    /\ Begin(q, [op |-> "index", e |-> e, new |-> source[e]])
    /\ UNCHANGED searchVars
Index(q) ==
    /\ entry' = [entry EXCEPT ![call[q].e] = call[q].new]
    /\ End(q)
    /\ UNCHANGED <<source, queries, answers>>
\* remove ignores an entry that is not there.
Remove(e) ==
    /\ entry' = [entry EXCEPT ![e] = NoEntry]
    /\ UNCHANGED <<source, queries, answers, call>>

-----------------------------------------------------------------------------
(* Queries.  "any": no words, which every entry matches. *)

\* The word is in the title or in the content (title stands for both).
Mentions(e, term) == entry[e].there /\ (term = "any" \/ entry[e].title = term)
Matches(e, term) == entry[e].there /\ (Mentions(e, term) \/ term \in entry[e].tags)
Hits(term, tags) ==
    {e \in Entities : Matches(e, term) /\ (tags # {} => entry[e].tags \cap tags # {})}
Autocomplete(prefix) ==
    IF prefix = "any" THEN {} ELSE {e \in Entities : entry[e].there /\ entry[e].title = prefix}
\* getFacets does not look for the words among the tags.
Facets(term) ==
    [t \in Terms |-> Cardinality({e \in Entities : Mentions(e, term) /\ t \in entry[e].tags})]

\* How much of that many hits a page shows: the pages before it took theirs.
PageLength(hits, page) ==
    LET left == hits - (page - 1) * PageSize
    IN  IF left <= 0 THEN 0 ELSE IF left <= PageSize THEN left ELSE PageSize

\* search reads a page, then logs the query when it has words, with what the
\* page shows; a failure to log is swallowed.
RunSearch(q, term, tags, page) ==
    /\ Cardinality(queries) < MaxQueries
    /\ \E shown \in SUBSET Hits(term, tags) :
          /\ Cardinality(shown) = PageLength(Cardinality(Hits(term, tags)), page)
          /\ Begin(q, [op |-> "log", term |-> term, page |-> page, shown |-> shown])
    /\ UNCHANGED searchVars
LogQuery(q) ==
    /\ \E logged \in IF call[q].term = "any" \/ ~fault THEN {call[q].term # "any"} ELSE BOOLEAN :
         queries' = IF logged
                    THEN queries \cup {[id |-> Cardinality(queries), term |-> call[q].term,
                                        page |-> call[q].page,
                                        found |-> Cardinality(call[q].shown)]}
                    ELSE queries
    /\ answers' = call[q].shown
    /\ End(q)
    /\ UNCHANGED <<entry, source>>
Asked(term) == Cardinality({r \in queries : r.term = term})
PopularSearches == {t \in Terms : Asked(t) > 0 /\ \A u \in Terms : Asked(u) <= Asked(t)}
NoResultQueries == {r \in queries : r.found = 0}

SearchNext ==
    /\ \/ \E e \in Entities : \E c \in Contents : Edit(e, c)
       \/ \E e \in Entities : Drop(e) \/ Remove(e)
       \/ \E q \in Requests : \E e \in Entities : ReadSource(q, e)
       \/ \E q \in Requests : Is(q, "index") /\ Index(q)
       \/ \E q \in Requests : \E t \in Terms \cup {"any"} : \E tags \in TagFilters :
             \E page \in 1..2 : RunSearch(q, t, tags, page)
       \/ \E q \in Requests : Is(q, "log") /\ LogQuery(q)
    /\ UNCHANGED <<aiVars, fault>>

-----------------------------------------------------------------------------
(* The assistant *)

Started == provided.ok + provided.failed

\* complete: the provider answers or fails, and a row says which.
Complete(q, ok) ==
    /\ Started < MaxCompletions
    /\ provided' = IF ok THEN [provided EXCEPT !.ok = @ + 1]
                         ELSE [provided EXCEPT !.failed = @ + 1]
    /\ Begin(q, [op |-> IF ok THEN "store" ELSE "storeFailed"])
    /\ UNCHANGED <<completion, returned, embedding, prompt, fault>>
\* When the row of an answer is refused, the same handler stores a failure and
\* the caller gets the error, not the answer.
StoreCompletion(q) ==
    /\ \/ /\ completion' = [completion EXCEPT !.completed = @ + 1]
          /\ returned' = returned + 1
          /\ End(q)
          /\ UNCHANGED fault
       \/ /\ fault /\ fault' = FALSE
          /\ Go(q, [op |-> "storeFailed"])
          /\ UNCHANGED <<completion, returned>>
    /\ UNCHANGED <<provided, embedding, prompt>>
StoreFailure(q) ==
    /\ \/ /\ completion' = [completion EXCEPT !.failed = @ + 1]
          /\ UNCHANGED fault
       \/ /\ fault /\ fault' = FALSE
          /\ UNCHANGED completion
    /\ End(q)
    /\ UNCHANGED <<provided, returned, embedding, prompt>>
UsageStats ==
    [total |-> completion.completed + completion.failed, failed |-> completion.failed]

\* embed upserts the vector of the content it was given.
Embed(q, e, version) ==
    /\ Begin(q, [op |-> "embed", e |-> e, version |-> version])
    /\ UNCHANGED <<aiVars, fault>>
StoreEmbedding(q) ==
    /\ embedding' = [embedding EXCEPT ![call[q].e] = call[q].version]
    /\ End(q)
    /\ UNCHANGED <<completion, provided, returned, prompt, fault>>
\* updatePrompt counts its versions in the database.
SavePrompt ==
    /\ prompt < MaxVersion
    /\ prompt' = prompt + 1
    /\ UNCHANGED <<completion, provided, returned, embedding, fault, call>>
DeletePrompt ==
    /\ prompt > 0 /\ prompt' = 0
    /\ UNCHANGED <<completion, provided, returned, embedding, fault, call>>

AssistantNext ==
    /\ \/ \E q \in Requests : \E ok \in BOOLEAN : Complete(q, ok)
       \/ \E q \in Requests : Is(q, "store") /\ StoreCompletion(q)
       \/ \E q \in Requests : Is(q, "storeFailed") /\ StoreFailure(q)
       \/ \E q \in Requests : \E e \in Entities : \E v \in 1..MaxVersion :
             Embed(q, e, v)
       \/ \E q \in Requests : Is(q, "embed") /\ StoreEmbedding(q)
       \/ SavePrompt \/ DeletePrompt
    /\ UNCHANGED searchVars

-----------------------------------------------------------------------------
Init ==
    /\ entry = [e \in Entities |-> NoEntry]
    /\ source = [e \in Entities |-> NoEntry]
    /\ queries = {} /\ answers = {}
    /\ completion = [completed |-> 0, failed |-> 0]
    /\ provided = [ok |-> 0, failed |-> 0]
    /\ returned = 0
    /\ embedding = [e \in Entities |-> 0]
    /\ prompt = 0
    /\ fault \in BOOLEAN
    /\ call = [q \in Requests |-> Idle]

IndexNext == SearchNext \/ AssistantNext
Spec == Init /\ [][IndexNext]_<<searchVars, aiVars, fault, call>>

-----------------------------------------------------------------------------
TypeOK ==
    /\ \A e \in Entities : entry[e].version <= source[e].version
    /\ Cardinality(queries) <= MaxQueries + Cardinality(Requests)
    /\ answers \subseteq Entities
    /\ embedding \in [Entities -> 0..MaxVersion]
    /\ prompt \in 0..MaxVersion
    /\ fault \in BOOLEAN

\* The views of the index agree: what autocompletion offers a search for the
\* word finds; narrowing by tags never adds a hit; the first page of a query is
\* empty only when it has no hits (a later page may be, and its query is then
\* reported as one without result); a facet of a query counts at most what
\* narrowing by its tag finds, and as much unless an entry was found by its tags
\* alone, which getFacets does not look at; only queries with words are logged.
SearchAgrees ==
    /\ \A t \in Terms : Autocomplete(t) \subseteq Hits(t, {})
    /\ \A t \in Terms \cup {"any"} : \A tags \in TagFilters :
         /\ Hits(t, tags) \subseteq Hits(t, {})
         /\ PageLength(Cardinality(Hits(t, tags)), 1) = 0 => Hits(t, tags) = {}
         /\ \A u \in Terms :
              /\ Facets(t)[u] <= Cardinality(Hits(t, {u}))
              /\ (\A e \in Hits(t, {u}) : Mentions(e, t)) =>
                    Facets(t)[u] = Cardinality(Hits(t, {u}))
    /\ \A r \in NoResultQueries : r.term # "any"
    /\ queries # {} => PopularSearches # {}

\* Every completion returned to a caller is on record as completed, each one
\* the provider worked on has at most one row, and unless a write was refused
\* exactly one that tells the truth (ai.service.ts:39-98).
UsageAccounted ==
    LET waiting(op) == Cardinality({q \in Requests : Is(q, op)}) IN
    /\ returned = completion.completed
    /\ UsageStats.total + waiting("store") + waiting("storeFailed") \in {Started - 1, Started}
    /\ returned <= provided.ok
    /\ fault => /\ completion.completed + waiting("store") = provided.ok
                /\ completion.failed + waiting("storeFailed") = provided.failed
=============================================================================
