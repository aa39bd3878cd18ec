------------------------------ MODULE Retrieval ------------------------------
(***************************************************************************)
(* A search: which engine answers it (routers/search_api.py and            *)
(* retriever_v2.py, _should_use_lancedb) and how the PostgreSQL engines    *)
(* rank (retriever_v2.py): vector search, the hybrid search of vector and  *)
(* text matches, the rank fusion, made of several statements that each see *)
(* the rows of their own moment, and the reranker.  What LanceDB answers   *)
(* is any ranking of its own.                                              *)
(***************************************************************************)
EXTENDS Rankings, SequencesExt

CONSTANTS Chunks,        \* chunk_id of every chunk there may be: numbers
          SourceOf,      \* the source_uri of each
          QueryTerms,    \* the terms of the query
          Nearness,      \* the orders of distance to consider: chunk -> 1, 2, ...
          TopK,          \* top_k
          MaxUpdates     \* bound: rows written, LanceDB's ups and downs

\* No two chunks are equally far.
ASSUME RetrievalAssumption ==
  /\ Chunks \subseteq Nat /\ IsFiniteSet(Chunks) /\ TopK \in Nat \ {0} /\ MaxUpdates \in Nat
  /\ \A n \in Nearness, c \in Chunks, d \in Chunks : n[c] \in Nat /\ (n[c] = n[d] => c = d)

VARIABLES near,      \* how far each chunk is from the query
          terms,     \* the terms of the query in each chunk's text
          chunks,    \* the rows of document_chunks
          lance,     \* whether LanceDB is enabled, and whether it is ready
          search,    \* the request and what its statements have read
          updates

retrievalVars == <<near, terms, chunks, lance, search, updates>>

RrfK == 60
Modes == {"none", "legacy", "fusion", "rerank"}      \* "none": use_hybrid is false

NoSearch == [at |-> "idle", source |-> "lancedb", mode |-> "none", grouped |-> FALSE,
             tails |-> FALSE, alpha |-> 1, engine |-> "none", dense |-> <<>>, total |-> 0, df |-> 0,
             lexical |-> <<>>, answer |-> <<>>, quiet |-> TRUE]

RetrievalInit ==
  /\ near \in Nearness /\ terms \in [Chunks -> SUBSET QueryTerms]
  /\ chunks = Chunks /\ lance \in [enabled : BOOLEAN, ready : {TRUE}]
  /\ search = NoSearch /\ updates = 0

Sources(S) == {SourceOf[c] : c \in S}

\* Every term of the query: what the text query and the literal match ask for.
Matches(c) == terms[c] = QueryTerms

-----------------------------------------------------------------------------
\* Beside the search, documents are indexed and deleted and LanceDB changes.
SearchEnded == {"answered", "failed", "unavailable"}
LibraryChanges ==
  /\ search.at \notin SearchEnded /\ updates < MaxUpdates /\ updates' = updates + 1
  /\ search' = [search EXCEPT !.quiet = FALSE]
  /\ \/ \E c \in Chunks : chunks' \in {chunks \cup {c}, chunks \ {c}} /\ chunks' # chunks
        /\ UNCHANGED lance
     \/ lance' = [lance EXCEPT !.ready = ~@] /\ UNCHANGED chunks
  /\ UNCHANGED <<near, terms>>

Proceed(s) == search' = s /\ UNCHANGED <<near, terms, chunks, lance, updates>>

\* One search is looked at, from any rows; the weight of the vectors is in halves.
AskSearch ==
  /\ search.at = "idle"
  /\ \E source \in {"lancedb", "postgres"}, mode \in Modes, alpha \in 0 .. 2,
        grouped \in BOOLEAN, tails \in BOOLEAN :
       /\ mode \in {"none", "rerank"} => alpha = 1
       /\ tails => grouped
       /\ Proceed([NoSearch EXCEPT !.at = "gate", !.source = source, !.mode = mode,
                                    !.grouped = grouped, !.tails = tails, !.alpha = alpha])

\* _should_use_lancedb: the source, then the setting.
UsesLance(source) == source = "lancedb" /\ lance.enabled

\* search_documents resolves the engine once; search_hybrid_rerank_v0 lets
\* search_hybrid resolve it again, for the default source.
Engine ==
  IF UsesLance(search.source) \/ (search.mode = "rerank" /\ UsesLance("lancedb"))
  THEN "lancedb" ELSE IF search.mode = "none" THEN "vector" ELSE search.mode

Gate ==
  /\ search.at = "gate"
  /\ Proceed([search EXCEPT !.engine = Engine,
                             !.at = IF Engine = "lancedb" /\ ~lance.ready THEN "unavailable"
                                    ELSE IF Engine = "fusion" THEN "dense" ELSE "query"])

\* _group_results_by_source_uri: the best chunk of each document, in order.
GroupedBy(s) ==
  Picked(s, {i \in DOMAIN s : \A k \in 1 .. i - 1 : SourceOf[s[k]] # SourceOf[s[i]]})

\* The documents a text hit is in, of those in s.
Literal(s) == Sources({c \in Chunks : In(s, c) /\ Matches(c)})

\* _apply_identifier_tail_suppression: the documents with a hit stay, of the others
\* those whose score reaches the threshold, the first n.
Untailed(s, n) ==
  LET g == GroupedBy(s) IN
  Picked(g, {i \in DOMAIN g : i <= n \/ SourceOf[g[i]] \in Literal(s)})

\* The answer of a ranking: twenty times top_k rows are asked for, grouped and cut.
Answers(s) ==
  IF ~search.grouped THEN {First(s, TopK)}
  ELSE IF search.tails /\ Literal(s) # {} THEN {First(Untailed(s, n), TopK) : n \in 0 .. Len(s)}
  ELSE {First(GroupedBy(s), TopK)}
Answer(s) ==
  \E a \in Answers(s) : Proceed([search EXCEPT !.at = "answered", !.answer = a])

-----------------------------------------------------------------------------
\* The engines of one statement.

Nearer == {p \in Chunks \X Chunks : near[p[1]] < near[p[2]]}
ByDistance(S) == Ranked(S, Nearer)

\* search: the threshold cuts the tail.
VectorSearch ==
  /\ search.at = "query" /\ search.engine = "vector"
  /\ \E n \in 0 .. Cardinality(chunks) : Answer(First(ByDistance(chunks), n))

\* Mutant: the boost is forgotten.
MutBoost(c) == 0

Boost(c) == IF Matches(c) THEN 10 ELSE 0

\* combined_score, times twice the ranks; strength orders the text matches.
Combined(c, strength) ==
  LET v == 1 + Cardinality({d \in chunks : near[d] < near[c]})
      t == 1 + Cardinality({strength[d] : d \in {e \in chunks : Matches(e)}}
                           \cap {i \in 1 .. 2 : i > strength[c]})
      textPart == IF Matches(c) THEN (2 - search.alpha) * v ELSE 0
  IN [num |-> Boost(c) * 2 * v * t + search.alpha * t + textPart, den |-> 2 * v * t]

Greater(p, q) == p.num * q.den > q.num * p.den

\* The higher score first; ties go to the pair in `tie`.
ByScore(score, tie) ==
  {p \in Chunks \X Chunks :
     \/ Greater(score[p[1]], score[p[2]])
     \/ ~Greater(score[p[2]], score[p[1]]) /\ p \in tie}

\* search_hybrid; ties are anybody's guess, taken by distance here.
HybridRanking(strength) ==
  Ranked(chunks, ByScore([c \in Chunks |-> Combined(c, strength)], Nearer))

Strengths == [Chunks -> 1 .. 2]

HybridSearch ==
  /\ search.at = "query" /\ search.engine = "legacy"
  /\ \E strength \in Strengths : Answer(HybridRanking(strength))

\* The reranker orders the candidates as it likes; LanceDB answers what it likes.
FreeRanking ==
  /\ search.at = "query" /\ search.engine \in {"rerank", "lancedb"}
  /\ \E S \in SUBSET chunks : /\ search.engine = "rerank" => S = chunks
                              /\ \E s \in SetToSeqs(S) : Answer(s)

-----------------------------------------------------------------------------
\* search_hybrid_fusion_v0: five statements.

ReadDense ==
  /\ search.at = "dense"
  /\ Proceed([search EXCEPT !.at = "total", !.dense = ByDistance(chunks)])

ReadTotal ==
  /\ search.at = "total"
  /\ Proceed([search EXCEPT !.at = "df", !.total = Cardinality(Sources(chunks))])

\* The rarest term stands for the term statistics; more than the total is an error.
Frequency(t) == Cardinality(Sources({c \in chunks : t \in terms[c]}))
ReadFrequencies ==
  /\ search.at = "df"
  /\ Proceed([search EXCEPT !.at = IF \E t \in QueryTerms : Frequency(t) > search.total
                                    THEN "failed" ELSE "lexical",
                             !.df = [t \in QueryTerms |-> search.total - Frequency(t) + 1]])

\* The full match first, then the rarer term, then the row.
Full(c) == IF Matches(c) THEN 1 ELSE 0
Rarity(c) ==
  LET ts == terms[c] IN IF Cardinality(ts) = 1 THEN search.df[CHOOSE t \in ts : TRUE] ELSE 0
ByRow == {p \in Chunks \X Chunks : p[1] < p[2]}
Stronger ==
  {p \in Chunks \X Chunks :
     \/ Full(p[1]) > Full(p[2])
     \/ Full(p[1]) = Full(p[2]) /\ Rarity(p[1]) > Rarity(p[2])
     \/ Full(p[1]) = Full(p[2]) /\ Rarity(p[1]) = Rarity(p[2]) /\ p \in ByRow}
ReadLexical ==
  /\ search.at = "lexical"
  /\ Proceed([search EXCEPT !.at = "hydrate",
       !.lexical = Ranked({c \in chunks : terms[c] # {}}, Stronger)])

\* weighted_rrf_score; without alpha the weights are equal, as they are for a half.
Part(s, c, weight) ==
  IF In(s, c) THEN [num |-> weight, den |-> RrfK + Rank(s, c)] ELSE [num |-> 0, den |-> 1]
Fused(c) ==
  LET d == Part(search.dense, c, search.alpha)
      l == Part(search.lexical, c, 2 - search.alpha)
  IN [num |-> d.num * l.den + l.num * d.den, den |-> d.den * l.den]

\* fuse_ranked_candidates: by score, then chunk_id.
FusedRanking ==
  Ranked({c \in Chunks : In(search.dense, c) \/ In(search.lexical, c)},
         ByScore([c \in Chunks |-> Fused(c)], ByRow))

\* The rows that are gone by now are left out.
Hydrate ==
  /\ search.at = "hydrate"
  /\ LET cut == IF search.grouped THEN FusedRanking ELSE First(FusedRanking, TopK) IN
     Answer(Picked(cut, {i \in DOMAIN cut : cut[i] \in chunks}))

RetrievalNext ==
  \/ LibraryChanges \/ AskSearch \/ Gate \/ VectorSearch \/ HybridSearch \/ FreeRanking
  \/ ReadDense \/ ReadTotal \/ ReadFrequencies \/ ReadLexical \/ Hydrate

RetrievalSpec == RetrievalInit /\ [][RetrievalNext]_retrievalVars

-----------------------------------------------------------------------------
\* The variables have their types.
RetrievalTypeOK ==
  /\ chunks \subseteq Chunks /\ search.mode \in Modes /\ search.alpha \in 0 .. 2
  /\ search.engine \in Modes \cup {"lancedb", "vector"}
  /\ Len(search.answer) <= TopK

\* b is answered only behind a; grouped, a document stands for its chunks.
Behind(a, b) ==
  \E i \in 1 .. Rank(search.answer, b) :
    IF search.grouped THEN SourceOf[search.answer[i]] = SourceOf[a] ELSE search.answer[i] = a

\* Tails are suppressed: b's document has a text hit and stays, where a's may go.
Spared(a, b) ==
  /\ search.tails /\ \E m \in chunks : Matches(m) /\ SourceOf[m] = SourceOf[b]
  /\ \A m \in chunks : Matches(m) => SourceOf[m] # SourceOf[a]

\* A chunk that both rankings put before another.
Dominates(a, b) ==
  /\ near[a] < near[b]
  /\ \/ terms[a] = {} /\ terms[b] = {} /\ search.alpha > 0
     \/ In(search.lexical, a)
        /\ (In(search.lexical, b) => Rank(search.lexical, a) < Rank(search.lexical, b))

\* While nothing is written beside it, a search answers the best there is: an exact
\* text match is never lost to a chunk without one, however near (retriever_v2.py,
\* search_hybrid: "This ensures exact text matches are never lost"), the fusion never
\* answers a chunk before one that both its rankings prefer, and grouping and the
\* suppression of tails keep to that, but for the documents it spares for their text
\* hits (routers/search_api.py).
QuietAnswerIsBest ==
  search.at = "answered" /\ search.quiet =>
    \A b \in {c \in chunks : In(search.answer, c)} :
      /\ search.engine = "legacy" =>
           \A a \in chunks : Matches(a) /\ ~Matches(b) => Behind(a, b)
      /\ search.engine = "fusion" =>
           \A a \in chunks : Dominates(a, b) => Behind(a, b) \/ Spared(a, b)

\* routers/search_api.py:324: "pass source=postgres to run the legacy hybrid
\* modes".  A search for PostgreSQL is answered by PostgreSQL, whether LanceDB is
\* ready or not (retriever_v2.py, search_hybrid_rerank_v0).
PostgresWhenAsked ==
  search.source = "postgres" => search.engine # "lancedb"
=============================================================================
