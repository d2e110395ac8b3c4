------------------------------ MODULE StoreSearch ------------------------------
(* The search of both stores: the filters, the exact score of a text, the     *)
(* ranking by each vector and their fusion (store/ranking.py), and what the   *)
(* native query of a SeekDB server changes.  Scores are fractions of 60 and   *)
(* ranks are shares of a million.                                             *)
EXTENDS StoreTables

CONSTANT
    Words          \* the words of a text, in their order

NoFilter == [types |-> {}, snapshots |-> {}, status |-> {"verified", "draft"},
             robot |-> "", ros |-> "", simulator |-> ""]

\* What a unit leaves open is no reason to leave it out.
MatchesFilters(unit, filters) ==
    /\ filters.types = {} \/ unit.type \in filters.types
    /\ filters.snapshots = {} \/ filters.snapshots \cap unit.snapshots # {}
    /\ filters.status = {} \/ unit.status \in filters.status
    /\ filters.robot = "" \/ unit.robots = {} \/ filters.robot \in unit.robots
    /\ filters.ros = "" \/ unit.ros \in {"", filters.ros}
    /\ filters.simulator = "" \/ unit.simulator \in {"", filters.simulator}

HasPhrase(text, query) == \E i \in 0..(Len(text) - Len(query)) : SubSeq(text, i + 1, i + Len(query)) = query
\* The whole query in the text, or the share of its words that the text has.
ExactScore(query, text) ==
    LET asked == ToSet(query) IN
    IF query = << >> THEN 0
    ELSE IF HasPhrase(text, query) THEN 60
    ELSE (60 * Cardinality(asked \cap ToSet(text))) \div Cardinality(asked)

\* Two embeddings are alike or orthogonal.
Cosine(left, right) == IF left = right THEN 60 ELSE 0

\* A ranking is of the scores that it sorts: the better first, of two that are
\* as good the lesser id.
Ahead(scores, a, b) == scores[a] > scores[b] \/ (scores[a] = scores[b] /\ IdLess(a, b))
PlaceIn(scores, id) == Cardinality({other \in DOMAIN scores : Ahead(scores, other, id)}) + 1
Ranked(scores) ==
    [n \in 1..Cardinality(DOMAIN scores) |-> CHOOSE id \in DOMAIN scores : PlaceIn(scores, id) = n]

RankConstant == 60
\* reciprocal_rank_fusion: what each of the rankings that have the id give it
Share(scores, id) == IF id \in DOMAIN scores THEN 1000000 \div (RankConstant + PlaceIn(scores, id)) ELSE 0
Fused(rankings, id) == MapThenSumSet(LAMBDA r : Share(rankings[r], id), DOMAIN rankings)
Blend(exact, fused) == 7 * exact * (1000000 \div 60) + 3 * fused

-----------------------------------------------------------------------------
(* What both stores do.                                                       *)

Passing(s, filters) == {u.id : u \in {u \in TableRows(s, "units") : MatchesFilters(u, filters)}}
ExactScores(s, query, ids) == [id \in ids |-> ExactScore(query, Words[s.units[id].text])]
AskedFields(vectors) == VectorFields \cap DOMAIN vectors
Blended(exact, rankings) == [id \in DOMAIN exact |-> Blend(exact[id], Fused(rankings, id))]
\* The ids with their scores and the fields whose ranking has them.
Hits(ids, exact, scores, near) ==
    [i \in DOMAIN ids |->
       [id |-> ids[i], exact |-> exact[ids[i]], score |-> scores[ids[i]],
        by |-> {f \in DOMAIN near : ids[i] \in DOMAIN near[f]}]]

-----------------------------------------------------------------------------
\* store/memory.py
FieldScores(s, vectors, ids) ==
    [f \in AskedFields(vectors) |->
        [id \in {id \in ids : s.units[id].vectors[f] # NoVector} |->
            Cosine(vectors[f], s.units[id].vectors[f])]]
MemSearch(s, query, vectors, filters, limit) ==
    LET ids == Passing(s, filters)
        exact == ExactScores(s, query, ids)
        near == FieldScores(s, vectors, ids)
        rankings == [r \in {"exact"} \cup DOMAIN near |-> IF r = "exact" THEN exact ELSE near[r]]
        scores == Blended(exact, rankings) IN
    Hits(FirstUpTo(Ranked(scores), limit), exact, scores, near)

\* The rows of a vector collection, whatever the units are by now, and those
\* whose text has the query; the three analyzers agree.
NearestRows(s, field, vector) ==
    [id \in {key[2] : key \in {k \in DOMAIN s.vectors : k[1] = field}} |->
        Cosine(vector, s.vectors[<<field, id>>])]
FulltextRows(s, query) ==
    [id \in {id \in DOMAIN s.fulltext : HasPhrase(Words[s.fulltext[id]], query)} |-> 0]
Analyzers == {"ngram", "beng", "ik"}
\* The first rows are asked for, and then those of the units that pass are taken.
Shown(rows, limit, ids) ==
    [id \in {id \in ids \cap DOMAIN rows : PlaceIn(rows, id) <= Max({4 * limit, 20})} |-> rows[id]]
\* store/seekdb.py without a native answer
SeekFallback(s, query, vectors, filters, limit) ==
    LET ids == Passing(s, filters)
        exact == ExactScores(s, query, ids)
        texts == Shown(FulltextRows(s, query), limit, ids)
        near == [f \in AskedFields(vectors) |-> Shown(NearestRows(s, f, vectors[f]), limit, ids)]
        rankings == [r \in {"exact"} \cup Analyzers \cup DOMAIN near |->
                        IF r = "exact" THEN exact ELSE IF r \in Analyzers THEN texts ELSE near[r]]
        scores == Blended(exact, rankings) IN
    Hits(Sliced(Ranked(scores), limit), exact, scores, near)

MaxNativeLimit == 1000
\* The one status asked for is the only filter that goes to the server.
NativeStatus(filters) == IF Cardinality(filters.status) = 1 THEN filters.status ELSE {}
\* What the server may answer: some of its rows, with the status it has for them.
NativeAnswers(s, filters, limit) ==
    LET status == NativeStatus(filters)
        rows == {id \in DOMAIN s.native : status = {} \/ s.native[id] \in status} IN
    {seq \in UNION {[1..n -> rows] : n \in 0..(IF limit < 2 THEN limit ELSE 2)} : IsInjective(seq)}
Among(seq, ids) == FlattenSeq([i \in DOMAIN seq |-> IF seq[i] \in ids THEN <<seq[i]>> ELSE << >>])
\* The server's order stands when any of its rows is a unit that the filters let in.
SeekSearch(s, query, vectors, filters, limit, server, results) ==
    LET hits == Among(results, Passing(s, filters)) IN
    IF server /\ vectors # << >> /\ limit \in 1..MaxNativeLimit /\ hits # << >>
    THEN [i \in DOMAIN hits |-> [id |-> hits[i], exact |-> 0, score |-> 0, by |-> {}]]
    ELSE SeekFallback(s, query, vectors, filters, limit)
=============================================================================
