---------------------------- MODULE ReferencePacks ----------------------------
(* Reference packs (retrieval/reference_pack.py): the units a search recalls  *)
(* and their neighbours by relation pass the guards one by one, are ranked    *)
(* and cut to the number and the budget asked for, and the pack is put under  *)
(* the id of its query.  Meanwhile other processes that share the store write *)
(* claims (claims.py) and snapshots: the builder has no view of one moment.   *)
(*                                                                            *)
(* What search answers is any order of units that pass its filters; how it    *)
(* ranks is StoreSearch.  Every compiler writes the utility 0.5, which leaves *)
(* a score as it is.  Scores are whole numbers: a search's in its own unit,   *)
(* those of hits in sixteenths of it, a quarter of a link and the 0.75 of     *)
(* _expand_relations being three of them.                                     *)
EXTENDS Integers, Sequences, SequencesExt, FiniteSets, FiniteSetsExt

CONSTANTS
    UnitOf,          \* unit -> status, suits, confidence, evidence, tokens; a unit is a
                     \*   number
    ClaimOf,         \* claim -> its unit and the score of its truth
    Links,           \* relations, strongest first: from, to, confidence in quarters
    PackQueries,     \* what is asked: query, software, fields, top_k, budget
    HitScores,       \* the scores of a search, best first
    RecallFactor, RecallFloor,   \* 4 and 20: recall for each place in the pack, at least
    RelatedLimit,    \* 20: the relations read of a hit
    MaxPacksBuilt, MaxStoreWrites

Units == DOMAIN UnitOf
ClaimStates == {"absent", "active", "disputed", "over"}
AllEvidence == UNION {UnitOf[u].evidence : u \in Units}

ASSUME PackAssumption ==
    /\ Units \subseteq Nat \ {0} /\ IsFiniteSet(Units) /\ IsFiniteSet(DOMAIN ClaimOf)
    /\ \A u \in Units : UnitOf[u].confidence \in Nat /\ UnitOf[u].tokens \in Nat
    /\ \A c \in DOMAIN ClaimOf : ClaimOf[c].truth \in Nat
    /\ HitScores \in Seq(Nat \ {0})
    /\ \A i \in 1..(Len(HitScores) - 1) : HitScores[i] >= HitScores[i + 1]
    /\ Links \in Seq([from: {l.from : l \in ToSet(Links)}, to: {l.to : l \in ToSet(Links)},
                      confidence: Nat \ {0}])
    /\ \A i \in 1..(Len(Links) - 1) : Links[i].confidence >= Links[i + 1].confidence
    /\ \A q \in PackQueries : q.top_k \in Nat \ {0} /\ q.budget \in Nat
    /\ {RecallFactor, RecallFloor, RelatedLimit, MaxPacksBuilt, MaxStoreWrites} \subseteq Nat

VARIABLES
    claim_book,      \* claim -> what a reader takes it for; "over" is superseded,
                     \*   contradicted or out of time
    stored,          \* the snapshots in the store
    build,           \* the locals of retrieve, or NoBuild
    reference_packs, \* by the query they answer
    packs_built, store_writes

pack_vars == <<claim_book, stored, build, reference_packs, packs_built, store_writes>>

NoBuild == [step |-> "idle"]

-----------------------------------------------------------------------------
(* Reading.                                                                   *)

\* What the context asks of a unit; software versions go before the fields.
AskedOf(q) ==
    [n \in DOMAIN q.software \cup DOMAIN q.fields |->
        IF n \in DOMAIN q.software THEN q.software[n] ELSE q.fields[n]]
SuitsOf(u, name) == IF name \in DOMAIN UnitOf[u].suits THEN UnitOf[u].suits[name] ELSE {}
Mismatched(u, asked) == {n \in DOMAIN asked : SuitsOf(u, n) # {} /\ asked[n] \notin SuitsOf(u, n)}
MatchedNames(u, asked) == {n \in DOMAIN asked : asked[n] \in SuitsOf(u, n)}

\* _compatibility
CompatibilityOf(u, asked) ==
    CASE Mismatched(u, asked) # {}                 -> "incompatible"
      [] DOMAIN asked = {}                         -> "unknown"
      [] MatchedNames(u, asked) = DOMAIN asked     -> "compatible"
      [] MatchedNames(u, asked) # {}               -> "partially_compatible"
      [] OTHER                                     -> "unknown"
CompatibilityScore ==
    [incompatible |-> 0, unknown |-> 50, partially_compatible |-> 65, compatible |-> 100]

\* _claim_scores: the weakest valid claim counts; without claims, the unit's word.
ClaimsAbout(u) == {c \in DOMAIN ClaimOf : ClaimOf[c].unit = u /\ claim_book[c] # "absent"}
ValidClaims(u) == {c \in ClaimsAbout(u) : claim_book[c] \in {"active", "disputed"}}
TruthOf(u) ==
    IF ClaimsAbout(u) = {} THEN UnitOf[u].confidence
    ELSE IF ValidClaims(u) = {} THEN 0 ELSE Min({ClaimOf[c].truth : c \in ValidClaims(u)})
Disputed(u) == \E c \in ValidClaims(u) : claim_book[c] = "disputed"

EvidenceCloses(u) == UnitOf[u].evidence # {} /\ UnitOf[u].evidence \subseteq stored

\* Mutant of PassesGuards: a disputed unit only gets a warning.
PassesGuardsWarned(u) == EvidenceCloses(u) /\ TruthOf(u) > 0

\* Mutant of PassesGuards: a unit stands if any of its snapshots does.
PassesGuardsLoosely(u) ==
    UnitOf[u].evidence \cap stored # {} /\ TruthOf(u) > 0 /\ ~Disputed(u)

\* The three guards of retrieve; an incompatible unit stays, with no score.
PassesGuards(u) == EvidenceCloses(u) /\ TruthOf(u) > 0 /\ ~Disputed(u)

FinalScore(hit, asked) ==
    hit.score * TruthOf(hit.unit) * CompatibilityScore[CompatibilityOf(hit.unit, asked)]
Scored(hit, asked) == [unit |-> hit.unit, score |-> FinalScore(hit, asked)]
Better(g, h) == g.score > h.score \/ (g.score = h.score /\ g.unit < h.unit)
\* The hits of a set, best first; no two are of one unit.
ByScore(hits) ==
    [n \in 1..Cardinality(hits) |->
        CHOOSE h \in hits : Cardinality({g \in hits : Better(g, h)}) = n - 1]

\* SearchFilters look at status, robot, distribution and simulator; what a
\* relation leads to is not filtered.
MayRecall(q) ==
    {u \in Units : UnitOf[u].status \in {"verified", "draft"} /\ Mismatched(u, q.fields) = {}}
RecallLimit(q) == Max({RecallFactor * q.top_k, RecallFloor})

\* _expand_relations: neighbours that are units, by the strongest relation of
\* the best hit that leads to them, until there are enough; of a hit only the
\* RelatedLimit strongest are read.  A step is a hit and a link of it.
LinksOf(u) == {n \in DOMAIN Links : u \in {Links[n].from, Links[n].to}}
Other(l, u) == IF l.from = u THEN l.to ELSE l.from
Sooner(o, p) == o[1] < p[1] \/ (o[1] = p[1] /\ o[2] < p[2])
EndOf(found, p) == Other(Links[p[2]], found[p[1]])
StepsOf(found) ==
    {p \in (DOMAIN found) \X (DOMAIN Links) :
        /\ p[2] \in LinksOf(found[p[1]])
        /\ Cardinality({n \in LinksOf(found[p[1]]) : n < p[2]}) < RelatedLimit
        /\ EndOf(found, p) \in Units \ ToSet(found)}
FirstSteps(found) ==
    {p \in StepsOf(found) :
        \A o \in StepsOf(found) : Sooner(o, p) => EndOf(found, o) # EndOf(found, p)}
Expanded(found, limit) ==
    {[unit |-> found[i], score |-> 16 * HitScores[i]] : i \in DOMAIN found}
    \cup {[unit |-> EndOf(found, p), score |-> 3 * Links[p[2]].confidence * HitScores[p[1]]] :
             p \in {n \in FirstSteps(found) :
                      Cardinality({o \in FirstSteps(found) : Sooner(o, n)})
                          < Max({1, limit - Len(found)})}}

-----------------------------------------------------------------------------
(* Building a pack.                                                           *)

Passing == {u \in Units : PassesGuards(u)}

\* search and the relations, at one moment.  once and always are history: the
\* units that passed the guards at some moment, and at every moment, since.
Recalled(q) ==
    /\ build.step = "idle" /\ packs_built < MaxPacksBuilt
    /\ packs_built' = packs_built + 1
    /\ \E n \in {m \in 0..Len(HitScores) : m <= RecallLimit(q)} :
       \E found \in {s \in [1..n -> MayRecall(q)] : IsInjective(s)} :
          build' = [step |-> "examine", query |-> q, at |-> 1, quiet |-> TRUE,
                    hits |-> ByScore(Expanded(found, RecallLimit(q))),
                    survivors |-> {}, once |-> Passing, always |-> Passing]
    /\ UNCHANGED <<claim_book, stored, reference_packs, store_writes>>

\* One unit is read with its snapshots and claims, and dropped or kept.
Examined ==
    /\ build.step = "examine" /\ build.at <= Len(build.hits)
    /\ LET hit == build.hits[build.at]
           asked == AskedOf(build.query)
       IN  build' = [build EXCEPT
             !.at = @ + 1,
             !.survivors = IF PassesGuards(hit.unit) THEN @ \cup {Scored(hit, asked)} ELSE @]
    /\ UNCHANGED <<claim_book, stored, reference_packs, packs_built, store_writes>>

TokensOf(units) == FoldSet(LAMBDA i, sum : sum + UnitOf[units[i]].tokens, 0, DOMAIN units)

\* Mutant of Taken: the first item is taken whatever it costs.
TakenAtLeastOne(units, q) ==
    Max({n \in 0..Len(units) :
            n <= q.top_k /\ (n <= 1 \/ TokensOf(SubSeq(units, 1, n)) <= q.budget)})

\* How many items the pack takes: it stops at the first that goes over.
Taken(units, q) ==
    Max({n \in 0..Len(units) : n <= q.top_k /\ TokensOf(SubSeq(units, 1, n)) <= q.budget})

UnitsIn(ranked) == [i \in DOMAIN ranked |-> ranked[i].unit]

\* The pack, and for its history the query as asked and what the builder knew.
PackOf(b) ==
    LET ranked == ByScore(b.survivors)
        units == UnitsIn(ranked)
        n == Taken(units, b.query)
    IN  [items |-> SubSeq(ranked, 1, n),
         cursor |-> IF n < Len(units) THEN units[n + 1] ELSE 0,
         later |-> SubSeq(units, n + 1, Len(units)),
         asked |-> b.query, hits |-> {b.hits[i].unit : i \in DOMAIN b.hits},
         once |-> b.once, always |-> b.always]

\* The id is a hash of query and context: another budget or number of items
\* replaces the pack.
PackBuilt ==
    /\ build.step = "examine" /\ build.at > Len(build.hits)
    /\ reference_packs' =
          [k \in DOMAIN reference_packs \cup {build.query.query} |->
              IF k = build.query.query THEN PackOf(build) ELSE reference_packs[k]]
    /\ build' = NoBuild
    /\ UNCHANGED <<claim_book, stored, packs_built, store_writes>>

-----------------------------------------------------------------------------
(* Other processes that write the store.                                      *)

Noticed ==
    IF build.step = "idle" THEN UNCHANGED build
    ELSE build' = [build EXCEPT !.quiet = FALSE, !.once = @ \cup Passing',
                                !.always = @ \cap Passing']

\* put_claim_with_governance: a claim is new, marked, superseded or put again.
ClaimWritten(c, state) ==
    /\ state \notin {"absent", claim_book[c]}
    /\ store_writes < MaxStoreWrites /\ store_writes' = store_writes + 1
    /\ claim_book' = [claim_book EXCEPT ![c] = state]
    /\ UNCHANGED <<stored, reference_packs, packs_built>>
    /\ Noticed

\* put_snapshot: what an interrupted run left out comes later, nothing goes.
SnapshotStored(s) ==
    /\ s \notin stored
    /\ store_writes < MaxStoreWrites /\ store_writes' = store_writes + 1
    /\ stored' = stored \cup {s}
    /\ UNCHANGED <<claim_book, reference_packs, packs_built>>
    /\ Noticed

PackInit ==
    /\ claim_book \in [DOMAIN ClaimOf -> {"absent", "active"}]
    /\ stored \in SUBSET AllEvidence
    /\ build = NoBuild /\ reference_packs = << >>
    /\ packs_built = 0 /\ store_writes = 0

PackNext ==
    \/ \E q \in PackQueries : Recalled(q)
    \/ Examined \/ PackBuilt
    \/ \E c \in DOMAIN ClaimOf, state \in ClaimStates : ClaimWritten(c, state)
    \/ \E s \in AllEvidence : SnapshotStored(s)

PackSpec == PackInit /\ [][PackNext]_pack_vars

-----------------------------------------------------------------------------
(* Explaining: what retrieve would do, with its reasons, and nothing stored.  *)

RejectedFor(u, asked) ==
    (IF EvidenceCloses(u) THEN {} ELSE {"evidence_not_closed"}) \cup
    (IF CompatibilityOf(u, asked) = "incompatible" THEN {"incompatible"} ELSE {}) \cup
    (IF TruthOf(u) <= 0 THEN {"superseded_or_invalid_claim"} ELSE {}) \cup
    (IF Disputed(u) \/ (ClaimsAbout(u) # {} /\ ValidClaims(u) = {})
     THEN {"unresolved_contradiction"} ELSE {})

\* The accepted candidates, which come first, best first.
Accepted(hits, q) ==
    LET asked == AskedOf(q)
    IN  ByScore({Scored(h, asked) : h \in {g \in ToSet(hits) : RejectedFor(g.unit, asked) = {}}})

-----------------------------------------------------------------------------
(* Properties.                                                                *)

BuildType ==
    [step: {"examine"}, query: PackQueries, at: Nat \ {0}, quiet: BOOLEAN,
     hits: Seq([unit: Units, score: Nat]), survivors: SUBSET [unit: Units, score: Nat],
     once: SUBSET Units, always: SUBSET Units]

\* Every variable has its type (ReferencePackV2 and the locals of retrieve).
PackTypeOK ==
    /\ claim_book \in [DOMAIN ClaimOf -> ClaimStates]
    /\ stored \subseteq AllEvidence
    /\ build = NoBuild \/ build \in BuildType
    /\ DOMAIN reference_packs \subseteq {q.query : q \in PackQueries}
    /\ packs_built \in 0..MaxPacksBuilt /\ store_writes \in 0..MaxStoreWrites

ItemsOf(pack) == UnitsIn(pack.items)

\* No reader is told to borrow from a unit that never passed: whatever was
\* written while the pack was built, each item passed all guards at one moment.
ItemsAreWarranted(pack) == ToSet(ItemsOf(pack)) \subseteq pack.once

\* Nothing is lost without a trace: a unit that was recalled and passed the
\* guards all along is in the pack or comes at or after the cursor.
NothingVanishes(pack) ==
    /\ pack.hits \cap pack.always \subseteq ToSet(ItemsOf(pack)) \cup ToSet(pack.later)
    /\ pack.cursor = 0 <=> pack.later = << >>

\* A pack is within what was asked, and full: the next unit would be too much.
PackIsFull(pack) ==
    LET q == pack.asked  items == ItemsOf(pack) IN
    /\ Len(items) <= q.top_k /\ TokensOf(items) <= q.budget
    /\ pack.cursor # 0 => \/ Len(items) = q.top_k
                          \/ TokensOf(items) + UnitOf[pack.cursor].tokens > q.budget

\* An incompatible unit comes after every other one.
IncompatibleComeLast(pack) ==
    LET items == ItemsOf(pack)
        Bad(i) == CompatibilityOf(items[i], AskedOf(pack.asked)) = "incompatible" IN
    \A i, j \in DOMAIN items : i < j /\ Bad(i) => Bad(j)

\* What explain accepts is what a pack begins with, in the same order; all that
\* the pack lists after it is there in spite of its incompatibility.
AsExplained ==
    build.step = "examine" /\ build.at > Len(build.hits) /\ build.quiet =>
        LET asked == AskedOf(build.query)
            ranked == ByScore(build.survivors)
            accepted == Accepted(build.hits, build.query) IN
        /\ IsPrefix(accepted, ranked)
        /\ \A i \in (Len(accepted) + 1)..Len(ranked) :
              CompatibilityOf(ranked[i].unit, asked) = "incompatible"

\* Packs are guarded, ranked and cut as promised although the builder reads a
\* store others write, and explain tells the truth about it
\* (retrieval/reference_pack.py, retrieve and explain).
PacksAreWarranted ==
    /\ AsExplained
    /\ \A k \in DOMAIN reference_packs :
          LET pack == reference_packs[k] IN
          /\ ItemsAreWarranted(pack) /\ NothingVanishes(pack)
          /\ PackIsFull(pack) /\ IncompatibleComeLast(pack)
=============================================================================
