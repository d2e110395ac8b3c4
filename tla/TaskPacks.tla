------------------------------- MODULE TaskPacks -------------------------------
(* The task packs agents are given before they start: task_pack_builder.py    *)
(* finds the task card, hybrid_retriever.py ranks the pattern cards, and the  *)
(* plan, the warnings and the signals are cut to a budget of tokens.  The API *)
(* server loads the three assets once, when it starts; build_task_pack.py     *)
(* loads them for every pack.                                                 *)
(*                                                                            *)
(* A name is the sequence of its words, a word the tuple of its letter and    *)
(* digit parts: AES-128 is <<<<"aes">>, <<"128">>>>, aes128 <<<<"aes",        *)
(* "128">>>>.  Words a name merely begins or ends in are not looked for.      *)
(* Scores are in ten thousandths of the code's, their parts rounded down.     *)
EXTENDS KnowledgeGraph
CONSTANTS
    Queries,           \* the packs asked for
    PatternFamilies,   \* [families -> names]
    HintOfFamily,      \* _FAMILY_TO_EMBODIMENT_TYPE
    SizeOf,            \* [texts -> Nat]: their words
    LeadOf,            \* [texts -> Nat]: the words of the first sentence, 0 if
                       \*   there is none or it is too long to quote
    SampleWeight,      \* [Nat -> per mille]: log1p(n) / log1p(20)
    MaxStarts          \* bound on the starts of the server
ASSUME PackAssumption ==
    /\ \A q \in Queries : {q.budget, q.k} \subseteq Nat \ {0} /\ q.max \in 200..8000
    /\ MaxStarts \in Nat
    /\ \A t \in Texts : IsFiniteSet(WordsIn[t])
    /\ \A id \in DOMAIN WiderFamilies : IsFiniteSet(WiderFamilies[id])
    /\ \A n \in DOMAIN SampleWeight : SampleWeight[n] \in Nat
    /\ \A rows \in ToSet(AssetFiles["candidates"]) : \A i \in DOMAIN rows :
          rows[i].n \in {0} \cup DOMAIN SampleWeight
VARIABLES serving,     \* _task_pack_assets
          starts
packs_vars == <<graph_vars, serving, starts>>

NotLoaded == [tasks |-> << >>, patterns |-> NoManifest, failures |-> << >>]
OnDisk == [tasks |-> AssetNow("tasks"), patterns |-> card_manifest, failures |-> AssetNow("failures")]
Smaller(a, b) == IF a < b THEN a ELSE b
FirstOf(seq, n) == SubSeq(seq, 1, Smaller(n, Len(seq)))
\* Each text once, where it first occurs.
Distinct(texts) ==
    FlattenSeq([i \in DOMAIN texts |-> Only(\A j \in 1..(i - 1) : texts[j] # texts[i], <<texts[i]>>)])

-----------------------------------------------------------------------------
\* _match_task_card: by id, by name, by shared parts of the name, of the name
\* and the family, by benchmark; the first card that matches.
Inside(needle, name) ==
    /\ needle # << >>
    /\ \E i \in 0..(Len(name) - Len(needle)) : SubSeq(name, i + 1, i + Len(needle)) = needle
PartsOf(name) == UNION {ToSet(name[i]) : i \in DOMAIN name}
Shares(query, parts) == Cardinality(PartsOf(query.name) \cap parts) >= 2
Matches(query, card, way) ==
    CASE way = 1 -> Inside(query.name, card.idname)
      [] way = 2 -> Inside(query.name, card.name)
      [] way = 3 -> Shares(query, PartsOf(card.name))
      [] way = 4 -> Shares(query, PartsOf(card.name) \cup PartsOf(PatternFamilies[card.family]))
      [] way = 5 -> Inside(query.benchmark, card.benchmark)
MatchedCards(query, tasks) ==
    LET ways == {w \in 1..5 : \E i \in DOMAIN tasks : Matches(query, tasks[i], w)}
    IN  IF ways = {} THEN << >>
        ELSE <<tasks[Min({i \in DOMAIN tasks : Matches(query, tasks[i], Min(ways))})]>>

-----------------------------------------------------------------------------
\* rank_pattern
PerMille(a, b) == IF b = 0 THEN 0 ELSE (1000 * a) \div b
Jaccard(a, b) == IF a = {} \/ b = {} THEN 0 ELSE PerMille(Cardinality(a \cap b), Cardinality(a \cup b))
\* _bm25_like: the shared words over the root of the product of both counts,
\* in hundredths.
Overlap(a, b) ==
    LET shared == Cardinality(a \cap b)
    IN  IF a = {} \/ b = {} THEN 0
        ELSE 10 * Max({m \in 0..100 :
                         m * m * Cardinality(a) * Cardinality(b) <= 10000 * shared * shared})
One(condition) == IF condition THEN 1000 ELSE 0
FullText(card) == Words(card.symptom \o card.next \o card.signals)
Keywords(card) == Words(card.symptom \o card.signals \o card.target) \cup card.families
Evidence_Score(card) ==
    IF card.n = 0 THEN 0 ELSE Smaller(1000, (card.win_rate * SampleWeight[card.n]) \div 1000)
Contraindicated(query, card) ==
    \E i \in DOMAIN card.contra : WordsIn[card.contra[i]] \cap query.avoid # {}
Score(query, card) ==
    35 * Jaccard(query.words, FullText(card)) + 15 * Overlap(query.words, Keywords(card))
    + 15 * One(query.family \in card.families) + 10 * One(query.embodiment \in card.embodiments)
    + 10 * Jaccard(query.signals, Words(card.signals)) + 10 * Evidence_Score(card)
    - 20 * One(Contraindicated(query, card))

\* Mutant of Before: of two scores the smaller one comes first.
BeforeReversed(scores, i, j) == scores[i] < scores[j] \/ (scores[i] = scores[j] /\ i < j)
Before(scores, i, j) == scores[i] > scores[j] \/ (scores[i] = scores[j] /\ i < j)
\* The places of the scores: how many come before each.
PlaceOf(scores, i) == Cardinality({j \in DOMAIN scores : Before(scores, j, i)}) + 1
AtPlace(scores, n) == CHOOSE i \in DOMAIN scores : PlaceOf(scores, i) = n

\* top_k: demoted cards are left out; equal scores keep the order of the manifest.
TopCards(query, cards, k) ==
    LET kept == {i \in DOMAIN cards : cards[i].priority # -1}
        scores == [i \in kept |-> Score(query, cards[i])]
        Pick(i) == [card |-> cards[i], score |-> scores[i]]
    IN  FirstOf([n \in 1..Cardinality(kept) |-> Pick(AtPlace(scores, n))], k)

-----------------------------------------------------------------------------
\* What the failures of a task that are known say, one after the other.
KnownFailures(task, failures, field) ==
    FlattenSeq([i \in DOMAIN task.failures |->
                  Only(task.failures[i] \in IdsOf(failures),
                       WithId(failures, task.failures[i])[field])])

\* _build_recommendations
Recommended(query, task, cards, failures) ==
    LET seen == KnownFailures(task, failures, "signals")
        asked == [words |-> Words(<<task.about, task.baseline>> \o seen) \cup {task.family},
                  family |-> task.family,
                  embodiment |-> IF task.family \in DOMAIN HintOfFamily
                                 THEN HintOfFamily[task.family] ELSE "",
                  signals |-> Words(FirstOf(seen, 5)), avoid |-> {}]
    IN  TopCards(asked, cards, query.k)

\* _build_exploration_plan: the budget in bands, one to observe and one for each
\* pattern; a line says the iterations it is for.
Plan(query, picks) ==
    LET band == Max({1, query.budget \div (Len(picks) + 1)})
        Line(from, to, id, size) == [from |-> from, to |-> to, pattern |-> id, size |-> size]
        Action(card) == IF LeadOf[card.next[1]] > 0 THEN LeadOf[card.next[1]]
                        ELSE IF LeadOf[card.symptom[1]] > 0 THEN LeadOf[card.symptom[1]]
                        ELSE 3
    IN  IF picks = << >> THEN <<Line(0, 0, "", 9)>>
        ELSE <<Line(1, band, "", 14)>> \o
             [i \in DOMAIN picks |->
                Line(i * band + 1, IF i = Len(picks) THEN query.budget ELSE (i + 1) * band,
                     picks[i].card.id, 5 + Action(picks[i].card))]

\* _collect_anti_patterns, _collect_expected_signals
Warnings(picks, task, failures) ==
    Distinct(FlattenSeq([i \in DOMAIN picks |-> picks[i].card.contra \o picks[i].card.anti])
             \o KnownFailures(task, failures, "contra"))
ExpectedSignals(picks) ==
    Distinct(<<"verifier_returns_valid">> \o
             FlattenSeq([i \in DOMAIN picks |-> picks[i].card.signals]) \o <<"metric_moves">>)

\* _token_estimate
TextSize(texts) == FoldLeft(LAMBDA sum, t : sum + SizeOf[t], 0, texts)
SizeOfPack(pack) ==
    pack.summary + TextSize(pack.hard) + TextSize(pack.anti) + TextSize(pack.signals)
    + FoldLeft(LAMBDA sum, r : sum + r.size, 0, pack.recommended \o pack.plan)

\* _trim_to_budget: once a little, and once more if that is not enough.
CutTo(pack, anti, signals, hard, plan, recommended) ==
    [pack EXCEPT !.anti = FirstOf(@, anti), !.signals = FirstOf(@, signals),
                 !.hard = FirstOf(@, hard), !.plan = FirstOf(@, plan),
                 !.recommended = FirstOf(@, recommended)]
Trimmed(pack, max) ==
    LET less == CutTo(pack, 6, 4, 5, 6, Max({3, Len(pack.recommended) \div 2}))
    IN  IF SizeOfPack(pack) <= max THEN pack
        ELSE IF SizeOfPack(less) <= max THEN less
        ELSE CutTo(less, 3, 3, 5, 3, 3)

\* build_task_pack, for a card that was found; _build_summary is counted only.
Reference(pick, family) ==
    [pattern |-> pick.card.id, score |-> pick.score,
     size |-> 1 + IF family \in pick.card.families THEN 2 ELSE 3]
Untrimmed(query, task, assets) ==
    LET picks == Recommended(query, task, assets.patterns, assets.failures)
        lead == LeadOf[task.baseline]
    IN  [task |-> task.id,
         summary |-> 11 + IF lead > 0 THEN 2 + lead ELSE 0,
         hard |-> task.hard,
         recommended |-> [i \in DOMAIN picks |-> Reference(picks[i], task.family)],
         plan |-> Plan(query, picks),
         anti |-> Warnings(picks, task, assets.failures),
         signals |-> ExpectedSignals(picks)]
PackOf(query, task, assets) == Trimmed(Untrimmed(query, task, assets), query.max)

-----------------------------------------------------------------------------
PacksInit == GraphInit /\ serving = NotLoaded /\ starts = 0

\* The lifespan of the server: load_task_pack_assets, all three files or none.
ServerStarted ==
    /\ starts < MaxStarts
    /\ serving' = IF card_manifest = NoManifest THEN NotLoaded ELSE OnDisk
    /\ starts' = starts + 1
    /\ UNCHANGED graph_vars

PacksNext ==
    \/ GraphNext /\ UNCHANGED <<serving, starts>>
    \/ ServerStarted

PacksSpec == PacksInit /\ [][PacksNext]_packs_vars

PacksTypeOK == /\ GraphTypeOK
               /\ DOMAIN serving = {"tasks", "patterns", "failures"}
               /\ starts \in 0..MaxStarts

\* build_task_pack_endpoint and build_task_pack.py: the pack, or none where the
\* server answers 503 or 404 and the script ends with an error.
Answer_To(query, assets) ==
    LET found == MatchedCards(query, assets.tasks)
    IN  IF assets.patterns = NoManifest \/ found = << >> THEN << >>
        ELSE <<[query |-> query, assets |-> assets, pack |-> PackOf(query, found[1], assets),
                whole |-> Untrimmed(query, found[1], assets)]>>

\* What can be loaded together, and the answers to all queries from it.
Loadable == [tasks : ToSet(AssetFiles["tasks"]), failures : ToSet(AssetFiles["failures"]),
             patterns : {CardsOf(c, f) : c \in ToSet(AssetFiles["candidates"]),
                                         f \in ToSet(AssetFiles["failures"])}]
Answers == UNION {ToSet(Answer_To(q, a)) : q \in Queries, a \in Loadable}

\* The plan names the patterns recommended, in the same order, as far as both
\* were kept; uncut, its lines share out the budget without a gap, if it has an
\* iteration for each.
PlanIsOfPatterns(answer) ==
    LET pack == answer.pack
        whole == answer.whole
    IN  /\ \A i \in DOMAIN pack.recommended : i + 1 \in DOMAIN pack.plan =>
              pack.plan[i + 1].pattern = pack.recommended[i].pattern
        /\ answer.query.budget > Len(whole.recommended) /\ whole.recommended # << >> =>
              /\ whole.plan[1].from = 1 /\ Last(whole.plan).to = answer.query.budget
              /\ \A i \in DOMAIN whole.plan :
                    /\ whole.plan[i].from <= whole.plan[i].to
                    /\ i > 1 => whole.plan[i].from = whole.plan[i - 1].to + 1

\* No more patterns than asked for, the best first, and none better left out.
BestComeFirst(answer) ==
    LET best == answer.whole.recommended
    IN  /\ Len(best) = Smaller(answer.query.k, Len(answer.assets.patterns))
        /\ \A i, j \in DOMAIN best : i < j => best[i].score >= best[j].score
        /\ answer.pack.recommended = FirstOf(best, Len(answer.pack.recommended))

\* A pack is over its budget of tokens only when nothing more can be cut.
WithinBudget(answer) ==
    \/ SizeOfPack(answer.pack) <= answer.query.max
    \/ Len(answer.pack.plan) <= 3 /\ Len(answer.pack.recommended) <= 3

\* What the server loaded and what is on disk make packs whose plan shares out
\* the budget among the best patterns, within the tokens allowed.
OutOfOrder == {a \in Answers : ~(PlanIsOfPatterns(a) /\ BestComeFirst(a) /\ WithinBudget(a))}
PacksAreInOrder == {serving, OnDisk} \cap {a.assets : a \in OutOfOrder} = {}

\* A pack made from disk recommends what the graph on disk knows to fix a
\* failure, and where the graph says that a pattern is contraindicated for the
\* task, an uncut pack has the warning.
PacksFollowTheGraph ==
    ~split /\ graph.gated => \A a \in Answers : a.assets = OnDisk =>
        \A i \in DOMAIN a.whole.recommended :
            LET id == a.whole.recommended[i].pattern
            IN  /\ Linked(graph, id, {"FIXES"})
                /\ Edge(id, "CONTRAINDICATED_FOR", a.whole.task) \in graph.edges =>
                      \E w \in ToSet(a.whole.anti) : a.whole.task \in IdsIn[w]

\* Graph, manifest and packs agree, through edits of the assets, builds that are
\* refused or killed and servers that still have what they loaded
\* (build_physical_graph.py, task_pack_builder.py).
PacksStandOnTheGraph ==
    GraphIsSound /\ ManifestIsOfGraph /\ PacksAreInOrder /\ PacksFollowTheGraph
=============================================================================
