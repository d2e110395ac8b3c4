---------------------------- MODULE KnowledgeGraph -----------------------------
(* build_physical_graph.py: the YAML assets are loaded, every mined candidate *)
(* is compiled to a pattern card and a fix, graph_builder_v2 wires the typed  *)
(* graph, and the graph and the manifest of the cards are replaced, one after *)
(* the other.  The assets are edited between runs; a run may be killed.       *)
(*                                                                            *)
(* A text is a name; WordsIn and IdsIn say which words and which node ids it  *)
(* contains.  Parallel edges of one relation count once.  The script passes   *)
(* no constraint patterns, so no node or edge stands for them.                *)
EXTENDS Integers, Sequences, SequencesExt, FiniteSets, FiniteSetsExt, TLC

CONSTANTS
    WordsIn,           \* [texts -> sets of words], without stop words
    IdsIn,             \* [texts -> sets of node ids]
    Domains,           \* FRONTIER_DOMAINS
    FamilyOf,          \* _FAMILY_DEFAULTS: [families -> [domain, embodiments]]
    WiderFamilies,     \* _CROSS_FAMILY_ALIASES: [card ids -> sets of families]
    FailureOfKind,     \* _MUTATION_KIND_TO_FAILURE: seq of [kind, failure]
    EmbodimentsOf,     \* _FAMILY_TO_EMBODIMENT: [families -> sets of ids]
    FamilyHints,       \* the hints of _extract_task_families
    AssetFiles,        \* [assets -> sequences of successive contents]
    MaxBuilds, MaxBuildKills

Assets == {"failures", "tasks", "candidates", "embodiments", "verifiers", "traces"}
ASSUME GraphAssumption ==
    /\ DOMAIN AssetFiles = Assets
    /\ \A a \in Assets : AssetFiles[a] \in Seq(Range(AssetFiles[a])) \ {<< >>}
    /\ "unknown_optimization" \in DOMAIN FamilyOf
    /\ {MaxBuilds, MaxBuildKills} \subseteq Nat

\* What the schemas accept: texts, and the domains of FRONTIER_DOMAINS.
Texts == DOMAIN WordsIn
IsFailure(f) == f.symptom \in Texts /\ {f.causes, f.signals, f.contra} \subseteq Seq(Texts)
IsCandidate(c) == {c.next, c.target, c.contra} \subseteq Seq(Texts) /\ {c.diagnosis, c.signal} \subseteq Texts
IsTask(t) == t.domain \in Domains /\ {t.about, t.baseline} \subseteq Texts
             /\ t.failures \in Seq(ToSet(t.failures))
ASSUME SchemaAssumption ==
    /\ \A rows \in ToSet(AssetFiles["failures"]) : \A i \in DOMAIN rows : IsFailure(rows[i])
    /\ \A rows \in ToSet(AssetFiles["candidates"]) : \A i \in DOMAIN rows : IsCandidate(rows[i])
    /\ \A rows \in ToSet(AssetFiles["tasks"]) : \A i \in DOMAIN rows : IsTask(rows[i])
    /\ \A a \in Assets : \A rows \in ToSet(AssetFiles[a]) : rows \in Seq(ToSet(rows))
    /\ \A family \in DOMAIN FamilyOf : FamilyOf[family].domain \in Domains
    /\ FailureOfKind \in Seq(ToSet(FailureOfKind))
    /\ "do_not_embed_tuning_values" \in Texts

\* An id tells the kind of asset it is of, and a task or a candidate has one of
\* its own in its file.
Keyed(rows) == \A i, j \in DOMAIN rows : rows[i].id = rows[j].id => i = j
EveryId(asset) == UNION {{rows[i].id : i \in DOMAIN rows} : rows \in ToSet(AssetFiles[asset])}
ASSUME IdsAssumption ==
    /\ \A rows \in ToSet(AssetFiles["tasks"]) \cup ToSet(AssetFiles["candidates"]) : Keyed(rows)
    /\ \A a \in {"failures", "candidates"}, b \in Assets \ {"failures"} :
          a # b => EveryId(a) \cap EveryId(b) = {}

VARIABLES
    asset_version,  \* [assets -> Nat]: the content each file has
    graph,          \* physical_graph.json
    card_manifest,  \* pattern_cards_v2.yaml
    building,       \* the graph and the cards of the run under way
    split,          \* was the last write of the graph not followed by the manifest?
    builds, build_kills
graph_vars == <<asset_version, graph, card_manifest, building, split, builds, build_kills>>

Unbuilt == [nodes |-> << >>, edges |-> {}, gated |-> FALSE]
NoManifest == <<"no manifest">>
NotBuilding == [step |-> "idle", graph |-> Unbuilt, cards |-> << >>]
AssetNow(asset) == AssetFiles[asset][asset_version[asset]]

-----------------------------------------------------------------------------
\* Candidates become cards and fixes.
IdsOf(seq) == {seq[i].id : i \in DOMAIN seq}
\* {f.id: f for f in failures}: of two with one id the later one stands.
WithId(seq, id) == seq[Max({i \in DOMAIN seq : seq[i].id = id})]
Words(texts) == UNION {WordsIn[texts[i]] : i \in DOMAIN texts}
Only(condition, texts) == IF condition THEN texts ELSE << >>
Unseen(texts, known) ==
    FlattenSeq([i \in DOMAIN texts |-> Only(texts[i] \notin ToSet(known), <<texts[i]>>)])

\* _resolve_failure_id: the failure the miner named, if the taxonomy has it,
\* or the first one a kind of mutation stands for that it has.
ResolveFailure(candidate, known) ==
    LET fallbacks == {i \in DOMAIN FailureOfKind :
                        /\ FailureOfKind[i].kind \in candidate.kinds
                        /\ FailureOfKind[i].failure \in known}
    IN  IF candidate.failure \in known THEN {candidate.failure}
        ELSE {FailureOfKind[i].failure : i \in IF fallbacks = {} THEN {} ELSE {Min(fallbacks)}}
\* Mutant of FailureIds: the failure the miner named is taken as it is.
FailureIdsUnchecked(candidate, known) ==
    IF candidate.failure = "" THEN ResolveFailure(candidate, known) ELSE {candidate.failure}
FailureIds(candidate, known) == ResolveFailure(candidate, known)

Defaults(family) ==
    FamilyOf[IF family \in DOMAIN FamilyOf THEN family ELSE "unknown_optimization"]

\* compile_pattern_card: the taxonomy's text for a failure it knows.  A card
\* starts in staging, and without a win.
Compiled(candidate, failures) ==
    LET failure == IF candidate.failure \in IdsOf(failures)
                   THEN <<WithId(failures, candidate.failure)>> ELSE << >>
        warnings == FlattenSeq([i \in DOMAIN failure |-> failure[i].contra])
        told == FlattenSeq([i \in DOMAIN failure |-> <<failure[i].symptom>> \o failure[i].causes])
    IN  [id       |-> candidate.id,
         domain   |-> Defaults(candidate.family).domain,
         families |-> {candidate.family},
         embodiments |-> Defaults(candidate.family).embodiments,
         priority |-> 0, n |-> candidate.n, win_rate |-> 0,
         symptom  |-> told \o <<candidate.diagnosis>>,
         next     |-> candidate.next,
         target   |-> candidate.target,
         signals  |-> <<candidate.signal>>,
         anti     |-> IF warnings = << >> THEN <<"do_not_embed_tuning_values">> ELSE warnings,
         contra   |-> candidate.contra \o Unseen(warnings, candidate.contra)]

\* _widen_task_families
Widened(card) ==
    IF card.id \in DOMAIN WiderFamilies
    THEN [card EXCEPT !.families = @ \cup WiderFamilies[card.id]] ELSE card

\* _pattern_card_to_fix
FixOf(card, failure_ids) ==
    [id |-> card.id, failure_ids |-> failure_ids, domain |-> card.domain,
     steps |-> card.next \o card.signals, anti |-> card.anti \o card.contra]

CardsOf(candidates, failures) ==
    [i \in DOMAIN candidates |-> Widened(Compiled(candidates[i], failures))]
FixesOf(candidates, failures) ==
    [i \in DOMAIN candidates |->
        FixOf(Widened(Compiled(candidates[i], failures)),
              FailureIds(candidates[i], IdsOf(failures)))]

-----------------------------------------------------------------------------
\* The graph: nodes are ids with their type, an edge is <<source, relation,
\* target>>.  A node added again keeps its id and takes the later type.
Edge(from, relation, to) == <<from, relation, to>>
Typed(ids, type) == [id \in ids |-> type]
\* What f and g say, f where both say something.
f ++ g == [id \in DOMAIN f \cup DOMAIN g |-> IF id \in DOMAIN f THEN f[id] ELSE g[id]]
DomainNode(domain) == "domain::" \o domain

\* _wire_fix_to_failure: an unknown failure becomes a node of its own type.
FixesEdges(fixes) ==
    UNION {{Edge(f.id, "FIXES", id) : id \in f.failure_ids} : f \in ToSet(fixes)}

\* _wire_failure_to_task
ObservedEdges(failures, tasks) ==
    UNION {{Edge(id, "OBSERVED_IN", t.id) : id \in ToSet(t.failures) \cap IdsOf(failures)}
           : t \in ToSet(tasks)}

\* _wire_task_to_domain, _wire_fix_to_domain
DomainEdges(things) == {Edge(t.id, "APPLIES_TO", DomainNode(t.domain)) : t \in ToSet(things)}

\* _wire_task_to_verifier: every verifier of the task's type.
ValidatedEdges(tasks, verifiers) ==
    UNION {{Edge(t.id, "VALIDATED_BY", v.id) : v \in {v \in ToSet(verifiers) : v.type = t.verifier}}
           : t \in ToSet(tasks)}

\* _wire_fix_to_embodiment.  No hint is a family of the script's table, so it
\* adds nothing there.
EmbodimentEdges(fixes, embodiments) ==
    UNION {{Edge(f.id, "APPLIES_TO", id) : id \in IdsOf(embodiments) \cap
              UNION {EmbodimentsOf[h] : h \in FamilyHints \cap Words(f.steps) \cap DOMAIN EmbodimentsOf}}
           : f \in ToSet(fixes)}

\* _wire_fix_contraindications: prose that names a node.
ContraEdges(fixes, nodes) ==
    UNION {{Edge(f.id, "CONTRAINDICATED_FOR", id) : id \in nodes \cap
              UNION {IdsIn[f.anti[i]] : i \in DOMAIN f.anti}} : f \in ToSet(fixes)}

\* Mutant of Transferable: a task counts as its own sister.
TransferableToItself(failure, task, tasks) ==
    /\ failure.domain = task.domain
    /\ \E s \in ToSet(tasks) : s.family = task.family /\ failure.id \in ToSet(s.failures)
\* _wire_failure_transferable: a sister task of the family lists the failure,
\* this one of the failure's domain does not.
Transferable(failure, task, tasks) ==
    /\ failure.domain = task.domain
    /\ failure.id \notin ToSet(task.failures)
    /\ \E s \in ToSet(tasks) :
          s.family = task.family /\ s.id # task.id /\ failure.id \in ToSet(s.failures)

TransferableEdges(failures, tasks) ==
    {Edge(p[1].id, "TRANSFERABLE_TO", p[2].id) :
        p \in {p \in ToSet(failures) \X ToSet(tasks) : Transferable(p[1], p[2], tasks)}}

\* _wire_evidence_traces: what the fifth step brought; a pattern the graph does
\* not have becomes a node.
Relation(trace) ==
    CASE trace.delta > 0 -> "IMPROVED_BY"
      [] trace.delta < 0 -> "REGRESSED_BY"
      [] OTHER -> "DERIVED_FROM"
TraceEdges(traces) ==
    {Edge(t.id, Relation(t), t.pattern) : t \in {t \in ToSet(traces) : t.pattern # ""}}

\* build_physical_graph
Wired(failures, fixes, tasks, embodiments, verifiers, traces) ==
    LET linked == FixesEdges(fixes)
        traced == TraceEdges(traces)
        own == Typed(IdsOf(traces), "EvidenceTrace") ++ Typed(IdsOf(verifiers), "VerifierCard")
               ++ Typed(IdsOf(embodiments), "EmbodimentCard") ++ Typed(IdsOf(tasks), "TaskCard")
               ++ Typed(IdsOf(fixes), "FixPattern") ++ Typed(IdsOf(failures), "FailureMode")
               ++ Typed({DomainNode(d) : d \in Domains}, "Domain")
        known == own ++ Typed({e[3] : e \in linked}, "FailureMode_missing")
    IN  [nodes |-> known ++ Typed({e[3] : e \in traced}, "FixPattern_external"),
         edges |-> UNION {linked, ObservedEdges(failures, tasks), DomainEdges(tasks),
                          DomainEdges(fixes), ValidatedEdges(tasks, verifiers),
                          EmbodimentEdges(fixes, embodiments),
                          ContraEdges(fixes, DOMAIN known),
                          TransferableEdges(failures, tasks), traced},
         gated |-> TRUE]

\* _check_acceptance: a failure that the taxonomy does not have will do.
FixIsLinked(g, fix) ==
    \E e \in g.edges : /\ e[1] = fix.id /\ e[2] = "FIXES"
                       /\ g.nodes[e[3]] \in {"FailureMode", "FailureMode_missing"}
TaskIsLinked(g, task) ==
    /\ \E e \in g.edges : e[1] = task.id /\ e[2] = "APPLIES_TO" /\ g.nodes[e[3]] = "Domain"
    /\ \E e \in g.edges : e[1] = task.id /\ e[2] = "VALIDATED_BY"
TraceIsLinked(g, trace) ==
    \E e \in g.edges :
        e[1] = trace.id /\ e[2] \in {"DERIVED_FROM", "IMPROVED_BY", "REGRESSED_BY"}
Accepted(g, fixes, tasks, traces) ==
    /\ \A f \in ToSet(fixes) : FixIsLinked(g, f)
    /\ \A t \in ToSet(tasks) : TaskIsLinked(g, t)
    /\ \A t \in ToSet(traces) : TraceIsLinked(g, t)

-----------------------------------------------------------------------------
GraphInit ==
    /\ asset_version = [a \in Assets |-> 1]
    /\ graph = Unbuilt /\ card_manifest = NoManifest
    /\ building = NotBuilding
    /\ split = FALSE
    /\ builds = 0 /\ build_kills = 0

\* Whoever keeps an asset replaces it.
AssetEdited(asset) ==
    /\ asset_version[asset] < Len(AssetFiles[asset])
    /\ asset_version' = [asset_version EXCEPT ![asset] = @ + 1]
    /\ UNCHANGED <<graph, card_manifest, building, split, builds, build_kills>>

\* A line of the traces that a kill cut short is no JSON and ends the script.
TornTrace == [id |-> "torn", pattern |-> "", delta |-> 0]

\* main, up to its writes: nothing is written when a gate fails, unless
\* --allow-violations was given.
Built(allow_violations) ==
    LET failures == AssetNow("failures")
        fixes == FixesOf(AssetNow("candidates"), failures)
        wired == Wired(failures, fixes, AssetNow("tasks"), AssetNow("embodiments"),
                       AssetNow("verifiers"), AssetNow("traces"))
    IN  /\ building.step = "idle" /\ builds < MaxBuilds
        /\ builds' = builds + 1
        /\ building' =
              IF TornTrace \notin ToSet(AssetNow("traces"))
                 /\ (allow_violations \/ Accepted(wired, fixes, AssetNow("tasks"), AssetNow("traces")))
              THEN [step |-> "graph", cards |-> CardsOf(AssetNow("candidates"), failures),
                    graph |-> [wired EXCEPT !.gated = ~allow_violations]]
              ELSE NotBuilding
        /\ UNCHANGED <<asset_version, graph, card_manifest, split, build_kills>>

\* _dump_graph
GraphWritten ==
    /\ building.step = "graph"
    /\ graph' = building.graph /\ split' = TRUE
    /\ building' = [building EXCEPT !.step = "manifest"]
    /\ UNCHANGED <<asset_version, card_manifest, builds, build_kills>>

\* _dump_pattern_manifest
CardsWritten ==
    /\ building.step = "manifest"
    /\ card_manifest' = building.cards /\ split' = FALSE
    /\ building' = NotBuilding
    /\ UNCHANGED <<asset_version, graph, builds, build_kills>>

BuildKilled ==
    /\ building.step # "idle" /\ build_kills < MaxBuildKills
    /\ building' = NotBuilding
    /\ build_kills' = build_kills + 1
    /\ UNCHANGED <<asset_version, graph, card_manifest, split, builds>>

GraphNext ==
    \/ \E a \in Assets : AssetEdited(a)
    \/ \E allow \in BOOLEAN : Built(allow)
    \/ GraphWritten
    \/ CardsWritten
    \/ BuildKilled

GraphTypeOK ==
    /\ \A a \in Assets : asset_version[a] \in DOMAIN AssetFiles[a]
    /\ \A e \in graph.edges : Len(e) = 3
    /\ building.step \in {"idle", "graph", "manifest"}
    /\ split \in BOOLEAN
    /\ builds \in 0..MaxBuilds /\ build_kills \in 0..MaxBuildKills

-----------------------------------------------------------------------------
Linked(g, id, relations) == \E e \in g.edges : e[1] = id /\ e[2] \in relations
\* What a fix of a graph fixes is a failure of the taxonomy it was built from;
\* nothing is both observed in a task and merely transferable to it; and
\* without --allow-violations every fix has a failure, every task a verifier,
\* every trace a pattern.
GraphIsSound ==
    /\ graph.gated => \A id \in DOMAIN graph.nodes :
          /\ graph.nodes[id] = "FixPattern" => Linked(graph, id, {"FIXES"})
          /\ graph.nodes[id] = "TaskCard" => Linked(graph, id, {"VALIDATED_BY"})
          /\ graph.nodes[id] = "EvidenceTrace" =>
                Linked(graph, id, {"DERIVED_FROM", "IMPROVED_BY", "REGRESSED_BY"})
    /\ \A e \in graph.edges : /\ {e[1], e[3]} \subseteq DOMAIN graph.nodes
                              /\ e[2] = "FIXES" => graph.nodes[e[3]] = "FailureMode"
                              /\ e[2] = "TRANSFERABLE_TO" =>
                                    Edge(e[1], "OBSERVED_IN", e[3]) \notin graph.edges

\* The manifest has the fixes of the graph, unless a run was killed between its
\* two writes and none was completed since.
ManifestIsOfGraph ==
    ~split /\ card_manifest # NoManifest =>
        {id \in DOMAIN graph.nodes : graph.nodes[id] = "FixPattern"} = IdsOf(card_manifest)
=============================================================================
