# Verification of rosclaw-know

TLA+ models of rosclaw-know, with the TLC runs that check them on small
instances and TLAPS proofs of what matters most. Paths below are relative to
`src/src/rosclaw_know/` unless they start with `docs/`, `tests/` or `scripts/`
(those are under `src/`).

`PROJECT.json` is the index: components, runs, the mutant that shows each
property can fail, the source lines of every definition, findings, hazards and
theorems.

## 1. The system

rosclaw-know turns repositories, papers, wiki pages, benchmark archives and
robot logs into knowledge for robot agents. It has two generations side by
side: a pipeline of files and sqlite tables (wiki pages → heuristics →
`bridge_index.json` → rosclaw-how, benchmark tasks and trajectories → cards →
graph → task packs), and the v2 store (sources → snapshots → wiki → units →
claims → reference packs) behind an HTTP API and a CLI. Offline experiments
decide which knowledge is promoted.

| Component | State it keeps | Operations | What makes it correct |
|---|---|---|---|
| Research jobs (`research_store.py`, `research_worker.py`, `api.py`) | dict of jobs, append-only jsonl, asyncio queue, one worker task | create, submit, poll, the stages of a job, stop, reload at start | no job lost, run twice or merged twice; a status never lies or goes back; finished stays finished over restarts; waiting jobs end |
| Claims and disagreements (`claims.py`) | claim, relation and disagreement collections | compile a snapshot, put with governance, review | one voice per source; differing sources are marked and queued; supersession leads to an active claim; settled disputes stay settled |
| Feedback governance (`feedback_governance.py`, `store/seekdb.py`) | feedback and governance collections | put, redeliver, review (API, CLI) | every answered POST has the record its stored verdict calls for |
| Source refresh, stale packs (`operations.py`) | source record, immutable snapshots, compiled knowledge, packs | refresh, research run, build a pack, mark packs stale | history is never altered; a source names a complete snapshot; packs of replaced evidence are stale |
| Research orchestrator (`sources/orchestrator.py`), adapters (`sources/`), wiki compiler (`wiki/`) | the locals of a run, the session of a remote tool, the tables of the store | plan, discover, pin, fetch, compile, store | budgets and deadline hold; the best offer of a page wins; an answer belongs to its call; nothing stored cites what is not |
| The two stores (`store/memory.py`, `store/seekdb.py`, `store/server_native.py`, `store/ranking.py`), legacy import (`legacy/`) | fifteen tables; on SeekDB one collection per record type, vector field and dimension, analyzer, native tables | put, get, list, search, `transaction()`, import of a bridge or bundle | both stores answer alike; indexes agree with the base record; references stand; an import is whole where the store can roll back |
| Harvester and incremental ingest (`incremental_pipeline.py`, `harvester.py`, `infra.py`, `source_manifest.py`) | manifest and bridge files, `processed_files` and `heuristics` tables | select dirty pages, harvest, mint, merge, save | what the manifest calls up to date was harvested; extracted rows are stored; merging destroys nothing |
| The bridge (`curated_publisher.py`, `bridge_reweighter.py`, `source_tier.py`, `synth_overrides.py`, `muse.py`, label scripts) | `bridge_index.json` | full compile, publish, reweight, label, mint | hashes follow routing fields; no verdict outlives its evidence |
| Evidence and trends (`evidence_writer.py`, `evidence_distill.py`, `stats_analyze.py`) | traces file, `evidence_stats.json`, snapshot files, report | append, distill, fetch, analyse | a verdict is earned; an acknowledged trace is kept; a trend is one |
| Graph and task packs (`graph_builder_v2.py`, `pattern_compiler_v2.py`, `task_pack_builder.py`, `hybrid_retriever.py`, `asset_loader.py`, `extractors/benchmark_extractor.py`) | YAML assets, graph, manifest of cards, what a server has loaded | build, serve, build a pack | graph and cards agree; a pack recommends only what the graph supports, in order and within budget |
| Experiments (`ab_harness.py`, `scripts/run_paired_ab.py`, `verify_frontier_eng.py`, `judge_frontier_eng.py`, `multiseed_aggregate.py`) | trials, reply files, `summary.json` | sweep, rank, reply, judge, aggregate | ranking is fair; what is counted was replied to on both sides |
| Release (`scripts/publish_to_how.py`, `verify_routing_panel.py`, `freeze_bundle.py`) | HOW's assets, the frozen bundle, its sums | publish, restart HOW, panel, freeze | a bundle that verifies is whole and of one freeze |
| Pattern mining (`extractors/`) | archive, catalog, cards | extract, merge, render | a card's evidence is in the archive |
| Simulation ingest (`sim_ingest/`) | events, buckets, constraints, traces, candidates | read four log formats, map, summarise, parse URDF, mine | the summary is of what was seen; a candidate was measured in both arms |
| Reference packs (`retrieval/reference_pack.py`) | the locals of a retrieval, the packs by query and context | retrieve, explain | each item passed every guard; nothing vanishes; a pack is full and within its budget; explain tells what retrieve does |
| Task cards, agent evaluation, migrations, contracts, curated data, promotion by hand | see `PROJECT.json` | | left out, section 8 |

How they interact: the API process runs requests and the research worker on one
asyncio loop, so they interleave only at awaits; the CLI, the reweighter, the
scripts and a second server are processes of their own that share SeekDB or the
files. A research job calls the incremental ingest, which writes the bridge the
publisher, the reweighter and the label scripts also write; a refresh compiles
wiki, units and claims of the new snapshot and then marks packs; feedback
arrives over HTTP at least once; traces become statistics, statistics become
priorities; the bridge and the packs are what other programs read.

What is hard: kills between two writes (nothing is transactional across
records or files), appends and rewrites cut short, state read before an await
and used after it, two processes that read, change and write the same records,
retried deliveries, errors inside error handlers, budgets and limits at their
boundary, and two implementations that must agree (memory and SeekDB, judge and
aggregator, graph and packs). `PROJECT.json` lists each hazard at its line.

## 2. Modules

| Module | Models | Checked with |
|---|---|---|
| `ResearchService` | abstract specification: what the job service promises an agent | refinement target |
| `ResearchJobs` | store, queue, worker, restart, disk errors, torn lines | `MCResearchJobs` |
| `ClaimGovernance` | compile, put with governance, review; several processes | `MCClaimGovernance` |
| `FeedbackGovernance` | post, two-write put, redelivery, two kinds of review | `MCService` |
| `SourceRefresh` | refresh and research run as coroutines, packs, kills | `MCService` |
| `UnitIndex` | `upsert_unit`: base record last, vectors, texts, native row | `MCService` |
| `ProjectWiki` | what compilers make of a snapshot: inventory, pages, units, claims (static functions) | through `SourceCollection` |
| `SourceAdapters` | what adapters make of answers: offers, pins, documents, the remote-tool client (static functions) | through `SourceCollection` |
| `SourceCollection` | a research run from plan to report over the two above | `MCService` |
| `ReferencePacks` | recall, guards, ranking, budget and put of a pack, explain; other processes that write | `MCService` |
| `IncrementalIngest` | a run and its coroutines, files, tables; the reweighter | `MCAssets` |
| `BridgeLifecycle` | everybody who rewrites the bridge | `MCAssets` |
| `EvidenceLoop` | append of traces, distillation, verdict | `MCAssets` |
| `TrendReports` | snapshots by second, window, slope, label | `MCAssets` |
| `BenchmarkTasks` | task cards of a benchmark tree (static functions) | through `TaskPacks` |
| `KnowledgeGraph` | loading of assets, compilation of cards, typed graph, acceptance, the two writes | through `TaskPacks` |
| `TaskPacks` | matching, ranking, plan, budget of a pack; server and script | `MCAssets` |
| `ArmRanking` | `run_matrix` and the report over it | `MCExperiments` |
| `PairedExperiment` | replies, summary, judge, aggregate; kills | `MCExperiments` |
| `RoutingRelease` | publish, HOW, panel, freeze; kills | `MCExperiments` |
| `PatternMining` | detectors, extractors, merge, cards | `MCExperiments` |
| `RobotEvents` | log adapters, failures, constraints, transfers, evidence | `MCExperiments` |
| `StoreTables` | every put and list of both stores (static functions) | through `LegacyImport` |
| `StoreSearch` | filters, exact score, ranks, fusion, native answers (static functions) | through `LegacyImport` |
| `LegacyImport` | transactions on both stores, imports, kills | `MCExperiments` |
| `ResearchJobs_proofs`, `ClaimGovernance_proofs`, `SourceCollection_proofs` | theorems about the module of that name | TLAPS |
| `Service_proofs` | theorems about `FeedbackGovernance`, `SourceRefresh`, `UnitIndex`, `ReferencePacks` | TLAPS |
| `Assets_proofs` | theorems about `BridgeLifecycle`, `EvidenceLoop`, `TrendReports`, `KnowledgeGraph`, `TaskPacks`, `IncrementalIngest` | TLAPS |
| `Experiments_proofs` | theorems about `RoutingRelease`, `PairedExperiment`, `PatternMining`, `ArmRanking`, `RobotEvents` | TLAPS |
| `Stores_proofs` | theorems about `StoreTables`, `StoreSearch`, `LegacyImport` | TLAPS |
| `FiniteSums` | lemmas about sums over finite sets and functions with finite domain, about places in an ordered one, and about sequences put one after the other | TLAPS |

The other modules named `MC…` hold the instances. `MCService`, `MCAssets` and
`MCExperiments` check several components in one run: a variable `part` chooses
at the start which component a behaviour is about, and the others stay in
their initial state. The components of one such run share no state, so nothing
is lost by it, and the state space is the sum of the parts, not the product.

Definitions named "Mutant of D" are D with one plausible bug. They are not part
of any specification; `PROJECT.json` names the property each breaks.

Several properties are conjunctions of named parts (`StoresAgree`,
`PacksStandOnTheGraph`, `PacksAreWarranted`, `CollectionIsBoundedAndPinned`,
`BridgeIsCurrent`, `EvidenceIsSound`, `RankingIsFair`, `UpliftIsOfReplies`, `MinedEvidenceStands`,
`RobotFindingsHold`): each part is stated and commented by itself, and together
they answer one question about the component.

### ResearchJobs

`jobs` is `ResearchStore._jobs`, `queue` the asyncio queue, `cur` the local
`job_id` of `_run_loop`, `task` the next await or append of `_run_job`. The file
is the list `log` of its parseable lines and the way it ends (`tail`): after a
fragment the next append joins the fragment's line and `load()` skips both.
Every `store.update` is `Update(record, next, onError)`: RAM first, then the
append, which may succeed, raise (part of the line may be there, RAM already
holds the record) or be cut short by a kill. `Restart` is `_lifespan`: replay
of the file, an empty queue. `merged` stands for the bridge.
`accepted` and `stranded` are history.

`Service` maps this to `ResearchService`: a job is *abandoned* when it is
unfinished and no one will run it again, `line` is the queue, `published` is
`merged`. The abstract service serves in order of acceptance, publishes at most
once, keeps results final and lets an outage abandon exactly the unfinished.

### ClaimGovernance

`put_claim_with_governance` skips claims of another subject or predicate, so
one subject and predicate is modelled. `putting` holds the locals of each
process that is inside it. It lists the active claims once (`List`), and
everything it then writes is computed from that list: each conflicting claim,
in the order of the list, which is any order (`PutRival`), and after each of
them its relation (`PutRelation`); then the claim itself (`PutClaim`); then the
disagreements with claims of other sources (`PutDisagreement`). `Compile` starts
a batch: `compile_claims` makes drafts newest release first, reads the clock
once, and a snapshot can be compiled only once. `Crash` drops what is left.
`raced` is history: have two compilations ever overlapped?

### FeedbackGovernance

`Post` makes a request deliverable any number of times. `PutFeedback` and
`PutGovernance` are the two writes of `put_feedback`; no other request runs
between them, a crash may. `ReviewOverApi` is one step; the CLI reads
(`ReviewRead`) and writes (`ReviewWrite`) in a process of its own.

### SourceRefresh

Each request is a coroutine with the locals of `refresh_source` or of
`ResearchOrchestrator.run`; it suspends at `snapshot` and `fetch_documents` and
otherwise writes without interruption by the others (`MayRun`), though a kill
may fall between any two writes. The orders differ: a refresh writes snapshot,
compilation, source, marks; a research run source, snapshot, compilation.
`put_snapshot` compares whole records, so the same commit fetched at another
time is refused. A compilation may raise (`CompileAll`): the wiki compiler does
without documents and where steering excludes them all. `missed` and `cut` are
history: was the source ever moved without its packs being marked, and which
commits did a research run name in the source record and then leave uncompiled,
killed, refused or raising (`Abandons`)?

### UnitIndex

One unit. A put whose text is the stored one keeps the stored embeddings and
goes straight to the base record; any other writes embeddings field by field,
texts analyzer by analyzer, the native row, then the base. A raising embedding
write ends the call, a raising text or native write is reported in `degraded`,
which lives as long as the store object. `opened` says which optional indexes
the constructor could open. `put.mode` says whether the unit was new when the
call began. `torn` is history: did an update stop halfway with no later one
carried through?

### SourceCollection, SourceAdapters, ProjectWiki

`collecting` holds the locals of `ResearchOrchestrator.run`: the offers left,
what was counted against the budgets, the documents fetched, and the phase,
which names the next await or write. `SourceAdapters` says what each adapter
makes of a world of answers (the offers, the snapshots by `Pin`, the documents):
URLs fold, file names and bytes pass the limits, a remote tool's reply is
matched to its call or refused. `ProjectWiki` says what is compiled of the documents of one
snapshot; the lines of a text are sets of the words the compilers look for.
`shelf` is the tables the run writes, one write per action; a kill
(`CollectorKilled`), a failing adapter, a passed deadline and a later run that
finds another world may come between any two.

### ReferencePacks

`build` holds the locals of `ReferencePackBuilder.retrieve`. `Recalled` is the
search, which answers any order of units that pass its filters, with the
relations of the hits; `Examined` reads one unit with its snapshots and claims,
which are separate calls of the store in the code and one step here;
`PackBuilt` ranks, cuts and puts. Between two of them another process may write
a claim (`ClaimWritten`) or a snapshot (`SnapshotStored`). `once` and `always`
are history: the units that passed the guards at some moment since the search,
and at every moment. `Accepted` and `RejectedFor` are `explain`, which stores
nothing; `AsExplained` compares it with a retrieval nothing was written into.

### StoreTables, StoreSearch, LegacyImport

`StoreTables` has each `put_*` and `list_*` of the contract twice, as
`store/memory.py` and as `store/seekdb.py` do it: a put answers the tables it
leaves and what it returns or raises. `StoreSearch` has the filters, the exact
score, the ranking by each vector, their fusion and what a native query may
change. A ranking is of a table of scores: an id has the rank of the ids ahead
of it, and `Ranked` lists them by it. `LegacyImport` gives both stores the same transactions: imports, whose
calls (`ImportPlans`) are computed from a bundle, and writes of other clients.
The memory store takes a transaction as a whole or not at all, SeekDB call by
call; `RunAll` is one call after another up to an exception. A put of a unit is
one step here; what happens inside it is `UnitIndex`. A put of feedback is two
writes, and a kill may fall between them (`FeedbackCut`), which leaves SeekDB
with feedback that is not queued and the memory store without either.

### IncrementalIngest

`version` is the content of a page, `manifest` the recorded hashes, `ram` the
manifest a run has loaded, `page` the `process_single_page` coroutines, which
interleave. Truncation and rewriting of manifest and bridge are two steps; a
kill between them leaves a file the loaders take for an empty one. Pages are
edited, and the bridge is reweighted by another process, at any time. A read
may fail on the contents of `Flaky`, once or always (`ReadFails`): the page then
looks like one with nothing in it, and its hash is recorded. `late`
(contents that came after a run had looked), `unread` (contents a run failed to
read), `lost` (marks whose run was
killed before the row) and `outdated` (writers whose copy the other has
overtaken) are history that tells the consequences apart.

### BridgeLifecycle

One cluster after the other through everybody who writes the file: `Mint`,
`FullCompile`, `PublishCurated` (grafting, tiers, demotions, hashes),
`ReweightV1` and `ReweightV2`, and the label scripts, which keep a copy while a
model answers (`labelling`). A cluster is its routing fields and its hash, the
hash being the fields it was computed from. What overlapping rewrites of the
others do to each other is in `IncrementalIngest`.

### EvidenceLoop and TrendReports

`lines` counts the whole lines of each trace in the JSONL file and `tail` is
what follows the last newline, as in `ResearchJobs`; `stats` is what
`evidence_stats.json` was distilled from. In `TrendReports` the clock names
the snapshot files, so two runs in one second overwrite each other; uplifts are
multiples of the threshold of a trend, so the slope over the window is exact.
The series of a window takes the readable snapshots by their rank (`Nth`), as
`load_history` does by sorting the file names.

### BenchmarkTasks, KnowledgeGraph, TaskPacks

`BenchmarkTasks` makes task cards of directories whose files are sequences of
lines. `KnowledgeGraph` loads the assets, compiles candidates to cards and
wires nodes and typed edges as `graph_builder_v2` does, accepts or refuses the
result, and replaces graph and manifest, two writes a kill may separate.
A node may be of several kinds; `++` keeps the type of the first, as adding it
again does in the code, last kind first.
`TaskPacks` matches a query to a card (a name is a sequence of words, a word
its letter and digit parts), scores and ranks cards in ten thousandths
(`PlaceOf`: how many come before), and cuts plan, warnings and signals to the
budget. The API server answers with what
it loaded at its start (`serving`), the script with what is there.

### ArmRanking, PairedExperiment, RoutingRelease

`ArmRanking` runs the cells of a sweep, each of which may crash, and states
the report over their means, kept as exact fractions. `PairedExperiment`
follows one seed: reply files (answers, error markers short and long),
`summary.json` torn or whole, the judge, and the aggregation over seeds, which
decides on other fields than the judge's report. `RoutingRelease` knows a file
by what it was made from: attempt and version of the assets, or the verdict of
the panel; each file operation is an action and may be the last.

### PatternMining and RobotEvents

A program text is how often it shows each feature a detector looks for; the
extractors, their merge over the archive, the catalog, and the cards rendered
one by one. In `RobotEvents` a row of each log format becomes events, events of
one kind a failure, a robot description constraints, a task run evidence;
fingerprints are sequences of their parts.

## 3. Runs

| Run | Instance | Result |
|---|---|---|
| `research_faults` | 2 jobs, 1 source, 2 kills, 2 disk errors, torn lines; fair | passes: types, scheduling, merged once, truth, finality, status order, waiting jobs end |
| `research_restarts` | 3 jobs, 2 kills, sound disk | passes: answers are durable, implements `ResearchService` |
| `claims_shared` | 2 processes, 4 claim ids, 2 sources, 3 objects, clock to 3, 1 kill | passes: 7 properties |
| `service` | a unit: 3 puts, 2 texts, 2 statuses, 2 dimensions, 2 errors, 1 restart. Feedback: 2 ids, 2 verdicts, 2 kills. Refresh: 2 requests of both kinds, 3 commits, 4 fetches, 2 kills, 1 pack. Collection: 2 runs, 1 failing adapter or kill, limits of 6 documents, 10 bytes each, 37 per repository, 50 per response, in all 9 documents and 44 bytes. Packs: 4 units, 3 claims, 4 relations (2 read of a unit), 3 questions, 1 pack, 2 writes of others | passes: 9 properties |
| `ingest_runs` | ingest: 2 pages, 2 versions, 1 content that a read may fail on, 3 runs, 2 kills. Bridge: 7 writes of one cluster under every evidence. Evidence: 3 traces, 1 kill. Trends: 4 reports in 4 seconds, a window of 3. Packs: 2 builds, 1 kill, 1 start of the server, 8 queries | passes: 8 properties |
| `experiments` | ranking: 3 arms, 2 tasks or 2 seeds. Pair: 2 tasks. Release: 2 versions, 2 freezes. Mining: 2 of 7 programs, 1 kill. Logs: 3 rows. Evidence: 3 task events. Stores: 3 transactions, 1 kill | passes: 7 properties |
| `research_v_worker` | 2 disk errors | `WorkerSurvives` is violated |
| `claims_v_release` | 1 process, 3 claim ids | `NewerReleaseWins` is violated |
| `refresh_v_packs` | refreshes only, no kill | `ReplacedPacksAreStale` is violated |
| `unit_v_interrupted` | 2 puts, 1 error | `InterruptedIsInvisible` is violated |
| `ingest_v_reweight` | 1 run and the reweighter | `ClustersKept` is violated |
| `panel_v_marker` | 2 tasks | `MarkersAreNotJudged` is violated |

What the parts of the three composite runs show:

* `service` – `CommittedIsEmbedded`, `IndexedOrDegraded` (the indexes of a unit
  agree with it or are reported), `AnsweredIsGoverned`, `CurrentIsCompiled`,
  `ReplacedEvidenceIsStale`, `HistoryPreserved`,
  `CollectionIsBoundedAndPinned` (budgets, best offer of each page, answers of
  their own calls, nothing stored that cites what is not), `PacksAreWarranted`.
* `ingest_runs` – `ManifestTellsTruth`, `ExtractedIsStored`,
  `KeptByFreshWriters`, `BridgeIsCurrent` (hashes follow the fields,
  priorities the evidence), `EvidenceIsSound`, `TrendFollowsSeries`, `PacksStandOnTheGraph`.
* `experiments` – `RankingIsFair`, `UpliftIsOfReplies`, `VerifiedIsWhole`,
  `MinedEvidenceStands`, `RobotFindingsHold`, `StoresAgree`.

Why the bounds are enough. Two jobs are needed for one to wait while the other
runs, three for order; two kills for a restart that meets what a first restart
left; two disk errors for an error inside the handler of an error. Two claim
ids of one source and one of another give supersession and contradiction at
once, and a compilation of three releases, two of them with the same line, the
only way an id is put again after it was superseded; two writers give every
race there is between a list and a put. Two requests and three commits let one
refresh finish inside another one's await, twice. Three runs let a killed run
be followed by one that meets its remains and another that meets theirs. Three
puts let an update be interrupted, retried with the old text and repaired by a
new one. The limits of a collection are small enough that each of them refuses
or cuts something in one of the listed worlds; two runs give the second a store
with the remains of the first. Seven writes of the bridge let a
cluster be minted, published, promoted, labelled, demoted, published again and
reweighted. Four reports fill a window of three and push one out. Two builds
give a graph that was replaced while its manifest was not, and a server that
has the older. Three transactions are an import, one that clashes with it and
one that meets what a kill left. The seven programs are one of each task
family, one that fits two, one without a baseline and one that changes
nothing; the rows of the logs have every topic, tag, kind and category; the
queries, worlds and bundles are listed, with their reason, in the MC modules.
The records are symmetric in what is not bounded (other jobs, subjects, units
do not touch each other), except where section 8 says so.

Properties with an antecedent such as `~raced`, `~torn` or `crashes = 0` say
what the code keeps as long as that has not happened; in the same run the rest
of the instance does happen, and the properties without antecedent hold through
it. Without the antecedent they fail, which section 6 describes.

`CHECK_DEADLOCK FALSE` is set where the bounds (commits, runs, puts, crashes)
end a behaviour; all of these programs are meant to be idle when nothing is
asked.

## 4. Fairness

Only `research_faults` uses it: weak fairness of `Worker` and of `Restart`. The
event loop schedules the task, and each of its awaits ends: the collection runs
under `asyncio.wait_for`, the notification of rosclaw-how under a socket
timeout, the model calls under their own limits. (The ingest as a whole has no
timeout; that its calls end is an assumption.) A service manager restarts the
process. No fairness is assumed of clients. Under it every waiting job of a
process that stays up ends unless the worker task is lost. Everything else in
the system is a request, a script or a person's command: that it ends is what
its deadline and its loop bounds say (a collection cannot pass its deadline
between two adapters), and nothing promises that it is called.

## 5. Proofs

The proofs hold for every value of the constants; each module states its
assumptions in one named `ASSUME`, which TLC evaluates in the runs.

| Module | Theorem | Property |
|---|---|---|
| `ResearchJobs_proofs` | `TypeCorrect` | `TypeOK` |
| | `Scheduling` | `ScheduledOnce` |
| | `MergingOnce` | `MergedAtMostOnce` |
| | `Truthful` | `CompletedIsTrue` |
| | `FinishedIsFinal` | `FinishedLineIsLast` |
| | `StatusAdvances` | `StatusOnlyAdvances` (action property) |
| | `Durable` | `AnswersAreDurable` |
| | `ServiceImplemented` | `ImplementsService` (refinement) |
| `ClaimGovernance_proofs` | `TypeCorrect` | `TypeOK` |
| | `ServedAgree` | `ServedClaimsAgree` |
| | `OneVoice` | `OneVoicePerSource` |
| | `Readability` | `ClaimsAreReadable` |
| | `ConflictsQueued` | `ConflictsAreQueued` |
| | `SupersessionEnds` | `SupersessionEndsActive` |
| | `StaysSettled` | `SettledStaysSettled` (action property) |
| `Service_proofs` | `FeedbackIsGoverned` | `AnsweredIsGoverned` |
| | `SourceIsCompiled` | `CurrentIsCompiled` |
| | `ReplacedIsStale` | `ReplacedEvidenceIsStale` |
| | `SnapshotsAreHistory` | `HistoryPreserved` (action property) |
| | `CommittedUnitIsEmbedded` | `CommittedIsEmbedded` |
| | `CommittedUnitIsIndexed` | `IndexedOrDegraded` |
| | `WarrantedPacks` | `PacksAreWarranted` |
| `Assets_proofs` | `ManifestIsTrue` | `ManifestTellsTruth` |
| | `MarkedIsStored` | `ExtractedIsStored` |
| | `FreshWritersKeep` | `KeptByFreshWriters` (action property) |
| | `BridgeCurrent` | `BridgeIsCurrent` |
| | `EvidenceSound` | `EvidenceIsSound` |
| | `TrendFollows` | `TrendFollowsSeries` |
| | `PacksStand` | `PacksStandOnTheGraph` |
| `Experiments_proofs` | `VerifiedBundle` | `VerifiedIsWhole` |
| | `Uplift` | `UpliftIsOfReplies` |
| | `MinedEvidence` | `MinedEvidenceStands` |
| | `Ranking` | `RankingIsFair` |
| | `RobotFindings` | `RobotFindingsHold` |
| `SourceCollection_proofs` | `BoundedAndPinned` | `CollectionIsBoundedAndPinned` |
| `Stores_proofs` | `StoresStandTogether` | `StoresAgree` |

The type invariant of each component is proved beside them. No property of the
table is inductive by itself, except that history only needs the types and the
ranking is a function of what a sweep stored.

**Research jobs**, for any set of jobs, any number of sources, kills and disk
errors, torn writes or not. `IInv` adds

* `HandsOK` – what the worker may rely on at each step (`Stage`: a job being
  collected has fetched nothing, one being ingested all it planned), that a
  queued job is fresh and unmerged, that only accepted jobs are merged;
* `LinesOK` – every line of the file is honest, and no line of a job that is
  still open (queued or in the worker's hands) is a finished one;
* `AnswersOK` – every record in RAM is honest.

`LinesOK` is what finality needs: the step that finishes a job appends the last
line of it because its earlier lines are unfinished and it leaves the worker's
hands. It survives torn lines because an append, whatever befalls it, only
keeps old lines in place and adds at most the new one at the end (`Wrote`,
`LinesStep`). `NextIInv` goes action by action; `RestartStep` uses that a
replayed record is a line of the file (`ReplayLine`), so honesty of lines
becomes honesty of records. `StatusAdvances` follows from the same invariant.

`Durable` and `ServiceImplemented` assume `SoundDisk` (no error, no torn line:
`MaxFaults = 0` and `~TornWrites`); without it both are false, and `WorkerSurvives` of section 6
shows how. They add `Synced`: the file ends clean and, while the process
lives, replaying it gives exactly the records in RAM. So a restart abandons
what is unfinished and changes nothing else, and every other action maps to the
abstract action that accepts, starts, publishes or finishes a job, or to a
stutter: one lemma each (`StartSims` to `RestartSims`).

**Claims**, for any claims, sources, objects, writers and bounds. `IInv` says

* of every record, whoever wrote it and from however old a copy (`RecordsOK`):
  it is superseded by its own source and contradicted by others only; the
  locals of a put fit each other (`LocalsOK`), no draft is made twice
  (`DraftsOK`), and there is no dispute yet about a draft that is not put
  (`DisputesOK`) – which is why a put never reopens a settled dispute, races or not;
* as long as no two compilations raced (`AloneOK`), what a put has listed is
  still true of the store (`Current`): rivals not yet settled are as listed,
  settled ones are superseded or marked, and no active claim that differs from
  the one being put is missing from the list;
* what then holds in the middle of a put: a difference is noted on both sides
  and queued, or is about to be (`Due`), and superseded claims lead to an active claim or
  to the one that is coming (`Coming`), by edges with a relation or about to get it
  (`Unlinked`). `ConflictsAreQueued` and `SupersessionEndsActive` are these with
  nobody at work. That there is no circle is stated of every set of superseded
  claims (one of its members is superseded by a claim outside it), which a
  newly superseded claim keeps, since what supersedes it is coming.

**Feedback**, for any ids and verdicts. `FeedbackInv` adds that the request
between its two writes stands on feedback that is stored with its verdict, and
that the copy the CLI edits, however old, is of a record that is there and of
the stored verdict: a review changes the status only, so writing back an old
copy cannot change the verdict.

**Refresh**, for any number of requests, packs, commits, fetches and kills.
`RefreshInv` adds what a coroutine may rely on between its writes (`LocalsOK`:
past its snapshot the snapshot is stored, past its compilation it is
compiled), that the source names a compiled snapshot, or a research run is
about to compile it or left it uncompiled (`LatestOK`), that a pack of replaced evidence is stale or
a refresh is about to mark it (`PackOK`), and that only stored snapshots are
compiled. One lemma per action; the steps between two writes rely on `MayRun`,
that is, on the loop.

**Ingest**, for any set of pages and nodes, any number of runs, edits,
reweightings and kills. `IngestInv` adds what a coroutine knows of the content
it read (`PageOK`: the page still has it, or got another one since; if the
page is done, the content was harvested, is thin or could not be read), that a
marked content is stored or its coroutine is about to store it (`RowOK`), and
that the copies a run and the reweighter will write contain what the file has
unless they were overtaken (`RunCopyOK`, `WeighedCopyOK`). `MarkedIsStored`
also assumes `Separate`: no two pages share the id of their heuristic.

**Unit index**, for any texts, statuses, dimensions, shapes of embeddings and
sets of opened indexes. `UnitInv` adds `CallOK`, how far the call has come and
what it has written by then (field by field, analyzer by analyzer), and
`CommittedOK`, that while no call rewrites them the embeddings, texts and the
native row of the committed record are all of its text.

**Reference packs**, for any units, claims, relations, questions and scores, and
whatever others write meanwhile. `PacksInv` adds what the builder knows of the
hits it has examined (`SurvivorsOK`): a survivor passed the guards at some
moment since the search, a hit that passed them all along survives, a survivor
has no score exactly if it is incompatible, and as long as nothing was written
the survivors are the examined hits that pass, with their present scores. The
rest is about ranking and cutting: the place of a hit is the number of better
ones, so a finite set of hits with one score each becomes a list in order
(`ByScoreOK`), whose best part comes first (`BestPartFirst`, which is what makes
the answer of `explain` a prefix of the pack); and the longest beginning within
number and budget ends where the next unit is too much (`TakenOK`). That no hit
has score 0 rests on the assumption that the scores of a search and the
confidence of relations are positive: both writers of relations give them 1.0
(`wiki/knowledge_units.py:95`, `claims.py:223`).

**Collection**, for any worlds and requests, limits, faults, kills and number of
runs. `CollectionInv` is `RunInv` (the locals of a run), `InHand` (what it is
about to write) and `ShelfInv` (the tables). None of the property's parts is
inductive without them:

* the budgets need that the batch under way fits what is left (`RoomOK`), since
  `WriteSnapshot` counts it two writes after `WithinLimits` cut it;
* that stored rows refer to stored rows needs that the documents in hand are of
  the snapshot just stored, that the wiki in hand cites its own documents only
  (`WikiOK`, from what `Compiled` makes of any documents: `EvidenceFor`,
  `PageOf`, `ComponentOf`), and that what a run has written of a wiki is still
  there when it writes units and claims, which cite it. A run that is killed or
  refused leaves a shelf on which every row stands by itself;
* that the citation verifier finds nothing (`AuditIs`) needs that a claim made of
  the wiki cites evidence of the wiki, whichever extractor made it
  (`ClaimsOfOK`), and that superseding a claim keeps its evidence;
* answers of their own calls: whatever the reply, a session keeps it only under
  the id of the request it answers (`RepliedOK`).

The best offer of every page is about ranking: `Sorted` puts what it is given at
the number of those ahead of it, so with integer keys it lists each of them once
and in order (`SortedOK`, `BestOfPage`, `QualifiedOK`), the first of each page is not worse than any other
of it, and cutting the list drops only what is no better than the rest. The
assumptions (`WikiAssumption`, `AdapterAssumption`, `CollectionAssumption`) say
that inputs are finite lists with ranks and sizes that are numbers, and that the
acquisition's own two paths are paths; TLC evaluates them in the `service` run.

**The bridge**, for any clusters, evidence and number of rewrites. `BridgeInv`
adds that a cluster without a hash has no tier, and that a hash taken of tier
"F" was taken of a demotion (`ClusterOK`): without it a publication that finds
the tier already "F" would demote and keep the old hash. `CopyOK` says the same of the
copy a label script holds, and that a cluster of the copy whose hash is out of
date is one somebody changed.

**Evidence**, for any scores, thresholds, traces and kills. `EvidenceInv` adds
that nothing is read or distilled that was not sent (`SentBounds`), and that
each kill spoils at most one acknowledged line, the one whose tail still stands
having spoiled none yet (`LossBounds`). Totals are sums over functions.

**Trends**, for any uplifts, window, number of reports and kills. `TrendInv`
adds that reports were taken in the order of their seconds (`Ordered`) and that
a readable snapshot is the last that was reported in its second (`Shelved`), so
the series is a selection of the history in its order (`SeriesIsReported`). The
slope is then summed by parts (`RisesAddUp`): a sum of the rises between
neighbours, each with a positive weight, and the weights alone add up to the
denominator. So a series that never falls has no negative slope, and one that
rises by more than the threshold at each step has a slope above it. A rise
between neighbours of the series spans several reports of the history, some of
which another overwrote; one of the rises between must then have its sign
(`RisesReach`).

**Graph and task packs**, for any assets, families, queries, scores, budgets and
number of edits, builds, kills and starts. `GraphInv` adds what a run that is
between its two writes has in hand: a sound graph, the cards its fixes were made
of, and after the first write that this graph is the one on disk
(`BuildingInv`). `WiredSound` is about the graph itself: each kind of edge runs
between nodes the graph has (`EdgesAre`, from one lemma per kind), a node has
the type of the first of its kinds (`NodesAre`), no edge FIXES leads to a
failure the taxonomy lacks (`FailureIdsKnown`), and what is observed in a task
is not transferable to it. `OfCards` links graph and manifest: the fixes are the
cards, and a contraindication is one a card warns of; so a pack made of that
manifest has the warning (`WarningsTold`) and recommends what fixes something
(`PacksFollow`). The rest is about the packs: the cards kept are put at the
number of those before them (`Ranked`), the bands of the plan share out the
budget (`PlanIs`), and cutting keeps beginnings (`Begins`, `TrimmedIs`), for
whatever was loaded (`AnswersInOrder`). Assumed, and evaluated by TLC:

* `SchemaAssumption`: rows have the fields of `schemas.py`, and domains are
  among `FRONTIER_DOMAINS`, which its validators check;
* `IdsAssumption`: the ids of failures and of candidates are of no other asset
  (the prefixes of `schemas.py`, on which the comment in
  `graph_builder_v2.py:68` relies), and tasks and candidates have ids of their
  own in their file (`tests/test_benchmark_extractor.py:388`). With one id
  twice, a pack could warn of what another card of that id says;
* `PackAssumption`: texts have finitely many words, budgets are numbers.

**Release**, for any versions and number of freezes. `FreezeOK` says which files
the directory holds at each step of a freeze, all of this attempt (`Written`);
`SumsOK` that sums which list a manifest list one whole freeze. A bundle that
verifies against its sums is therefore whole.

**Paired experiment**, for any panel and scale. A summary exists only after the
last reply was written (`SummaryAfterReplies`), and each judgment in it is one
its reply may get (`JudgmentsAreOfReplies`).

**Mining**, for any programs, copies and gates. Entries of the catalog, cards to
be written and cards are earned (`EntryEarned`, `CardEarned`): of one kind of
change, and counting no more files than one archive had that show it. The lemma
behind it is that the files behind an entry are among the files showing its
kind, as a sum over a part is no larger than the sum over the whole.

**Ranking**, for any arms, tasks, seeds, scores and crashed trials. `RankTypeOK`
is inductive, and it implies the property, which is about the report. Means are
fractions compared by cross products: a total order (`GapTransitive`,
`OrderOK`). An arm with a mean ranks at one more than the arms it does not reach
plus those it does not beat, halved (`RankIsPosition`), so who is better on a
task ranks better; that the ranks of a task add up is an induction on the set of
arms (`RanksAmong`).

**Robot logs**, for any rows, descriptions and task events, in any order.
`BucketsTell` says the buckets are what was read: one for each kind of event,
which counts those events, has the worst of their severities and exactly their
robots. One event more keeps that (`IngestedTells`), so the fold over the events
of a row does (`FoldIngests`); that the events of a row have their types is
shown format by format (`RowsBecomeEvents`). A report is then made of the
buckets (`SummaryHolds`): a failure per bucket, identifiers that begin with the
stem of their type, and stems that differ in their first word (`StemsDiffer`), and a gate that is
passed exactly where two robots share a kind of event or a pattern that fixes
both (`GateIs`). `Described` says constraints and cards are of the same
descriptions. Assumed: rows are well formed, a robot is described once, and
joints of one robot differ in more than case. Were two descriptions of a robot
read, or two joints of one lower-case name, the range of a card could be
another's; the code does not look for either.

**The two stores**, for any bundles, any transactions of clients, any searches
and any number of transactions and kills. `StoresInv` says

* of the tables of each store (`TablesOK`) that rows are under their ids, that
  they refer to what is there (`RowsStand`), that a place in the queue has its
  feedback (`AnswersQueued`) and, in memory, a feedback its place
  (`QueuesAnswers`), and that a unit with the id of a legacy cluster came after
  its evidence and, if that is the evidence of this bridge, is its unit
  (`LegacyStands`);
* of the transaction under way that SeekDB has done the calls before the next
  one (`WriterOK`);
* that the memory store has an import whole if it has its snapshot (`WholeIn`),
  and both have it if it returned on both (`ImportedOK`);
* that until SeekDB keeps part of a failed transaction or of a feedback
  (`torn`) its tables are
  those the memory store would have after the same calls (`TogetherOK`).

Two arguments carry it. Each call, given to stores with the same tables, leaves
the same tables and answers alike (`CallTwins`, one lemma for each kind of put);
this needs that snapshots are known by their ids, as SeekDB looks for another
row of the same version where the memory store compares rows. And a call that
*fits* (`CallFits`: its evidence is of the snapshot of its document, a unit of a
cluster comes after its evidence) keeps `TablesOK`, loses no row, and changes
none of the snapshots, documents, evidence and versions (`SeekSteps`; `MemSteps`
is its twin). That the calls of an import fit, one after the other, is
`ImportsOrdered`; a run of calls is a fold, which `RunToNext` takes a call at a
time. An import that was rolled back, refused or killed therefore leaves no row
that another import of the same bridge would not write, which is why `imported`
rows agree even when `torn`: `LegacyStands` is the part that is not inductive
without `ImportsOrdered`.

For the search, scores that are sorted list the ids in an order that is total
(`RankedIs`), what is found are the best of all that pass the filters (`HitsAre`), and a
hit with more of the words of the query comes first because two exact scores
are at least 4 of 60 apart while eight rankings together weigh less
(`ScoresApart`, `MostShares`, `BlendKeeps`). Assumed (`StoresAssumption`):

* clients put evidence after its document and of its snapshot, as the compiler
  and the collection do, and take no id with the prefix of the importer
  (`importer.py:151`, `importer.py:204`);
* bridges of one hash come with the same pattern files. The hash is of
  `bridge_index.json` alone (`importer.py:81`): the same bridge beside another
  directory of patterns would give one unit id to two units, and the second
  import would overwrite the first one's unit, on either store;
* a query has at most fifteen different words. Of more, the ranks may outweigh
  a word; with the weights of the code (0.7 and 0.3, `memory.py:401`) that
  begins at about eighteen words, in the sixtieths of the model
  a little earlier.

**Sums.** `FiniteSums` proves, without RECURSIVE operators, that a fold with +
over a finite set is the sum one expects: it does not depend on the order
`CHOOSE` takes the elements in, adds over parts, grows with its terms and counts
when they are ones. The modules write their sums with the folds of the
community modules, so these lemmas are about what TLC evaluates. It also has the place of an element in a finite set
that a relation orders: each place is taken, by one element; and what FlattenSeq
is of any sequences.

TLC agreed with the strengthened invariants of jobs, claims, feedback, refresh,
ingest, unit index, bridge, evidence, trends, reference packs, collection, the
graph and the stores on the instances of their runs; the others add only facts that were
proved directly.

Only model-checked:

* `WaitingJobsEnd`: liveness is outside the prover;
* `ServiceTypeOK`, `AssetsTypeOK`, `ExperimentsTypeOK`: each is the conjunction
  of type invariants of instances that share a run; those of the components
  above are proved of the components.

## 6. Findings and other disagreements

With a run (see `PROJECT.json`):

* `research_worker.py:110` – a disk error while a failure is recorded ends the
  only worker task; POSTs are still answered 202.
* `claims.py:432` – releases are compiled newest first and later puts
  supersede earlier ones: the oldest release note wins.
* `operations.py:289` – with two overlapping refreshes, packs of the snapshot
  actually replaced stay fresh.
* `store/seekdb.py:505` – an interrupted update of a unit is visible to readers.
* `bridge_reweighter.py:243` – the reweighter and a merge undo each other.
* `scripts/judge_frontier_eng.py:114` – the gate looks at replies of up to 200
  characters, but `verify_frontier_eng.py:581` and `:600` write longer error
  markers: they are judged and enter the uplift.

Met while modelling, without a run of their own. Most are what the modules do;
the rest lie just outside them.

Jobs, claims, feedback, refresh, ingest:

* `api.py:158` – after a restart, jobs that were queued or running are never run
  again although `api.py:186` invites clients to poll for completion.
* `research_worker.py:243` – exceptions other than the three named turn a merged
  job into a failed one, against "best-effort, non-blocking failure"
  (`research_worker.py:184`).
* `research_store.py:74` – a line cut inside a multi-byte character makes
  `load()` raise at every start (`unreadable` disables `Restart`).
* `claims.py:144` – a kill after the old claim is superseded leaves it superseded
  by a claim that does not exist; `claims.py:122` – two processes each keep
  their own claim active; `claims.py:142` – the one with the older clock reading
  writes a record no `list_claims` accepts any more (`ListRaised`);
  `claims.py:154` – a claim stays marked unresolved after its only rival is
  superseded, so packs omit it for good.
* `store/seekdb.py:860` – a redelivered POST reopens a settled review, though
  `docs/architecture/FEEDBACK_GOVERNANCE_V1.md:22` calls writes idempotent.
* `sources/orchestrator.py:169` – a research run that is killed, is refused its
  snapshot, or whose compilation raises (`wiki/compiler.py:420`, `:427`) after the
  source record was written leaves it naming a snapshot that is missing or not
  compiled (`cut`), and a refresh then sees no change.
* `incremental_pipeline.py:307` – a page edited while it is harvested is recorded
  with the new hash and never harvested (`late`); so is, with its own hash, a
  page that could not be read for a moment (`harvester.py:79`, `unread`).
* `store/seekdb.py:858` – a kill between the two puts of a feedback leaves it
  out of the review queue until it is delivered again.
* `harvester.py:147` – a run killed between the mark and the row loses the
  heuristic (`lost`); `harvester.py:119` – an error of the model marks the
  content processed; `incremental_pipeline.py:68` – a run killed while rewriting
  the bridge loses it.
* `store/seekdb.py:542` – a change of status alone never reaches the native row.

Collection and wiki:

* `rebuilt_page_types` misses pages that only lost a deleted document or whose
  inventory text changed.
* Steering that excludes every document raises after source and snapshot were
  stored, and fails the whole run.
* Researching an unchanged commit again raises `ImmutableSnapshotError`
  (`fetched_at` differs) and aborts the run.
* A catalogue page with the repository's URL outranks the GitHub offer, and the
  repository is then not compiled to a wiki.
* The arXiv snapshot's `content_hash` is of the abstract while a larger body is
  stored; its id does not depend on the content.
* An empty tool result is stored as the document `{}`; an endpoint response over
  the limit fails a whole GitHub fetch, one that is unavailable is skipped.

Stores and legacy import:

* Legacy documents and evidence are keyed by the file's hash alone while they
  belong to a bridge's snapshot: a newer release that shares an unchanged
  pattern with an imported one is always refused, and SeekDB keeps what was
  written before the refusal.
* The same bytes imported with the other origin are refused after the source
  row was overwritten; two cluster keys with one safe id, or a file cited under
  both its names, refuse the whole import.
* Putting a unit again with other vectors only answers True from memory and
  False from SeekDB; a negative limit slices from the end in SeekDB and returns
  nothing from memory; `SearchFilters.as_of` is read by neither;
  `put_evidence` does not check that the document is of the same snapshot.
* Legacy index versions are dated at the epoch, so the latest version never
  moves to them; a bundle's check covers the listed files only; stale vector
  rows make SeekDB report a match by a field the unit no longer has.

Reference packs:

* A unit that is incompatible with the context is listed, with score 0, though
  the warning says `compatibility_guard_rejected_for_use`; it may stand among
  the preferred references, while `explain` rejects it.
* `continuation_cursor` is read by nothing, and a unit larger than the budget
  keeps everything after it out of every pack.
* The pack id ignores `top_k` and the budget: a later pack replaces an earlier.
* Relations lead to units the filters excluded, deprecated ones among them, and
  may exceed the recall limit by one; the project of an item is looked for
  among its 20 strongest relations only.
* `explain` calls a unit whose claims are merely superseded an unresolved
  contradiction.
* `software_versions["ros"]` overrides `ros_distro` where compatibility is
  judged, not where the search filters.
* A pack put after another process marked the packs of its evidence stale is
  unmarked.

The bridge, evidence, trends:

* `synth_overrides.py:28` says a demotion is undone by deleting its entry, but
  tier, priority and lifecycle persist until a full recompile.
* Reweighting without evidence deletes a priority whoever set it
  (`muse.py:440`, `incremental_pipeline.py:165`); priorities and topics change
  without the hash, against `bridge_schema.py:18`.
* `scripts/promote.py` turns priority 1 into 0 under "production→demoted".
* `evidence_stats.json` is written even when a coverage gate is violated; the
  promotion gate counts traces of the true arm whether measured or not.
* A torn `pattern_metrics.json` makes the second reweighter raise;
  `analyze_trends` takes the bucketed keys of a payload for pattern ids;
  snapshots have the resolution of a second.
* The label scripts lose updates; a copying publish killed between removal and
  copy leaves nothing or a part, and the linking one gates only when it links.

Graph, cards, packs:

* Demotion and win rate never reach task packs: a compile always writes
  priority 0 and win rate 0. `RankerQuery.domain_hint` is read by nothing.
* A pack may stay over `max_tokens` after the hard clip; its plan may name
  patterns that were trimmed; with a budget below the number of bands the plan
  runs past the budget or backwards; the pack id ignores the budget.
* `FailureMode_missing` passes the acceptance of FIXES; two traces with one id
  hide one without pattern; graph and manifest are two writes; a torn line of
  the traces aborts the build.
* FixPattern→Embodiment, TRANSFERABLE_TO (for extracted cards), VIOLATES and
  CONSTRAINED_BY edges never arise from the script.
* In `benchmark_extractor.py` the scan of prose for a direction is dead code:
  "lower is better" without a known metric becomes maximize.

Experiments, release, mining:

* Rates divide by the tasks where the arm has a valid run, not by all tasks; a
  run that exits for a changed PID leaves its seed directories where
  `multiseed_aggregate.py` finds them; an error of HOW in mid-run is an empty
  treatment that counts.
* `freeze_bundle.py` records the hash of a sums file that it then rewrites, and
  counts the assets again instead of the frozen copy; the panel tests what HOW
  loaded, not what is bundled; the panel counts an injected adversarial failure
  twice.
* `trajectory_extractor.py:38` speaks of a successful mutation but lists those
  of all steps; programs of one task directory count as independent
  trajectories; cards of dropped candidates stay; robotics tasks that are not
  PID lose time budgets and optimizer swaps (`:295`).

Robot logs:

* Fingerprints that normalise alike give two failures with one id; the docstring
  of `RobotEvent` keys by embodiment, the mapper does not; a frozen event is
  not hashable; trace ids are not unique for several events of one type and
  iteration.
* `--controller-config` is applied to every URDF, not to the last; aliases with
  underscores never match; violation signals of a constraint never match the
  symptoms they are for.

Without a model: `migrations.py` wraps DDL, which commits by itself, in a
transaction, and is used by nothing; `taskcard/compiler.py` calls itself
deterministic but lists failures in the order of a set, cites memory and wiki
when they are disabled, and writes three files one after another; autodraft
drafts the same three blind spots at every run.

## 7. Plan

Done, in this order: research jobs with the abstract service and their proofs;
claims; refresh; feedback; ingest; unit index; then the bridge, evidence and
trends; the experiments, the release and mining; robot logs; collection with
adapters and wiki; the two stores, search and import; graph, packs and cards of
tasks; reference packs; the proofs about feedback, refresh, ingest and the unit
index; then those about durability and refinement of research jobs, about
claims, the bridge, evidence, release, paired experiment, mining, ranking,
reference packs and collection; at last those about trends, robot logs, the
graph and its packs, and the two stores.

Left, most important first:

1. Compositions: `ResearchJobs` with `IncrementalIngest` (a job killed inside an
   ingest), `SourceRefresh` with `ClaimGovernance` (packs and claims of a
   replaced snapshot).
2. Migrations, when something uses them.

## 8. Not modelled

* Parsing of bytes, regular expressions that find relations in prose, prompts
  and model answers: what they return is a nondeterministic choice or a listed
  input. The channels of `research_sources.py` and `awesome_fetcher.py` are
  network I/O; the worker sees counts.
* The text of an item of a reference pack: it is known by its size.
* Task cards (`taskcard/`): a pure compiler without state; agent evaluation
  (`agent_eval/`): a harness that keeps nothing between tasks; migrations: used
  by nothing; `contracts/` and `schemas.py`: declarations, of which the modules
  carry the validators that decide something; `promote.py`: a person's command.
* `curated_patterns.py` is data; `feedback_distill.py`, `active_learning.py`,
  `ast_extract.py`, `sim_ingest/bridge_direct.py` and the reports, lint and
  acceptance scripts keep no state that another part relies on.
* Wording and markdown of pages, cards and packs; embeddings as numbers: a
  vector is known by the text it was made of; scores are rounded as each module
  says.
* In a reference pack, writes of others between the reads of one unit, its
  snapshots and its claims; in a put of a unit, a kill, outside `UnitIndex`.
* The coroutines of an ingest that an exception ends in a process that lives on
  (`as_completed` leaves them running): `Crash` ends them with the run.
* A frozen bundle without `code_patterns`, which `freeze_bundle.py:209` skips.
* Two pages whose heuristics get one id (`harvester.py:151`): `Home` of the
  instance is injective, and `ExtractedIsStored` is stated for that case.
* Embeddings an update leaves in collections its record no longer names are
  seen by `StoreSearch` only as stale rows, not by `UnitIndex`.
* A file that mixes the bytes of two overlapping rewrites: the later one stands.
* Opening, isolation and backup of databases.
