----------------------------- MODULE LegacyImport ------------------------------
(* Transactions over the KnowStore contract: the import of a legacy bridge or *)
(* of an offline bundle (legacy/importer.py, legacy/bundle.py) and what other *)
(* clients write.  The memory store takes a transaction as a whole or not at  *)
(* all; SeekDB takes it call by call and keeps what came before an exception  *)
(* or a kill.  Both start alike and are given the same transactions.          *)
EXTENDS StoreSearch

CONSTANTS
    Bundles,          \* what can be imported
    ClientWrites,     \* the transactions of other clients, as sequences of calls
    StartingStores,         \* sequences of calls that the stores may start with
    Searches,         \* [query, vectors, filters] asked of both stores
    MaxTransactions, MaxTransactionKills   \* bounds of the model

VARIABLES
    memory, seek,     \* the two stores
    writing,          \* the transaction under way on SeekDB
    answers,          \* what each store answered to the last one that ended
    imported,         \* the bundles whose import returned on both
    torn,             \* SeekDB kept part of a transaction
    transactions, transaction_kills

stores_vars == <<memory, seek, writing, answers, imported, torn, transactions, transaction_kills>>

NotWriting == [bundle |-> 0, calls |-> << >>, at |-> 0, got |-> << >>]
CallTo(table, row) == [table |-> table, row |-> row]

-----------------------------------------------------------------------------
(* legacy/exporter.py, legacy/bundle.py                                       *)

\* A release of a store: a cluster and a pattern file per unit; the pattern
\* file says nothing of the release, so its hash is that of the unit's text.
RenderedRelease(release, units) ==
    [hash |-> release, origin |-> 2, sound |-> TRUE, damaged |-> FALSE,
     clusters |-> [i \in DOMAIN units |->
        [key |-> units[i].key, safe |-> units[i].key, named |-> TRUE, text |-> units[i].text,
         patterns |-> <<units[i].key>>]],
     files |-> [i \in DOMAIN units |->
        [stem |-> units[i].key, alias |-> units[i].key, hash |-> units[i].text]]]

\* Every file of the manifest is there with its hash, or nothing is imported.
Verified(bundle) == ~bundle.damaged

-----------------------------------------------------------------------------
(* legacy/importer.py                                                         *)

\* A pattern goes by its stem and by the older name for it; a later file wins.
PatternFiles(files) ==
    FoldLeft(LAMBDA names, f : Taking(Taking(names, f.stem, f), f.alias, f), << >>, files)

LegacySource(b) ==
    [id |-> <<0, b.hash>>, url |-> <<b.origin, b.hash>>, latest |-> <<0, b.hash>>]
LegacySnapshot(b) ==
    [id |-> <<0, b.hash>>, source |-> <<0, b.hash>>, version |-> <<b.origin, b.hash>>]
BridgeDocument(b) ==
    [id |-> <<0, b.hash>>, snapshot |-> <<0, b.hash>>, path |-> 0, title |-> 0, origin |-> b.origin]
BridgeEvidence(b, cluster) ==
    [id |-> <<cluster.safe, b.hash>>, snapshot |-> <<0, b.hash>>, document |-> <<0, b.hash>>,
     says |-> <<cluster.key, b.origin>>]
\* A pattern is known by its hash alone, whatever bridge brings it.
PatternDocument(b, name, file) ==
    [id |-> <<1, file.hash>>, snapshot |-> <<0, b.hash>>, path |-> file.stem, title |-> name,
     origin |-> b.origin]
PatternEvidence(b, file) ==
    [id |-> <<0, file.hash>>, snapshot |-> <<0, b.hash>>, document |-> <<1, file.hash>>,
     says |-> <<file.stem, b.origin>>]
LegacyUnit(b, cluster, cited) ==
    [id |-> <<cluster.safe, b.hash>>, text |-> cluster.text, type |-> "design_pattern", status |-> "draft",
     snapshots |-> {<<0, b.hash>>}, evidence |-> cited, robots |-> {}, ros |-> "", simulator |-> "",
     vectors |-> [f \in VectorFields |-> NoVector]]
LegacyVersion(b) == [id |-> <<0, b.hash>>, at |-> 0]

\* The calls of a cluster: its evidence, what it cites of the pattern files there
\* are, and the unit.
Cites(b, cluster, i) == cluster.patterns[i] \in DOMAIN PatternFiles(b.files)
Cited(b, cluster, i) == PatternFiles(b.files)[cluster.patterns[i]]
CitedEvidence(b, cluster) ==
    {BridgeEvidence(b, cluster).id}
    \cup {PatternEvidence(b, Cited(b, cluster, i)).id : i \in {i \in DOMAIN cluster.patterns : Cites(b, cluster, i)}}
PatternCalls(b, cluster, i) ==
    IF Cites(b, cluster, i)
    THEN <<CallTo("documents", PatternDocument(b, cluster.patterns[i], Cited(b, cluster, i))),
           CallTo("evidence", PatternEvidence(b, Cited(b, cluster, i)))>>
    ELSE << >>
ClusterUnit(b, cluster) == LegacyUnit(b, cluster, CitedEvidence(b, cluster))
ClusterCalls(b, cluster) ==
    <<CallTo("evidence", BridgeEvidence(b, cluster))>>
    \o FlattenSeq([i \in DOMAIN cluster.patterns |-> PatternCalls(b, cluster, i)])
    \o <<CallTo("units", ClusterUnit(b, cluster))>>

\* The calls of an import, in the order of the sorted clusters; one without a
\* name is passed over.
ImportCalls(b) ==
    <<CallTo("sources", LegacySource(b)), CallTo("snapshots", LegacySnapshot(b)),
      CallTo("documents", BridgeDocument(b))>>
    \o FlattenSeq([i \in DOMAIN b.clusters |->
          IF b.clusters[i].named THEN ClusterCalls(b, b.clusters[i]) ELSE << >>])
    \o <<CallTo("versions", LegacyVersion(b))>>
ImportPlans == [i \in DOMAIN Bundles |-> ImportCalls(Bundles[i])]

-----------------------------------------------------------------------------
(* The transactions.                                                          *)

Raises(answer) == answer \in {"unknown", "immutable", "conflict"}

\* One call after another, with what each answered; an exception ends the run.
Called(store, s, call) == IF store = "memory" THEN MemCall(s, call) ELSE SeekCall(s, call)
RunsFrom(s) == [tables |-> s, got |-> << >>, raised |-> FALSE]
RunOn(store, run, call) ==
    LET result == Called(store, run.tables, call) IN
    IF run.raised THEN run
    ELSE [tables |-> result.tables, got |-> Append(run.got, result.answer), raised |-> Raises(result.answer)]
RunAll(store, s, calls) == FoldLeft(LAMBDA run, call : RunOn(store, run, call), RunsFrom(s), calls)

\* Mutant: the copy that a failed transaction goes back to is not made.
MemTransactionKept(s, calls) == RunAll("memory", s, calls)
\* InMemoryKnowStore.transaction around the calls
MemTransaction(s, calls) ==
    LET end == RunAll("memory", s, calls) IN
    [end EXCEPT !.tables = IF end.raised THEN s ELSE @]

\* The ids of units are pairs of numbers, of a source and of what is in it.
IsUnit(row) ==
    /\ row = [id |-> row.id, text |-> row.text, type |-> row.type, status |-> row.status,
              snapshots |-> row.snapshots, evidence |-> row.evidence, robots |-> row.robots,
              ros |-> row.ros, simulator |-> row.simulator, vectors |-> row.vectors]
    /\ row.id \in Int \X Int

LegacyUnitIds ==
    UNION {{<<Bundles[b].clusters[i].safe, Bundles[b].hash>> : i \in DOMAIN Bundles[b].clusters} :
               b \in DOMAIN Bundles}

\* The clients put evidence after the document it quotes, of one snapshot, and
\* take no id that starts as the importer's do.
Clients(calls) ==
    /\ calls \in Seq(ToSet(calls)) /\ calls # << >>
    /\ \A i \in DOMAIN calls :
          LET t == calls[i].table row == calls[i].row IN
          /\ t \in TableNames
          /\ t = "snapshots" => row \notin {LegacySnapshot(Bundles[b]) : b \in DOMAIN Bundles}
          /\ t = "evidence" =>
                \E j \in 1..(i - 1) : /\ calls[j].table = "documents" /\ calls[j].row.id = row.document
                                      /\ calls[j].row.snapshot = row.snapshot
          /\ t = "units" => IsUnit(row) /\ row.id \notin LegacyUnitIds

\* A bridge is a dictionary by key and is known by its hash: bridges of one hash
\* are the same bytes, imported with the pattern files that they came with.
Releases(b, c) == b.hash = c.hash => b.clusters = c.clusters /\ b.files = c.files
IsBundle(b) ==
    /\ b.hash \in Int /\ b.clusters \in Seq(ToSet(b.clusters))
    /\ \A i \in DOMAIN b.clusters :
          /\ b.clusters[i].safe \in Int
          /\ b.clusters[i].patterns \in Seq(ToSet(b.clusters[i].patterns))
          /\ \A j \in DOMAIN b.clusters : b.clusters[i].key = b.clusters[j].key => i = j

\* A query has at most fifteen words: of more, the ranks may outweigh one.
MaxAsked == 15
IsSearch(q) ==
    /\ q.query \in Seq(ToSet(q.query)) /\ Cardinality(ToSet(q.query)) <= MaxAsked
    /\ q.limit \in Int

ASSUME StoresAssumption ==
    /\ \A b \in DOMAIN Bundles : IsBundle(Bundles[b]) /\ \A c \in DOMAIN Bundles : Releases(Bundles[b], Bundles[c])
    /\ \A w \in DOMAIN ClientWrites : Clients(ClientWrites[w])
    /\ \A p \in DOMAIN StartingStores : StartingStores[p] # << >> => Clients(StartingStores[p])
    /\ \A q \in Searches : IsSearch(q)

Starts(bundle, calls) ==
    /\ writing = NotWriting /\ transactions < MaxTransactions
    /\ writing' = [bundle |-> bundle, calls |-> calls, at |-> 1, got |-> << >>]
    /\ transactions' = transactions + 1
    /\ UNCHANGED <<memory, seek, answers, imported, torn, transaction_kills>>
\* A file that is no bridge, or a damaged bundle, is refused before any write.
StartImport(i) ==
    /\ Bundles[i].sound /\ Verified(Bundles[i])
    /\ Starts(i, ImportPlans[i])
StartWrites(w) == Starts(0, ClientWrites[w])

\* The memory store is given the transaction when that of SeekDB has ended.
Ended(got, raised) ==
    LET whole == MemTransaction(memory, writing.calls) IN
    /\ memory' = whole.tables
    /\ answers' = [memory |-> whole.got, seek |-> got, calls |-> writing.calls]
    /\ imported' = IF raised \/ whole.raised \/ writing.bundle = 0
                       THEN imported
                       ELSE imported \cup {writing.bundle}
    /\ torn' = (torn \/ (raised /\ writing.at > 1))
    /\ writing' = NotWriting

WriteNext ==
    /\ writing # NotWriting
    /\ LET r == SeekCall(seek, writing.calls[writing.at])
           got == Append(writing.got, r.answer)
           raised == Raises(r.answer) IN
       /\ seek' = r.tables
       /\ IF raised \/ writing.at = Len(writing.calls) THEN Ended(got, raised)
          ELSE /\ writing' = [writing EXCEPT !.at = @ + 1, !.got = got]
               /\ UNCHANGED <<memory, answers, imported, torn>>
    /\ UNCHANGED <<transactions, transaction_kills>>

\* Killed between two calls; on the memory store nothing of it ever was.
WriterKilled ==
    /\ writing # NotWriting /\ transaction_kills < MaxTransactionKills
    /\ transaction_kills' = transaction_kills + 1
    /\ torn' = (torn \/ writing.at > 1)
    /\ writing' = NotWriting
    /\ UNCHANGED <<memory, seek, answers, imported, transactions>>

\* Killed between the two puts of a feedback: it is stored and has no place in the
\* queue.
FeedbackCut ==
    /\ writing # NotWriting /\ transaction_kills < MaxTransactionKills
    /\ LET call == writing.calls[writing.at]
           put == FeedbackStored(seek, call.row) IN
       /\ call.table = "feedback" /\ put.answer = "written"
       /\ seek' = put.tables
    /\ transaction_kills' = transaction_kills + 1
    /\ torn' = TRUE
    /\ writing' = NotWriting
    /\ UNCHANGED <<memory, answers, imported, transactions>>

StoresInit ==
    /\ \E p \in DOMAIN StartingStores :
          /\ memory = RunAll("memory", EmptyMemory, StartingStores[p]).tables
          /\ seek = RunAll("seekdb", EmptySeek, StartingStores[p]).tables
    /\ writing = NotWriting /\ answers = [memory |-> << >>, seek |-> << >>, calls |-> << >>]
    /\ imported = {} /\ torn = FALSE /\ transactions = 0 /\ transaction_kills = 0

StoresNext ==
    \/ \E i \in DOMAIN Bundles : StartImport(i)
    \/ \E w \in DOMAIN ClientWrites : StartWrites(w)
    \/ WriteNext \/ WriterKilled \/ FeedbackCut

StoresSpec == StoresInit /\ [][StoresNext]_stores_vars

-----------------------------------------------------------------------------
(* Properties.                                                                *)

\* Every variable has its type.
StoresTypeOK ==
    /\ DOMAIN memory = DOMAIN EmptyMemory /\ DOMAIN seek = DOMAIN EmptySeek
    /\ writing.bundle \in {0} \cup DOMAIN Bundles /\ writing.at \in 0..Len(writing.calls)
    /\ imported \subseteq DOMAIN Bundles /\ torn \in BOOLEAN
    /\ transactions \in 0..MaxTransactions /\ transaction_kills \in 0..MaxTransactionKills

\* What a row refers to is stored, and evidence is of the snapshot that its
\* document still belongs to, whatever was refused, rolled back or killed.  A place
\* in the review queue has its feedback.
ReferencesStand(s) ==
    /\ \A t \in {"documents", "evidence", "cards", "components", "pages"} :
          \A row \in TableRows(s, t) : Stored(s, "snapshots", row.snapshot)
    /\ \A e \in TableRows(s, "evidence") :
          Stored(s, "documents", e.document) /\ s.documents[e.document].snapshot = e.snapshot
    /\ \A row \in TableRows(s, "units") \cup TableRows(s, "claims") :
          row.snapshots \subseteq DOMAIN s.snapshots /\ row.evidence \subseteq DOMAIN s.evidence
    /\ \A c \in TableRows(s, "claims") : c.unit = << >> \/ Stored(s, "units", c.unit)
    /\ \A d \in TableRows(s, "disagreements") : d.claims \subseteq DOMAIN s.claims
    /\ \A r \in TableRows(s, "relations") : Stored(s, "evidence", r.evidence)
    /\ DOMAIN s.governance \subseteq DOMAIN s.feedback

\* The memory store has all of an import that it has the snapshot of.
WholeImports ==
    \A b \in DOMAIN Bundles :
        LET calls == ImportPlans[b] IN
        LegacySnapshot(Bundles[b]) \in TableRows(memory, "snapshots") =>
            \A i \in 2..Len(calls) : calls[i].row \in TableRows(memory, calls[i].table)

\* All that the reads of a store answer, of its tables.
Tables(s) == [t \in TableNames |-> s[t]]
Reads(s) ==
    [statistics |-> Statistics(s), latest |-> LatestVersion(s),
     documents |-> [id \in DOMAIN s.snapshots |-> ListDocuments(s, id)],
     claims |-> [id \in DOMAIN s.snapshots |-> ListClaims(s, << >>, id, "active")],
     pages |-> ListPages(s, 1), open |-> ListDisagreements(s, "pending_review", 1),
     queue |-> ListGovernance(s, "", "pending_review", 1),
     related |-> [id \in DOMAIN s.units |-> Related(s, id, 1)]]

\* Two answers to a call are alike; only a unit brought with other embeddings
\* and nothing else is written again by the memory store and not by SeekDB.
Alike(call, m, s) == m = s \/ (call.table = "units" /\ m = "written" /\ s = "same")

\* Of hits, the better comes first, and none with fewer of the words before
\* one with more; a hit passes the filters.
SoundHits(s, q, hits) ==
    /\ \A i, j \in DOMAIN hits : i < j => hits[i].score >= hits[j].score /\ hits[i].exact >= hits[j].exact
    /\ \A i \in DOMAIN hits : MatchesFilters(s.units[hits[i].id], q.filters)
SearchesAgree(q) ==
    LET mem == MemSearch(memory, q.query, q.vectors, q.filters, q.limit)
        sdb == SeekFallback(seek, q.query, q.vectors, q.filters, q.limit)
        Ids(hits) == {hits[i].id : i \in DOMAIN hits} IN
    /\ SoundHits(memory, q, mem) /\ SoundHits(seek, q, sdb)
    /\ \A i \in DOMAIN mem : \A f \in mem[i].by : memory.units[mem[i].id].vectors[f] # NoVector
    /\ \A results \in NativeAnswers(seek, q.filters, q.limit) :
          SoundHits(seek, q, SeekSearch(seek, q.query, q.vectors, q.filters, q.limit, TRUE, results))
    /\ ~torn => /\ q.limit >= Cardinality(DOMAIN memory.units) => Ids(mem) = Ids(sdb)
                /\ mem # << >> => mem[1].exact = sdb[1].exact

\* The two stores answer the same calls alike and hold the same rows, until
\* SeekDB keeps part of a transaction that failed, or of a feedback, whose put is
\* two writes.  Even then an import that returned on both has left them the same
\* rows, the memory store has an import as a whole or not at all and a place in
\* the queue for every feedback, every row refers to stored rows, and a search
\* finds what passes its filters.
StoresAgree ==
    /\ ReferencesStand(memory) /\ ReferencesStand(seek) /\ WholeImports
    /\ DOMAIN memory.feedback \subseteq DOMAIN memory.governance
    /\ writing = NotWriting =>
        /\ ~torn => /\ \A t \in TableNames : memory[t] = seek[t]
                    /\ Len(answers.memory) = Len(answers.seek)
                    /\ \A i \in DOMAIN answers.memory :
                          Alike(answers.calls[i], answers.memory[i], answers.seek[i])
                    /\ Reads(Tables(memory)) = Reads(Tables(seek))
        /\ \A b \in imported :
              LET calls == ImportPlans[b] IN
              \A i \in 2..Len(calls) :
                 LET t == calls[i].table id == calls[i].row.id IN
                 Stored(memory, t, id) /\ Stored(seek, t, id) /\ memory[t][id] = seek[t][id]
        /\ \A q \in Searches : SearchesAgree(q)
=============================================================================
