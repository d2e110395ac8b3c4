----------------------------- MODULE SourceRefresh -----------------------------
(***************************************************************************)
(* How the snapshots of one repository get into the Know store: a refresh  *)
(* (operations.py, refresh_source: POST .../refresh) and a research run    *)
(* that discovers the repository (sources/orchestrator.py, run), while     *)
(* upstream moves on and reference packs are built from what is stored.    *)
(*                                                                         *)
(* Requests are coroutines of one API process: they interleave at their    *)
(* awaits (the adapter's snapshot and fetch_documents) and each then       *)
(* writes without a pause.  SeekDB keeps whatever was written when the     *)
(* process dies in between.                                                *)
(***************************************************************************)
EXTENDS Naturals

CONSTANTS
    Requests,      \* requests in flight
    Packs,         \* reference pack ids
    MaxCommit,     \* bound on upstream commits
    MaxFetches,    \* bound on the snapshots taken
    MaxRefreshCrashes,    \* bound on refresh_crashes
    Kinds          \* what clients ask for: "refresh", "research"

ASSUME RefreshAssumption ==
    /\ MaxCommit \in Nat \ {0} /\ MaxFetches \in Nat /\ MaxRefreshCrashes \in Nat
    /\ Kinds \subseteq {"refresh", "research"}

VARIABLES
    head,          \* the newest upstream commit
    latest,        \* latest_snapshot_id of the source record, 0 for None
    snapshots,     \* the snapshot collection: commit -> fetched_at, 0 if absent
    compiled,      \* commits whose wiki, units and claims are all stored
    packs,         \* the reference_pack collection
    request,       \* the locals of every request
    fetches, refresh_crashes,
    missed,        \* history: was the source ever moved without the packs of
                   \*   what it named being marked?
    cut            \* history: the commits that a research run made the latest
                   \*   and then ended, killed, refused or raising, without
                   \*   compiling them

history == <<missed, cut>>
store == <<latest, snapshots, compiled, packs>>
refresh_vars == <<head, latest, snapshots, compiled, packs, request, fetches, refresh_crashes,
          history>>

Commits == 1..MaxCommit
Kept    == {c \in Commits : snapshots[c] # 0}

\* asOf is the source's latest snapshot when the pack was built (history).
Pack == [cites: SUBSET Commits, stale: BOOLEAN, asOf: 0..MaxCommit]

\* Mutant of NoPack: a pack without the stale flag.
NoPackUnflagged == [cites |-> {}, asOf |-> 0]

NoPack == [cites |-> {}, stale |-> FALSE, asOf |-> 0]

Step    == {"idle", "snapshot", "fetch", "put", "compile", "source", "mark",
            "ingest_source", "ingest_put", "ingest_compile"}
Writing == {"put", "compile", "source", "mark",
            "ingest_source", "ingest_put", "ingest_compile"}
Locals  == [step: Step, kind: {"refresh", "research"}, previous: 0..MaxCommit,
            commit: 0..MaxCommit, fetched_at: 0..MaxFetches, marked: SUBSET Packs]
AtRest == [step |-> "idle", kind |-> "refresh", previous |-> 0, commit |-> 0,
            fetched_at |-> 0, marked |-> {}]

\* No other coroutine runs between the writes of one.
MayRun(r) == \A q \in Requests \ {r} : request[q].step \notin Writing

Reached(r, step) == request[r].step = step /\ MayRun(r)
Proceed(r, step) == request' = [request EXCEPT ![r].step = step]
Done(r) == request' = [request EXCEPT ![r] = AtRest]

\* What ending now would leave behind the source record.
Abandons(r) ==
    IF request[r].step \in {"ingest_put", "ingest_compile"}
    THEN {request[r].commit} \ compiled ELSE {}

-----------------------------------------------------------------------------
(* Upstream, and the clients.                                               *)

Push ==
    /\ head < MaxCommit
    /\ head' = head + 1
    /\ UNCHANGED <<store, request, fetches, refresh_crashes, history>>

\* refresh_source needs a source record; it reads it once, here.
Requested(r, kind) ==
    /\ Reached(r, "idle")
    /\ fetches < MaxFetches
    /\ kind = "refresh" => latest # 0
    /\ request' = [request EXCEPT ![r] =
                     [AtRest EXCEPT !.step = "snapshot", !.kind = kind,
                                     !.previous = latest]]
    /\ UNCHANGED <<head, store, fetches, refresh_crashes, history>>

\* The adapter resolves HEAD and stamps the snapshot with its own clock.
SnapshotTaken(r) ==
    /\ Reached(r, "snapshot")
    /\ fetches < MaxFetches
    /\ fetches' = fetches + 1
    /\ request' = IF request[r].kind = "refresh" /\ request[r].previous = head
                  THEN [request EXCEPT ![r] = AtRest]
                  ELSE [request EXCEPT ![r].step = "fetch", ![r].commit = head,
                                       ![r].fetched_at = fetches + 1]
    /\ UNCHANGED <<head, store, refresh_crashes, history>>

\* The documents of the pinned commit; a dry run ends here, as does a research
\* run that is left without documents, and an adapter that raises.
Fetched(r) ==
    /\ Reached(r, "fetch")
    /\ \/ Done(r)
       \/ Proceed(r, IF request[r].kind = "refresh" THEN "put" ELSE "ingest_source")
    /\ UNCHANGED <<head, store, fetches, refresh_crashes, history>>

-----------------------------------------------------------------------------
(* The writes.                                                              *)

\* Mutant of PutSnapshot: a snapshot that is already there is replaced.
PutSnapshotOverwrites(r, from, to) ==
    /\ Reached(r, from)
    /\ snapshots' = [snapshots EXCEPT ![request[r].commit] = request[r].fetched_at]
    /\ Proceed(r, to)
    /\ UNCHANGED <<head, latest, compiled, packs, fetches, refresh_crashes, history>>

\* store.put_snapshot compares whole records, fetched_at included: a commit
\* that is stored with another time raises ImmutableSnapshotError, which ends
\* the request.
PutSnapshot(r, from, to) ==
    /\ Reached(r, from)
    /\ LET c == request[r].commit
       IN  \/ /\ snapshots[c] \in {0, request[r].fetched_at}
              /\ snapshots' = [snapshots EXCEPT ![c] = request[r].fetched_at]
              /\ Proceed(r, to)
              /\ UNCHANGED cut
           \/ /\ snapshots[c] \notin {0, request[r].fetched_at}
              /\ Done(r)
              /\ cut' = cut \cup Abandons(r)
              /\ UNCHANGED snapshots
    /\ UNCHANGED <<head, latest, compiled, packs, fetches, refresh_crashes, missed>>

\* compile_project_wiki, compile_knowledge_units and compile_claims.  Any of them
\* may raise, which ends the request with what was written before: the wiki
\* does when there are no documents or the steering of the repository excludes
\* them all.
CompileAll(r, from, to) ==
    /\ Reached(r, from)
    /\ \/ /\ compiled' = compiled \cup {request[r].commit}
          /\ IF to = "idle" THEN Done(r) ELSE Proceed(r, to)
          /\ UNCHANGED cut
       \/ /\ Done(r)
          /\ cut' = cut \cup Abandons(r)
          /\ UNCHANGED compiled
    /\ UNCHANGED <<head, latest, snapshots, packs, fetches, refresh_crashes, missed>>

SourceWritten(r, from, to) ==
    /\ Reached(r, from)
    /\ latest' = request[r].commit
    /\ missed' = (missed \/ /\ latest' # latest
                            /\ \/ request[r].kind = "research"
                               \/ request[r].previous # latest)
    /\ Proceed(r, to)
    /\ UNCHANGED <<head, snapshots, compiled, packs, fetches, refresh_crashes, cut>>

\* Mutant of Outdated: only packs built from nothing but the old snapshot.
OutdatedOnly(r) == {p \in Packs : packs[p].cites = {request[r].previous}}

\* mark_reference_packs_stale(previous): the packs that cite it.
Outdated(r) == {p \in Packs : request[r].previous \in packs[p].cites}

MarkStale(r) ==
    /\ Reached(r, "mark")
    /\ \/ \E p \in Outdated(r) \ request[r].marked :
             /\ packs' = [packs EXCEPT ![p].stale = TRUE]
             /\ request' = [request EXCEPT ![r].marked = @ \cup {p}]
       \/ /\ Outdated(r) \subseteq request[r].marked
          /\ Done(r)
          /\ UNCHANGED packs
    /\ UNCHANGED <<head, latest, snapshots, compiled, fetches, refresh_crashes, history>>

\* Mutant of RefreshWrites: the source record goes first.
RefreshWritesSourceFirst(r) ==
    \/ SourceWritten(r, "put", "source")
    \/ PutSnapshot(r, "source", "compile")
    \/ CompileAll(r, "compile", "mark")
    \/ MarkStale(r)

RefreshWrites(r) ==
    \/ PutSnapshot(r, "put", "compile")
    \/ CompileAll(r, "compile", "source")
    \/ SourceWritten(r, "source", "mark")
    \/ MarkStale(r)

\* ResearchOrchestrator.run writes the source record before the snapshot.
IngestWrites(r) ==
    \/ SourceWritten(r, "ingest_source", "ingest_put")
    \/ PutSnapshot(r, "ingest_put", "ingest_compile")
    \/ CompileAll(r, "ingest_compile", "idle")

\* The pack id is a hash of the query, so building it again replaces it; its
\* evidence may come from any compiled snapshot.
BuildPack(p) ==
    /\ \A r \in Requests : request[r].step \notin Writing
    /\ \E S \in (SUBSET compiled) \ {{}} :
          packs' = [packs EXCEPT ![p] =
                      [cites |-> S, stale |-> FALSE, asOf |-> latest]]
    /\ UNCHANGED <<head, latest, snapshots, compiled, request, fetches, refresh_crashes, history>>

RefreshCrash ==
    /\ refresh_crashes < MaxRefreshCrashes
    /\ refresh_crashes' = refresh_crashes + 1
    /\ request' = [r \in Requests |-> AtRest]
    /\ missed' = (missed \/ \E r \in Requests : request[r].step = "mark")
    /\ cut' = cut \cup UNION {Abandons(r) : r \in Requests}
    /\ UNCHANGED <<head, store, fetches>>

\* A repository that a research run has ingested at its first commit.
RefreshInit ==
    /\ head = 1 /\ latest = 1
    /\ snapshots = [c \in Commits |-> IF c = 1 THEN MaxFetches + 1 ELSE 0]
    /\ compiled = {1}
    /\ packs = [p \in Packs |-> NoPack]
    /\ request = [r \in Requests |-> AtRest]
    /\ fetches = 0 /\ refresh_crashes = 0
    /\ missed = FALSE /\ cut = {}

RefreshNext ==
    \/ Push
    \/ \E r \in Requests :
          \/ \E kind \in Kinds : Requested(r, kind)
          \/ SnapshotTaken(r) \/ Fetched(r)
          \/ RefreshWrites(r) \/ IngestWrites(r)
    \/ \E p \in Packs : BuildPack(p)
    \/ RefreshCrash

RefreshSpec == RefreshInit /\ [][RefreshNext]_refresh_vars

-----------------------------------------------------------------------------
(* Properties.                                                              *)

Calm == \A r \in Requests : request[r].step \notin Writing

\* Every variable has its type (SourceRecordV2, SourceSnapshotV2,
\* ReferencePackV2 and the locals of the two coroutines).
RefreshTypeOK ==
    /\ head \in Commits /\ latest \in 0..MaxCommit
    /\ snapshots \in [Commits -> 0..MaxFetches + 1]
    /\ compiled \subseteq Commits
    /\ packs \in [Packs -> Pack]
    /\ request \in [Requests -> Locals]
    /\ fetches \in 0..MaxFetches /\ refresh_crashes \in 0..MaxRefreshCrashes
    /\ missed \in BOOLEAN /\ cut \subseteq Commits

\* A stored snapshot is never altered or lost, whatever is fetched again and
\* in whatever order the requests write
\* (test_refresh_defaults_to_dry_run_then_preserves_history_and_stales_pack).
HistoryPreserved ==
    [][\A c \in Kept : snapshots'[c] = snapshots[c]]_refresh_vars

\* Whenever another request can look, the snapshot the source record names is
\* stored and completely compiled, whatever was killed, refused or raised in the
\* middle of a refresh, and whatever was compiled of other commits.  The one
\* exception is a commit that a research run, which writes the source record
\* first, named there and then did not compile: it was killed, was refused the
\* snapshot that an earlier request had stored with another time, or its
\* compilation raised.
CurrentIsCompiled == Calm => latest \in (Kept \cap compiled) \cup cut

\* A pack whose evidence was current when it was built and has been replaced
\* since is marked stale (test_operations_v1.py:90).
ReplacedPacksAreStale ==
    Calm => \A p \in Packs :
        packs[p].asOf \in packs[p].cites /\ packs[p].asOf # latest => packs[p].stale

\* That holds as long as every replacement is a refresh that read the source as
\* it then replaces it and lives to mark the packs: nothing else in the code
\* loses a mark, whatever is built, rebuilt, fetched or refused in between.
ReplacedEvidenceIsStale == ~missed => ReplacedPacksAreStale
=============================================================================
