--------------------------- MODULE IncrementalIngest ---------------------------
(***************************************************************************)
(* run_incremental_ingest (incremental_pipeline.py): the wiki pages the    *)
(* source manifest calls dirty are harvested concurrently (harvester.py,   *)
(* infra.py), Muse mints clusters for the graph nodes the bridge lacks,    *)
(* and the new clusters are merged into bridge_index.json.                 *)
(*                                                                         *)
(* Meanwhile pages are edited, another process reweights the bridge        *)
(* (bridge_reweighter.py), and either may be killed, or abort on an        *)
(* exception, at any point.  The sqlite commits are atomic; manifest and   *)
(* bridge are truncated and rewritten in place by write_text.  Of two      *)
(* rewrites that overlap the later one stands: a file that mixes both      *)
(* contents is left out.  Two contents of pages have different bodies.     *)
(***************************************************************************)
EXTENDS Naturals

CONSTANTS
    Pages,         \* markdown files
    Nodes,         \* heuristic ids, which are also the ids of clusters
    Home,          \* [Pages -> Nodes]: the id a page's heuristic gets, its stem
                   \*   or the existing id check_duplicate_and_align finds
    Curated,       \* the clusters the bridge starts with
    Thin,          \* the contents too short to be harvested
    Flaky,         \* the contents that a read may fail on
    MaxVersion,    \* bound on the versions of a page
    MaxRuns,       \* bound on the runs
    MaxCrashes     \* bound on killed processes

Content == Pages \X (1..MaxVersion)

ASSUME IngestAssumption ==
    /\ Home \in [Pages -> Nodes] /\ Curated \subseteq Nodes
    /\ Thin \subseteq Content /\ Flaky \subseteq Content
    /\ MaxVersion \in Nat \ {0} /\ MaxRuns \in Nat /\ MaxCrashes \in Nat

VARIABLES
    version,       \* the content of each page
    manifest,      \* source_manifest.json: the recorded hash, 0 for none
    manifestWhole, \* can it be parsed?
    processed,     \* processed_files: the contents marked
    extracted,     \* those marked "extracted"
    heuristics,    \* the heuristics table: id -> content, or NoRow
    bridge,        \* bridge_index.json as last written out in full
    bridgeWhole,   \* can it be parsed?
    run,           \* where the run is
    ram,           \* its SourceManifest
    page,          \* the process_single_page coroutines
    target,        \* the nodes Muse works on
    merged,        \* the bridge merge_into_bridge is about to write
    weighed,       \* the bridge the reweighter is about to write
    reweighing,    \* where the reweighter is
    runs, crashes,
    late,          \* history: the contents a page got between being read and
                   \*   being hashed again
    unread,        \* history: the contents that a run failed to read
    lost,          \* history: the contents marked "extracted" by a run that was
                   \*   killed before it stored them
    outdated       \* history: the writers of the bridge whose copy is not, or no
                   \*   longer, what the file held

files == <<manifest, manifestWhole, bridge, bridgeWhole>>
tables == <<processed, extracted, heuristics>>
proc == <<run, ram, page, target, merged>>
other == <<weighed, reweighing>>
history == <<late, unread, lost, outdated>>
vars == <<version, files, tables, proc, other, runs, crashes, history>>

NoRow   == <<>>
NoFile  == [n \in Nodes |-> "absent"]
Clusters(b) == {n \in Nodes : b[n] # "absent"}

Parked == [at |-> "idle", content |-> 0]

\* SourceManifest.load: a file that cannot be parsed is an empty manifest.
LoadedManifest == IF manifestWhole THEN manifest ELSE [p \in Pages |-> 0]

\* Mutant of Loaded: the file is not looked at again.
LoadedEmpty == [n \in Nodes |-> "absent"]

\* _load_existing_bridge: a file that cannot be parsed is an empty bridge.
Loaded == IF bridgeWhole THEN bridge ELSE NoFile

\* Every variable has its type, and the extracted contents are among those
\* is_processed finds.
TypeOK ==
    /\ version \in [Pages -> 1..MaxVersion]
    /\ manifest \in [Pages -> 0..MaxVersion] /\ manifestWhole \in BOOLEAN
    /\ processed \subseteq Content /\ extracted \subseteq processed
    /\ heuristics \in [Nodes -> Content \cup {NoRow}]
    /\ {bridge, merged, weighed} \subseteq
          [Nodes -> {"absent", "plain", "weighted"}]
    /\ bridgeWhole \in BOOLEAN
    /\ run \in {"off", "harvest", "muse", "merge", "write", "save", "saving"}
    /\ ram \in [Pages -> 0..MaxVersion]
    /\ page \in [Pages -> [at: {"idle", "start", "asked", "found", "done"},
                           content: 0..MaxVersion]]
    /\ target \subseteq Nodes
    /\ reweighing \in {"off", "read", "write"}
    /\ runs \in 0..MaxRuns /\ crashes \in 0..MaxCrashes
    /\ late \subseteq Content /\ unread \subseteq Flaky /\ lost \subseteq extracted
    /\ outdated \subseteq {"run", "reweighter"}

Init ==
    /\ version = [p \in Pages |-> 1]
    /\ manifest = [p \in Pages |-> 0] /\ manifestWhole = TRUE
    /\ processed = {} /\ extracted = {}
    /\ heuristics = [n \in Nodes |-> NoRow]
    /\ bridge = [n \in Nodes |-> IF n \in Curated THEN "plain" ELSE "absent"]
    /\ bridgeWhole = TRUE
    /\ run = "off" /\ ram = manifest
    /\ page = [p \in Pages |-> Parked]
    /\ target = {} /\ merged = NoFile
    /\ weighed = NoFile /\ reweighing = "off"
    /\ runs = 0 /\ crashes = 0
    /\ late = {} /\ unread = {} /\ lost = {} /\ outdated = {}

-----------------------------------------------------------------------------
(* The world around the run.                                                *)

Edit(p) ==
    /\ version[p] < MaxVersion
    /\ version' = [version EXCEPT ![p] = @ + 1]
    /\ late' = IF page[p].at \in {"asked", "found", "done"}
               THEN late \cup {<<p, version[p] + 1>>} ELSE late
    /\ UNCHANGED <<files, tables, proc, other, runs, crashes, unread, lost, outdated>>

\* reweight_bridge_index, in a process of its own.  The patterns of some
\* clusters have evidence; the file is written only if that changes something,
\* and a file that cannot be parsed makes it raise.
ReweightRead ==
    /\ reweighing = "off" /\ bridgeWhole
    /\ \E ns \in SUBSET {n \in Nodes : bridge[n] = "plain"} :
          /\ ns # {}
          /\ weighed' = [n \in Nodes |-> IF n \in ns THEN "weighted" ELSE bridge[n]]
    /\ reweighing' = "read" /\ outdated' = outdated \ {"reweighter"}
    /\ UNCHANGED <<version, files, tables, proc, runs, crashes, late, unread, lost>>

ReweightTruncate ==
    /\ reweighing = "read"
    /\ reweighing' = "write"
    /\ bridgeWhole' = FALSE
    /\ UNCHANGED <<version, manifest, manifestWhole, bridge, tables, proc,
                   weighed, runs, crashes, history>>

ReweightWritten ==
    /\ reweighing = "write"
    /\ bridge' = weighed /\ bridgeWhole' = TRUE
    /\ weighed' = NoFile /\ reweighing' = "off"
    /\ outdated' = IF run \in {"merge", "write"} THEN outdated \cup {"run"} ELSE outdated
    /\ UNCHANGED <<version, manifest, manifestWhole, tables, proc, runs, crashes,
                   late, unread, lost>>

\* The reweighter dies; what it was writing stays cut off.
ReweightCrash ==
    /\ reweighing # "off" /\ crashes < MaxCrashes
    /\ crashes' = crashes + 1
    /\ reweighing' = "off" /\ weighed' = NoFile
    /\ UNCHANGED <<version, files, tables, proc, runs, history>>

-----------------------------------------------------------------------------
(* The run: harvest.                                                        *)

\* select_dirty: new and changed pages get a coroutine each.
Start ==
    /\ run = "off" /\ runs < MaxRuns
    /\ runs' = runs + 1
    /\ run' = "harvest"
    /\ ram' = LoadedManifest
    /\ page' = [p \in Pages |->
                  IF LoadedManifest[p] = version[p] THEN Parked
                  ELSE [Parked EXCEPT !.at = "start"]]
    /\ UNCHANGED <<version, files, tables, target, merged, other, crashes, history>>

\* The file is read, judged by _looks_useful, and looked up by is_processed;
\* what is left goes to the LLM.
ReadPage(p) ==
    /\ run = "harvest" /\ page[p].at = "start"
    /\ page' = [page EXCEPT ![p] =
                  IF <<p, version[p]>> \in Thin \cup processed
                  THEN [at |-> "done",  content |-> version[p]]
                  ELSE [at |-> "asked", content |-> version[p]]]
    /\ UNCHANGED <<version, files, tables, run, ram, target, merged, other,
                   runs, crashes, history>>

\* The file cannot be read now, or not as text: the page counts as done, marked
\* or not.
ReadFails(p) ==
    /\ run = "harvest" /\ page[p].at = "start"
    /\ <<p, version[p]>> \in Flaky
    /\ unread' = unread \cup {<<p, version[p]>>}
    /\ page' = [page EXCEPT ![p] = [at |-> "done", content |-> version[p]]]
    /\ UNCHANGED <<version, files, tables, run, ram, target, merged, other,
                   runs, crashes, late, lost, outdated>>

\* The outcomes llm_error and skipped_no_symptom.
NothingExtracted(p) ==
    /\ run = "harvest" /\ page[p].at = "asked"
    /\ processed' = processed \cup {<<p, page[p].content>>}
    /\ page' = [page EXCEPT ![p].at = "done"]
    /\ UNCHANGED <<version, files, extracted, heuristics, run, ram, target,
                   merged, other, runs, crashes, history>>

\* Mutant of Marked: the outcome is filed under a key is_processed does not find.
MarkedElsewhere(p) ==
    /\ run = "harvest" /\ page[p].at = "asked"
    /\ extracted' = extracted \cup {<<p, page[p].content>>}
    /\ page' = [page EXCEPT ![p].at = "found"]
    /\ UNCHANGED <<version, files, processed, heuristics, run, ram, target,
                   merged, other, runs, crashes, history>>

\* The outcome "extracted" is committed; the row is only handed on.
Marked(p) ==
    /\ run = "harvest" /\ page[p].at = "asked"
    /\ processed' = processed \cup {<<p, page[p].content>>}
    /\ extracted' = extracted \cup {<<p, page[p].content>>}
    /\ page' = [page EXCEPT ![p].at = "found"]
    /\ UNCHANGED <<version, files, heuristics, run, ram, target, merged, other,
                   runs, crashes, history>>

\* Mutant of Upserted: INSERT OR IGNORE instead of INSERT OR REPLACE.
UpsertedIgnore(p) ==
    /\ run = "harvest" /\ page[p].at = "found"
    /\ heuristics' = [heuristics EXCEPT ![Home[p]] =
                        IF @ = NoRow THEN <<p, page[p].content>> ELSE @]
    /\ page' = [page EXCEPT ![p].at = "done"]
    /\ UNCHANGED <<version, files, processed, extracted, run, ram, target,
                   merged, other, runs, crashes, history>>

\* run_harvester stores the row as_completed yields.
Upserted(p) ==
    /\ run = "harvest" /\ page[p].at = "found"
    /\ heuristics' = [heuristics EXCEPT ![Home[p]] = <<p, page[p].content>>]
    /\ page' = [page EXCEPT ![p].at = "done"]
    /\ UNCHANGED <<version, files, processed, extracted, run, ram, target,
                   merged, other, runs, crashes, history>>

\* Mutant of Harvested: the manifest is brought up to date while pages are
\* still being read.
HarvestedEarly ==
    /\ run = "harvest"
    /\ ram' = [p \in Pages |-> IF page[p].at = "idle" THEN ram[p] ELSE version[p]]
    /\ page' = [p \in Pages |-> Parked]
    /\ target' = {n \in Nodes : heuristics[n] # NoRow} \ Clusters(Loaded)
    /\ run' = "muse"
    /\ UNCHANGED <<version, files, tables, merged, other, runs, crashes, history>>

\* manifest.upsert hashes the dirty pages again; the graph is rebuilt from the
\* table and compared with the bridge.
Harvested ==
    /\ run = "harvest"
    /\ \A p \in Pages : page[p].at \in {"idle", "done"}
    /\ ram' = [p \in Pages |-> IF page[p].at = "done" THEN version[p] ELSE ram[p]]
    /\ page' = [p \in Pages |-> Parked]
    /\ target' = {n \in Nodes : heuristics[n] # NoRow} \ Clusters(Loaded)
    /\ run' = "muse"
    /\ UNCHANGED <<version, files, tables, merged, other, runs, crashes, history>>

-----------------------------------------------------------------------------
(* The run: Muse, merge, save.                                              *)

\* The judge keeps the analogies of some nodes.  merge_into_bridge then reads
\* the file again and skips the ids it finds; without a new id nothing is
\* written.
Minted ==
    /\ run = "muse"
    /\ \E minted \in SUBSET target :
          LET added == minted \ Clusters(Loaded)
          IN  /\ merged' = [n \in Nodes |-> IF n \in added THEN "plain" ELSE Loaded[n]]
              /\ run' = IF added = {} THEN "save" ELSE "merge"
    /\ target' = {}
    /\ outdated' = IF bridgeWhole THEN outdated \ {"run"} ELSE outdated \cup {"run"}
    /\ UNCHANGED <<version, files, tables, ram, page, other, runs, crashes, late, unread, lost>>

BridgeTruncated ==
    /\ run = "merge"
    /\ run' = "write"
    /\ bridgeWhole' = FALSE
    /\ UNCHANGED <<version, manifest, manifestWhole, bridge, tables, ram, page,
                   target, merged, other, runs, crashes, history>>

BridgeWritten ==
    /\ run = "write"
    /\ bridge' = merged /\ bridgeWhole' = TRUE
    /\ run' = "save"
    /\ outdated' = IF reweighing # "off" THEN outdated \cup {"reweighter"} ELSE outdated
    /\ UNCHANGED <<version, manifest, manifestWhole, tables, ram, page, target,
                   merged, other, runs, crashes, late, unread, lost>>

ManifestTruncated ==
    /\ run = "save"
    /\ run' = "saving"
    /\ manifestWhole' = FALSE
    /\ UNCHANGED <<version, manifest, bridge, bridgeWhole, tables, ram, page,
                   target, merged, other, runs, crashes, history>>

ManifestWritten ==
    /\ run = "saving"
    /\ manifest' = ram /\ manifestWhole' = TRUE
    /\ run' = "off" /\ merged' = NoFile
    /\ UNCHANGED <<version, bridge, bridgeWhole, tables, ram, page, target,
                   other, runs, crashes, history>>

\* The run dies; what it was writing stays cut off.
Crash ==
    /\ run # "off" /\ crashes < MaxCrashes
    /\ crashes' = crashes + 1
    /\ run' = "off" /\ merged' = NoFile /\ target' = {}
    /\ page' = [p \in Pages |-> Parked]
    /\ lost' = lost \cup {<<p, page[p].content>> : p \in {q \in Pages : page[q].at = "found"}}
    /\ UNCHANGED <<version, files, tables, ram, other, runs, late, unread, outdated>>

Next ==
    \/ Start \/ Harvested \/ Minted \/ BridgeTruncated \/ BridgeWritten
    \/ ManifestTruncated \/ ManifestWritten \/ Crash
    \/ ReweightRead \/ ReweightTruncate \/ ReweightWritten \/ ReweightCrash
    \/ \E p \in Pages : \/ Edit(p) \/ ReadPage(p) \/ ReadFails(p) \/ NothingExtracted(p)
                        \/ Marked(p) \/ Upserted(p)

Spec == Init /\ [][Next]_vars

-----------------------------------------------------------------------------
(* Properties.                                                              *)

\* What the manifest calls up to date was harvested: the recorded content is
\* marked in processed_files, or there was nothing in it to harvest.  The next
\* run skips such a page (source_manifest.py, select_dirty), so an entry for a
\* content nobody read hides it until the page is edited again.  Two contents
\* are excepted, and no other: one that the page got between being read and being
\* hashed for the manifest (manifest.upsert hashes the file anew), and one that a
\* run failed to read (process_single_page returns nothing, and its caller
\* cannot tell that from a page with nothing in it).
ManifestTellsTruth ==
    manifestWhole =>
        \A p \in Pages : manifest[p] # 0 =>
            <<p, manifest[p]>> \in Thin \cup processed \cup late \cup unread

\* Between runs the newest content of a page that was marked "extracted" is in
\* the heuristics table under the page's id: the mark makes is_processed skip
\* the content for ever (harvester.py), so a row that is missing stays missing.
\* Only a run killed between the two commits loses one.  For pages with ids of
\* their own.
ExtractedIsStored ==
    run = "off" =>
        \A c \in extracted \ lost :
            \E v \in c[2]..MaxVersion : heuristics[Home[c[1]]] = <<c[1], v>>

\* Merging is not destructive: no write of bridge_index.json drops a cluster
\* or the weights the reweighter gave it (merge_into_bridge: existing entries
\* are NOT overwritten).
Kept ==
    \A n \in Nodes : bridge[n] # "absent" => bridge'[n] \in {bridge[n], "weighted"}

\* Without a kill, whoever writes it.
ClustersKept == [][crashes = 0 => Kept]_vars

\* With kills and with writers that overlap, a writer drops only what its copy
\* of the file never had: the file could not be parsed when it read it (the other
\* writer was rewriting it, or was killed while it did), or the other writer
\* finished since.
KeptByFreshWriters ==
    [][\/ Kept
       \/ run = "write" /\ run' = "save" /\ "run" \in outdated
       \/ /\ reweighing = "write" /\ reweighing' = "off"
          /\ "reweighter" \in outdated]_vars
=============================================================================
