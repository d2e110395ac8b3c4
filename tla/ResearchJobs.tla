---------------------------- MODULE ResearchJobs ----------------------------
(***************************************************************************)
(* The on-demand research service: POST /know/v1/research (api.py), the    *)
(* ResearchStore it writes (research_store.py: a dict in RAM plus an       *)
(* append-only jsonl file) and the one ResearchWorker task that runs the   *)
(* jobs (research_worker.py).                                              *)
(*                                                                         *)
(* Everything runs on one asyncio loop, so a request is served only while  *)
(* the worker is suspended at an await; the process may be killed anywhere *)
(* and an append may fail or be cut short.                                 *)
(***************************************************************************)
EXTENDS Naturals, Sequences, SequencesExt

CONSTANTS
    Jobs,        \* job ids; uuid4 in the code, so an id is never handed out twice
    None,        \* "no job in the worker's hands"
    MaxSources,  \* bound on the number of sources a search returns
    MaxCrashes,  \* bound on process stops, graceful or not
    MaxFaults,   \* bound on disk errors
    TornWrites   \* may a kill cut an append short?

ASSUME ResearchAssumption ==
    /\ None \notin Jobs
    /\ MaxSources \in Nat
    /\ MaxCrashes \in Nat
    /\ MaxFaults \in Nat
    /\ TornWrites \in BOOLEAN

VARIABLES
    task,        \* where the process is: "down", or the worker's next step
    cur,         \* the job in the worker's hands
    queue,       \* asyncio.Queue of the worker
    jobs,        \* ResearchStore._jobs
    log,         \* the lines of research_jobs.jsonl that load() can parse
    tail,        \* how the file ends: "clean" (newline), "whole" (the last
                 \*   line of log lacks its newline), "cut" (a fragment)
    unreadable,  \* does the file hold half of a multi-byte character?
    merged,      \* jobs whose clusters are in bridge_index.json
    accepted,    \* jobs the API answered 202 for (history)
    stranded,    \* unfinished jobs in RAM that no one will ever run (history)
    crashes, faults

store  == <<jobs, log, tail, unreadable, faults>>
vars   == <<task, cur, queue, jobs, log, tail, unreadable,
            merged, accepted, stranded, crashes, faults>>

Status   == {"queued", "running", "completed", "failed"}
Terminal == {"completed", "failed"}
Rec  == [status: Status \cup {"absent"}, planned: 0..MaxSources,
         fetched: 0..MaxSources, added: BOOLEAN]
Line == [job: Jobs, rec: Rec]
NoJob  == [status |-> "absent", planned |-> 0, fetched |-> 0, added |-> FALSE]
\* Mutant of NewJob: a status ResearchStatus does not have.
NewJobPending == [NoJob EXCEPT !.status = "pending"]
NewJob == [status |-> "queued", planned |-> 0, fetched |-> 0, added |-> FALSE]

Busy   == {"collect", "empty", "files", "ingest", "merged",
           "reload", "finish", "except"}
Awaits == {"idle", "collect", "ingest", "reload", "dead"}

InQueue(j) == \E i \in DOMAIN queue : queue[i] = j

-----------------------------------------------------------------------------
(* ResearchStore.  The file is the list of its parseable lines and the way  *)
(* it ends: bytes appended after a fragment join the fragment's line, and   *)
(* load() skips that line as malformed.                                     *)

\* Mutant of Replay: the first line of a job wins.
ReplayFirstWins == [j \in Jobs |->
             LET at == {i \in DOMAIN log : log[i].job = j}
             IN  IF at = {} THEN NoJob ELSE log[Min(at)].rec]

Replay == [j \in Jobs |->
             LET at == {i \in DOMAIN log : log[i].job = j}
             IN  IF at = {} THEN NoJob ELSE log[Max(at)].rec]

Spoiled == IF tail = "whole" THEN SubSeq(log, 1, Len(log) - 1) ELSE log

\* A fragment is left at the end of the file, perhaps inside a character.
Fragment ==
    /\ log' = Spoiled
    /\ tail' = "cut"
    /\ unreadable' \in {unreadable, TRUE}

\* _append returned: RAM and file changed together.
Saved(j, r) ==
    /\ jobs' = [jobs EXCEPT ![j] = r]
    /\ log' = IF tail = "clean" THEN Append(log, [job |-> j, rec |-> r])
              ELSE Spoiled
    /\ tail' = "clean"
    /\ UNCHANGED <<unreadable, faults>>

\* _append raised OSError: RAM already holds the record, the file does not.
NotSaved(j, r) ==
    /\ faults < MaxFaults
    /\ faults' = faults + 1
    /\ jobs' = [jobs EXCEPT ![j] = r]
    /\ \/ UNCHANGED <<log, tail, unreadable>>
       \/ Fragment

\* Everything the process held in RAM is gone.
Down ==
    /\ crashes < MaxCrashes
    /\ crashes' = crashes + 1
    /\ task' = "down"
    /\ cur' = None
    /\ queue' = <<>>
    /\ jobs' = [j \in Jobs |-> NoJob]
    /\ stranded' = {}
    /\ UNCHANGED <<merged, faults>>

\* The process is killed inside _append, which leaves part of the line.
KilledWriting(j, r) ==
    /\ TornWrites
    /\ Down
    /\ UNCHANGED accepted
    /\ \/ Fragment
       \/ /\ tail = "clean"
          /\ log' = Append(log, [job |-> j, rec |-> r])
          /\ tail' = "whole"
          /\ UNCHANGED unreadable

\* store.update(cur, ...) followed by step next; a disk error goes to onError.
Update(r, next, onError) ==
    \/ /\ \/ Saved(cur, r) /\ task' = next
          \/ NotSaved(cur, r) /\ task' = onError
       /\ cur' = IF task' \in Busy THEN cur ELSE None
       /\ UNCHANGED <<queue, merged, accepted, stranded, crashes>>
    \/ KilledWriting(cur, r)

\* A step that touches neither the store nor the process.
Goto(next) ==
    /\ task' = next
    /\ UNCHANGED <<cur, queue, store, merged, accepted, stranded, crashes>>

-----------------------------------------------------------------------------
(* Mutants: bugs the properties below are known to catch.  Each is the       *)
(* definition it is named after with one plausible mistake.                  *)

\* The worker looks at the head of the queue and leaves it there.
DequeuePeek ==
    /\ task = "idle" /\ queue # <<>>
    /\ Saved(Head(queue), [jobs[Head(queue)] EXCEPT !.status = "running"])
    /\ task' = "collect"
    /\ cur' = Head(queue)
    /\ UNCHANGED <<queue, merged, accepted, stranded, crashes>>

\* The newest job first.
DequeueLifo ==
    /\ task = "idle" /\ queue # <<>>
    /\ LET j == queue[Len(queue)]
       IN  /\ Saved(j, [jobs[j] EXCEPT !.status = "running"])
           /\ cur' = j
    /\ queue' = SubSeq(queue, 1, Len(queue) - 1)
    /\ task' = "collect"
    /\ UNCHANGED <<merged, accepted, stranded, crashes>>

\* No return after the update in the TimeoutError clause.
CollectTimedOutGoesOn ==
    /\ task = "collect"
    /\ Update([jobs[cur] EXCEPT !.status = "failed"], "files", "except")

\* No return after the short-circuit.
NothingFoundGoesOn ==
    /\ task = "empty"
    /\ Update([jobs[cur] EXCEPT !.status = "completed", !.added = FALSE],
              "files", "except")

\* clusters_added is taken from the candidates, not from what was minted.
FinishedClaimsAll ==
    /\ task = "finish"
    /\ Update([jobs[cur] EXCEPT !.status = "completed", !.added = TRUE],
              "idle", "except")

\* The except clause logs the exception and updates nothing.
JobCrashedLogOnly ==
    /\ task = "except"
    /\ task' = "idle" /\ cur' = None
    /\ UNCHANGED <<queue, store, merged, accepted, stranded, crashes>>

\* Every unfinished job of the file is submitted again.
RestartResubmits ==
    /\ task = "down"
    /\ ~unreadable
    /\ task' = "idle"
    /\ jobs' = Replay
    /\ stranded' = {}
    /\ queue' = SetToSeq({j \in Jobs : Replay[j].status \in {"queued", "running"}})
    /\ UNCHANGED <<cur, log, tail, unreadable,
                   merged, accepted, crashes, faults>>

-----------------------------------------------------------------------------
(* The API.                                                                 *)

\* start_research: create, then submit.  When create's append raises, the
\* agent gets a 500 and the job stays in RAM, in no queue.
StartResearch(j) ==
    /\ task \in Awaits
    /\ jobs[j] = NoJob /\ Replay[j] = NoJob /\ j \notin accepted
    /\ \/ /\ Saved(j, NewJob)
          /\ queue' = Append(queue, j)
          /\ accepted' = accepted \cup {j}
          /\ UNCHANGED <<task, cur, merged, stranded, crashes>>
       \/ /\ NotSaved(j, NewJob)
          /\ stranded' = stranded \cup {j}
          /\ UNCHANGED <<task, cur, queue, merged, accepted, crashes>>
       \/ KilledWriting(j, NewJob)

-----------------------------------------------------------------------------
(* The worker: _run_loop and _run_job, one action per store.update or       *)
(* await.                                                                   *)

\* queue.get() and the update to "running" have no await between them.
Dequeue ==
    /\ task = "idle" /\ queue # <<>>
    /\ LET j == Head(queue)
           r == [jobs[j] EXCEPT !.status = "running"]
       IN  \/ /\ \/ Saved(j, r) /\ task' = "collect"
                 \/ NotSaved(j, r) /\ task' = "except"
              /\ cur' = j
              /\ queue' = Tail(queue)
              /\ UNCHANGED <<merged, accepted, stranded, crashes>>
           \/ KilledWriting(j, r)

Collected ==
    /\ task = "collect"
    /\ \E n \in 0..MaxSources :
          Update([jobs[cur] EXCEPT !.planned = n],
                 IF n = 0 THEN "empty" ELSE "files", "except")

CollectTimedOut ==
    /\ task = "collect"
    /\ Update([jobs[cur] EXCEPT !.status = "failed"], "idle", "except")

CollectRaised ==
    /\ task = "collect"
    /\ Goto("except")

NothingFound ==
    /\ task = "empty"
    /\ Update([jobs[cur] EXCEPT !.status = "completed", !.added = FALSE],
              "idle", "except")

FilesWritten ==
    /\ task = "files"
    /\ Update([jobs[cur] EXCEPT !.fetched = jobs[cur].planned],
              "ingest", "except")

FilesNotWritten ==
    /\ task = "files"
    /\ faults < MaxFaults
    /\ faults' = faults + 1
    /\ task' = "except"
    /\ UNCHANGED <<cur, queue, jobs, log, tail, unreadable,
                   merged, accepted, stranded, crashes>>

\* run_incremental_ingest up to merge_into_bridge: RuntimeError is reported
\* by _run_job itself, any other exception by _run_loop.
IngestRefused ==
    /\ task = "ingest"
    /\ Update([jobs[cur] EXCEPT !.status = "failed"], "idle", "except")

IngestRaised ==
    /\ task = "ingest"
    /\ Goto("except")

BridgeMerged ==
    /\ task = "ingest"
    /\ task' = "merged"
    /\ merged' \in {merged, merged \cup {cur}}
    /\ UNCHANGED <<cur, queue, store, accepted, stranded, crashes>>

\* manifest.save() is the last thing run_incremental_ingest does.
ManifestSaved ==
    /\ task = "merged"
    /\ \/ Goto("reload")
       \/ /\ faults < MaxFaults
          /\ faults' = faults + 1
          /\ task' = "except"
          /\ UNCHANGED <<cur, queue, jobs, log, tail, unreadable,
                         merged, accepted, stranded, crashes>>

\* _notify_how_reload: URLError, HTTPError and TimeoutError become part of
\* the summary; what urlopen(...).read() raises otherwise (RemoteDisconnected,
\* ConnectionResetError, IncompleteRead) leaves _run_job.
Reloaded ==
    /\ task = "reload"
    /\ Goto("finish")

ReloadRaised ==
    /\ task = "reload"
    /\ Goto("except")

Finished ==
    /\ task = "finish"
    /\ Update([jobs[cur] EXCEPT !.status = "completed",
                                !.added = cur \in merged],
              "idle", "except")

\* The except clause of _run_loop; an error here ends the task.
JobCrashed ==
    /\ task = "except"
    /\ Update([jobs[cur] EXCEPT !.status = "failed"], "idle", "dead")

Worker ==
    \/ Dequeue
    \/ Collected \/ CollectTimedOut \/ CollectRaised \/ NothingFound
    \/ FilesWritten \/ FilesNotWritten
    \/ IngestRefused \/ IngestRaised \/ BridgeMerged \/ ManifestSaved
    \/ Reloaded \/ ReloadRaised \/ Finished \/ JobCrashed

-----------------------------------------------------------------------------
(* The process: a stop or a kill between two appends, and _lifespan's start. *)

Killed ==
    /\ task # "down"
    /\ Down
    /\ UNCHANGED <<accepted, log, tail, unreadable>>

\* ResearchStore.load(), then a worker with an empty queue.  load() does not
\* catch UnicodeDecodeError.
Restart ==
    /\ task = "down"
    /\ ~unreadable
    /\ task' = "idle"
    /\ jobs' = Replay
    /\ stranded' = {j \in Jobs : Replay[j].status \in {"queued", "running"}}
    /\ UNCHANGED <<cur, queue, log, tail, unreadable,
                   merged, accepted, crashes, faults>>

Init ==
    /\ task = "idle"
    /\ cur = None
    /\ queue = <<>>
    /\ jobs = [j \in Jobs |-> NoJob]
    /\ log = <<>>
    /\ tail = "clean"
    /\ unreadable = FALSE
    /\ merged = {} /\ accepted = {} /\ stranded = {}
    /\ crashes = 0 /\ faults = 0

Next ==
    \/ \E j \in Jobs : StartResearch(j)
    \/ Worker
    \/ Killed
    \/ Restart

Spec == Init /\ [][Next]_vars

(* The loop schedules the worker, whose awaits all end: collect_sources      *)
(* under wait_for, urlopen under its own timeout, the model calls of the     *)
(* ingest under their retries.  The service manager restarts the process.    *)
Fairness == WF_vars(Worker) /\ WF_vars(Restart)

FairSpec == Spec /\ Fairness

-----------------------------------------------------------------------------
(* The abstract service this module implements while the disk is sound.      *)

Phase(j, r) ==
    IF r.status \in {"queued", "running"} /\ (task = "down" \/ j \in stranded)
    THEN "abandoned" ELSE r.status

phaseBar ==
    LET known == IF task = "down" THEN Replay ELSE jobs
    IN  [j \in Jobs |-> Phase(j, known[j])]

Service == INSTANCE ResearchService
             WITH phase <- phaseBar, line <- queue, published <- merged

-----------------------------------------------------------------------------
(* Properties.                                                              *)

\* Every variable has its type (ResearchJob, ResearchStore, ResearchWorker).
TypeOK ==
    /\ task \in Busy \cup {"down", "idle", "dead"}
    /\ cur \in Jobs \cup {None}
    /\ queue \in Seq(Jobs)
    /\ jobs \in [Jobs -> Rec]
    /\ log \in Seq(Line)
    /\ tail \in {"clean", "whole", "cut"}
    /\ tail = "whole" => log # <<>>
    /\ unreadable \in BOOLEAN
    /\ merged \subseteq Jobs /\ accepted \subseteq Jobs /\ stranded \subseteq Jobs
    /\ crashes \in 0..MaxCrashes /\ faults \in 0..MaxFaults

\* start_research and _run_loop between them lose no job and run none twice:
\* a queued job waits at exactly one place of the queue or is stranded, a
\* running one is the job in the worker's hands or is stranded, and what the
\* worker holds no longer waits.
ScheduledOnce ==
    /\ \A i, k \in DOMAIN queue : queue[i] = queue[k] => i = k
    /\ \A j \in Jobs :
         /\ InQueue(j) => jobs[j].status = "queued" /\ j \notin stranded
         /\ jobs[j].status = "queued" => InQueue(j) \/ j \in stranded
         /\ jobs[j].status = "running" => j = cur \/ j \in stranded
    /\ task \in Busy => cur \in Jobs /\ ~InQueue(cur) /\ cur \notin stranded

\* No job adds its clusters to the bridge twice, whatever fails and however
\* often the process restarts: run_incremental_ingest is never entered for a
\* job whose clusters are already there.
MergedAtMostOnce ==
    task \in {"collect", "empty", "files", "ingest"} => cur \notin merged

\* A job reported completed, to a poll or in a line of the file, tells the
\* truth: it claims new clusters exactly when they were merged, and all the
\* sources it planned were written.
CompletedIsTrue ==
    LET Honest(j, r) == r.status = "completed" =>
            /\ r.added = (j \in merged)
            /\ r.fetched = r.planned
    IN  /\ \A j \in Jobs : Honest(j, jobs[j])
        /\ \A i \in DOMAIN log : Honest(log[i].job, log[i].rec)

\* A finished job's line is the last line of that job in the file, so no
\* replay can reopen it: disk errors, kills and restarts included.
FinishedLineIsLast ==
    \A i, k \in DOMAIN log :
        log[i].job = log[k].job /\ log[i].rec.status \in Terminal => k <= i

\* While no append fails or is cut short, every answer a poll can get is
\* already on disk: a restart at any await loses nothing of it.
AnswersAreDurable ==
    task \in Awaits => jobs = Replay

Rank == [s \in Status \cup {"absent"} |->
           CASE s = "absent" -> 0 [] s = "queued" -> 1
             [] s = "running" -> 2 [] OTHER -> 3]

\* A status never goes back while the process lives, and a finished record is
\* never touched again, but by the handler of the very append that failed to
\* record it, before any poll.
StatusOnlyAdvances ==
    [][task # "down" /\ task' # "down" =>
         \A j \in Jobs :
            /\ Rank[jobs[j].status] <= Rank[jobs'[j].status]
            /\ jobs[j].status \in Terminal /\ ~(task = "except" /\ j = cur)
                  => jobs'[j] = jobs[j]]_vars

\* Every waiting job of a process that stays up ends, in spite of disk errors
\* and exceptions, unless the worker itself was lost.
WaitingJobsEnd ==
    \A j \in Jobs :
        InQueue(j) ~> \/ jobs[j].status \in Terminal
                      \/ task \in {"down", "dead"}

\* "never let one job kill the worker" (research_worker.py:108).
WorkerSurvives == task # "dead"

\* The service implements ResearchService: one job at a time in the order of
\* the 202s, clusters published at most once per job, results final across
\* restarts, and a stop abandons exactly the unfinished jobs.
ImplementsService == Service!SvcSpec
=============================================================================
